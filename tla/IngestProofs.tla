---------------------------- MODULE IngestProofs ----------------------------
(***************************************************************************)
(* What is proved of the consumer, for every script, batch size and number *)
(* of failures.  None of it is inductive as it stands; each part adds to   *)
(* the ones before it what its theorem needs.                              *)
(*                                                                         *)
(*   TypeInv    types, and what the locals hold at each point of the loop  *)
(*   SettledInv what Postgres has of every acknowledged entry: it needs    *)
(*              the entries of the transaction, applied ones in its own    *)
(*              tables, all of them in Postgres once committed, and that a *)
(*              transaction never takes back what Postgres holds           *)
(*   OrderInv   what the pass over single entries may still try, what it   *)
(*              holds back and why, and that nothing is left of the camera *)
(*              of an acknowledged entry before it                         *)
(*   PushInv    what `fresh` says of the tables and of the pushes so far   *)
(*   MetricInv  the stream is in send order; no acknowledged metric has an *)
(*              older value over it, inside the transaction too            *)
(*   BootInv    no entry still to be acknowledged can open an interval of  *)
(*              a boot whose end is stored                                 *)
(***************************************************************************)
EXTENDS Ingest, FiniteSetTheorems, TLAPS

-----------------------------------------------------------------------------
(* The rows a message writes.                                              *)

\* A valid position in the stream carries a message.
LEMMA MsgType ==
    ASSUME TypeOK, NEW e \in 1 .. Len(stream)
    PROVE  /\ Msg(e) \in Message /\ Msg(e).key \in Keys
           /\ stream[e] \in Nat \ {0} /\ e \in Entries
  <1>1. stream[e] \in 1 .. Len(Script)
    BY DEF TypeOK, RedisType
  <1>2. Msg(e) \in Message
    BY <1>1, ScriptAssumption DEF Msg
  <1>3. Msg(e).key \in Keys
    BY <1>2 DEF Message
  <1>4. e \in Entries
    BY BoundAssumption DEF TypeOK, RedisType, Entries
  <1> QED BY <1>1, <1>2, <1>3, <1>4

\* The tables d2 hold everything that the tables d hold.
Keeps(d, d2) == \A e \in 1 .. Len(stream) : Settled(d, e) => Settled(d2, e)

LEMMA DeadLetterRow ==
    ASSUME TypeOK, NEW d \in Tables, NEW e \in 1 .. Len(stream)
    PROVE  /\ DeadLetter(d, e) \in Tables /\ Keeps(d, DeadLetter(d, e))
           /\ Settled(DeadLetter(d, e), e)
  <1>1. e \in Entries
    BY MsgType
  <1>2. DeadLetter(d, e) \in Tables
    <2>1. d.dead \in [Entries -> Nat]
      BY DEF Tables
    <2>2. [d.dead EXCEPT ![e] = @ + 1] \in [Entries -> Nat]
      BY <1>1, <2>1
    <2>3. DeadLetter(d, e)
            = [d EXCEPT !.dead = [d.dead EXCEPT ![e] = @ + 1]]
      BY DEF DeadLetter
    <2> QED BY <2>2, <2>3 DEF Tables
  <1>3. /\ DeadLetter(d, e).dead[e] = d.dead[e] + 1 /\ d.dead[e] \in Nat
        /\ \A f \in Entries \ {e} : DeadLetter(d, e).dead[f] = d.dead[f]
        /\ DeadLetter(d, e).events = d.events
        /\ DeadLetter(d, e).intervals = d.intervals
        /\ DeadLetter(d, e).metrics = d.metrics
    BY <1>1 DEF DeadLetter, Tables
  <1>4. Settled(DeadLetter(d, e), e)
    BY <1>3 DEF Settled
  <1>5. ASSUME NEW f \in 1 .. Len(stream), Settled(d, f)
        PROVE  Settled(DeadLetter(d, e), f)
    <2>1. f \in Entries
      BY MsgType
    <2>2. CASE f = e BY <2>2, <1>4
    <2>3. CASE f # e BY <2>1, <2>3, <1>3, <1>5 DEF Settled
    <2> QED BY <2>2, <2>3
  <1> QED BY <1>2, <1>4, <1>5 DEF Keeps

LEMMA EventRow ==
    ASSUME TypeOK, NEW d \in Tables, NEW e \in 1 .. Len(stream)
    PROVE  /\ InsertEvent(d, e) \in Tables /\ Keeps(d, InsertEvent(d, e))
           /\ Msg(e).key \in InsertEvent(d, e).events
           /\ Inserted(d, e) \subseteq Keys
  <1>1. Msg(e).key \in Keys
    BY MsgType
  <1>2. InsertEvent(d, e) \in Tables
    BY <1>1 DEF InsertEvent, Tables
  <1>3. /\ InsertEvent(d, e).events = d.events \cup {Msg(e).key}
        /\ InsertEvent(d, e).intervals = d.intervals
        /\ InsertEvent(d, e).metrics = d.metrics
        /\ InsertEvent(d, e).dead = d.dead
    BY DEF InsertEvent, Tables
  <1>4. Keeps(d, InsertEvent(d, e))
    BY <1>3 DEF Keeps, Settled
  <1> QED BY <1>1, <1>2, <1>3, <1>4 DEF Inserted

LEMMA EndOldBootRow ==
    ASSUME TypeOK, NEW d \in Tables, NEW time
    PROVE  EndOldBoot(d, time) \in Tables /\ Keeps(d, EndOldBoot(d, time))
  <1> DEFINE d2 == EndOldBoot(d, time)
  <1>1. \A s \in Keys : d.intervals[s] \in Interval
    BY DEF Tables
  <1>2. /\ d2.events = d.events /\ d2.evidence = d.evidence
        /\ d2.metrics = d.metrics /\ d2.dead = d.dead
        /\ d2 = [d EXCEPT !.intervals = d2.intervals]
    BY DEF EndOldBoot, Tables
  <1>3. d2.intervals = [s \in Keys |->
            IF /\ s \in GroupSessions
               /\ d.intervals[s].state = "open" /\ d.intervals[s].start <= time
            THEN [d.intervals[s] EXCEPT !.state = "restarted"]
            ELSE d.intervals[s]]
    BY DEF EndOldBoot, Tables
  <1>4. ASSUME NEW s \in Keys
        PROVE  /\ d2.intervals[s] \in Interval
               /\ \/ d2.intervals[s] = d.intervals[s]
                  \/ /\ d.intervals[s].state = "open"
                     /\ d2.intervals[s].state = "restarted"
    <2> HIDE DEF d2
    <2> QED BY <1>1, <1>3 DEF Interval
  <1>5. d2 \in Tables
    <2>1. d2.intervals \in [Keys -> Interval]
      <3>1. d2.intervals = [s \in Keys |-> d2.intervals[s]]
        BY <1>3
      <3> HIDE DEF d2
      <3> QED BY <3>1, <1>4
    <2> HIDE DEF d2
    <2> QED BY <1>2, <2>1 DEF Tables
  <1>6. Keeps(d, d2)
    <2> HIDE DEF d2
    <2>1. SUFFICES ASSUME NEW f \in 1 .. Len(stream), Settled(d, f)
                   PROVE  Settled(d2, f)
      BY DEF Keeps
    <2>2. Msg(f).key \in Keys
      BY MsgType
    <2> QED BY <2>1, <2>2, <1>2, <1>4 DEF Settled
  <1> QED BY <1>5, <1>6

LEMMA BootRow ==
    ASSUME TypeOK, NEW d \in Tables, NEW e \in 1 .. Len(stream)
    PROVE  /\ StartBoot(d, e) \in Tables /\ Keeps(d, StartBoot(d, e))
           /\ Msg(e).key \in StartBoot(d, e).events
  <1>1. CASE Inserted(d, e) = {}
    BY <1>1 DEF StartBoot, Inserted, Keeps
  <1>2. CASE Inserted(d, e) # {}
    <2> DEFINE i == InsertEvent(d, e)
    <2>1. StartBoot(d, e) = EndOldBoot(i, stream[e])
      BY <1>2 DEF StartBoot
    <2>2. i \in Tables /\ Keeps(d, i) /\ Msg(e).key \in i.events
      BY EventRow
    <2>3. /\ EndOldBoot(i, stream[e]) \in Tables
          /\ Keeps(i, EndOldBoot(i, stream[e]))
      BY <2>2, EndOldBootRow
    <2>4. EndOldBoot(i, stream[e]).events = i.events
      BY <2>2 DEF EndOldBoot, Tables
    <2> QED BY <2>1, <2>2, <2>3, <2>4 DEF Keeps
  <1> QED BY <1>1, <1>2

LEMMA IntervalRow ==
    ASSUME TypeOK, NEW d \in Tables, NEW e \in 1 .. Len(stream),
           NEW v \in Interval,
           v.state \in {"open", "closed"},
           d.intervals[Msg(e).key].state
             = IF v.state = "open" THEN "none" ELSE "open"
    PROVE  LET d2 == [d EXCEPT !.intervals[Msg(e).key] = v]
           IN  d2 \in Tables /\ Keeps(d, d2) /\ d2.intervals[Msg(e).key] = v
  <1> DEFINE d2 == [d EXCEPT !.intervals[Msg(e).key] = v]
  <1>1. Msg(e).key \in Keys
    BY MsgType
  <1>2. d2 \in Tables
    BY <1>1 DEF Tables
  <1>3. /\ d2.events = d.events /\ d2.metrics = d.metrics
        /\ d2.dead = d.dead /\ d2.intervals[Msg(e).key] = v
        /\ \A s \in Keys \ {Msg(e).key} : d2.intervals[s] = d.intervals[s]
    BY <1>1 DEF Tables
  <1>4. ASSUME NEW f \in 1 .. Len(stream), Settled(d, f)
        PROVE  Settled(d2, f)
    <2> HIDE DEF d2
    <2>1. Msg(f).key \in Keys
      BY MsgType
    <2> QED BY <1>3, <1>4, <2>1 DEF Settled
  <1> QED BY <1>2, <1>3, <1>4 DEF Keeps

LEMMA OpenedRow ==
    ASSUME TypeOK, NEW d \in Tables, NEW e \in 1 .. Len(stream),
           Msg(e).kind = "open"
    PROVE  /\ OpenRow(d, e) \in Tables /\ Keeps(d, OpenRow(d, e))
           /\ Settled(OpenRow(d, e), e)
  <1>1. CASE d.intervals[Msg(e).key].state # "none"
    BY <1>1 DEF OpenRow, Keeps, Settled
  <1>2. CASE d.intervals[Msg(e).key].state = "none"
    <2> DEFINE v == [state |-> "open", start |-> stream[e]]
    <2>1. v \in Interval /\ v.state = "open"
      BY MsgType DEF Interval
    <2>2. OpenRow(d, e) = [d EXCEPT !.intervals[Msg(e).key] = v]
      BY <1>2 DEF OpenRow
    <2> HIDE DEF v
    <2>3. /\ OpenRow(d, e) \in Tables /\ Keeps(d, OpenRow(d, e))
          /\ OpenRow(d, e).intervals[Msg(e).key] = v
      BY <1>2, <2>1, <2>2, IntervalRow
    <2> QED BY <2>1, <2>3 DEF Settled
  <1> QED BY <1>1, <1>2

LEMMA ClosedRow ==
    ASSUME TypeOK, NEW d \in Tables, NEW e \in 1 .. Len(stream),
           Msg(e).kind = "close"
    PROVE  /\ CloseRow(d, e) \in Tables /\ Keeps(d, CloseRow(d, e))
           /\ Settled(CloseRow(d, e), e)
  <1> DEFINE k == Msg(e).key
             old == d.intervals[k]
  <1>1. k \in Keys /\ old \in Interval
    BY MsgType DEF Tables
  <1>2. CASE old.state = "open"
    <2> DEFINE v == [old EXCEPT !.state = "closed"]
    <2>1. v \in Interval /\ v.state = "closed"
      BY <1>1 DEF Interval
    <2>2. CloseRow(d, e) = [d EXCEPT !.intervals[k] = v]
      BY <1>2 DEF CloseRow
    <2> HIDE DEF v
    <2>3. /\ CloseRow(d, e) \in Tables /\ Keeps(d, CloseRow(d, e))
          /\ CloseRow(d, e).intervals[k] = v
      BY <1>2, <2>1, <2>2, IntervalRow
    <2> QED BY <2>1, <2>3 DEF Settled
  <1>3. CASE old.state = "none"
    <2>1. CloseRow(d, e) = DeadLetter(d, e)
      BY <1>3 DEF CloseRow
    <2> QED BY <2>1, DeadLetterRow
  <1>4. CASE old.state \notin {"open", "none"}
    <2>1. CloseRow(d, e) = d
      BY <1>4 DEF CloseRow
    <2>2. old.state \in {"closed", "restarted"}
      BY <1>1, <1>4 DEF Interval
    <2> QED BY <2>1, <2>2 DEF Settled, Keeps
  <1> QED BY <1>2, <1>3, <1>4

LEMMA MetricRows ==
    ASSUME TypeOK, NEW d \in Tables, NEW e \in 1 .. Len(stream),
           Msg(e).kind = "metric"
    PROVE  /\ MetricRow(d, e) \in Tables /\ Keeps(d, MetricRow(d, e))
           /\ Settled(MetricRow(d, e), e)
  <1> DEFINE d2 == MetricRow(d, e)
  <1>1. Msg(e).key \in Keys /\ stream[e] \in Nat \ {0}
    BY MsgType
  <1>2. d2 \in Tables
    BY <1>1 DEF Tables, MetricRow
  <1>3. /\ d2.events = d.events /\ d2.intervals = d.intervals
        /\ d2.dead = d.dead /\ d2.metrics[Msg(e).key] = stream[e]
        /\ \A m \in Keys \ {Msg(e).key} : d2.metrics[m] = d.metrics[m]
    BY <1>1 DEF Tables, MetricRow
  <1> HIDE DEF d2
  <1>4. ASSUME NEW f \in 1 .. Len(stream), Settled(d, f)
        PROVE  Settled(d2, f)
    <2>1. Msg(f).key \in Keys
      BY MsgType
    <2> QED BY <1>1, <1>3, <1>4, <2>1 DEF Settled
  <1>5. Settled(d2, e)
    BY <1>1, <1>3 DEF Settled
  <1> QED BY <1>2, <1>4, <1>5 DEF Keeps, d2

-----------------------------------------------------------------------------
(* Type correctness.                                                       *)

LEMMA NoRowsType == NoRows \in Tables
  <1>1. [state |-> "none", start |-> 0] \in Interval
    BY DEF Interval
  <1> QED BY <1>1 DEF NoRows, Tables

\* Where the consumer is says what its locals hold: nothing is left of an
\* earlier read, entries wait for a transaction only inside it, and an entry
\* tried on its own is the only one of its transaction.
Phases ==
    /\ Reading => mode = "batch" /\ batch = {} /\ rest = {}
    /\ pc # "apply" => todo = {}
    /\ mode # "batch" /\ pc # "each" => \E e \in batch : work = {e}
    /\ pc \in {"count", "bury"} => mode # "batch"

TypeInv == TypeOK /\ Phases

LEMMA TypeInit == Init => TypeInv
  <1> SUFFICES ASSUME Init PROVE TypeInv
    OBVIOUS
  <1>1. stream \in Seq(1 .. Len(Script)) /\ Len(stream) = 0
    BY DEF Init
  <1>2. /\ failures \in [Entries -> Nat] /\ announced \in [Keys -> Nat]
        /\ db \in Tables /\ tx \in Tables
    BY NoRowsType DEF Init
  <1>3. RedisType
    <2>1. trimmed = 0 /\ last = 0 /\ pel = {}
      BY DEF Init
    <2>2. group \in BOOLEAN
      BY Zenon DEF Init
    <2>3. 0 <= MaxEntries
      BY BoundAssumption
    <2> HIDE DEF Init
    <2> QED BY <1>1, <1>2, <2>1, <2>2, <2>3 DEF RedisType
  <1>4. RowsType /\ LoopType /\ HistoryType
    BY <1>2 DEF Init, RowsType, LoopType, HistoryType
  <1>5. Phases
    BY DEF Init, Phases, Reading
  <1> QED BY <1>3, <1>4, <1>5 DEF TypeInv, TypeOK

\* The locals are dropped.
LEMMA TypeForget ==
    ASSUME TypeInv, NEW at \in {"group", "read"}, Forget(at),
           UNCHANGED <<stream, trimmed, group, last, cameras, lostReads, gone>>,
           pel' \subseteq pel, failures' \in [Entries -> Nat], db' \in Tables,
           trouble' \in Nat, done' \subseteq 1 .. Len(stream),
           announced' \in [Keys -> Nat], silenced' \subseteq Keys
    PROVE  TypeInv'
  <1> USE DEF TypeInv, TypeOK, Forget
  <1>1. RedisType' BY DEF RedisType
  <1>2. RowsType' BY DEF RowsType
  <1>3. LoopType' BY DEF LoopType
  <1>4. HistoryType' BY DEF HistoryType
  <1>5. Phases' BY DEF Phases, Reading
  <1> QED BY <1>1, <1>2, <1>3, <1>4, <1>5

\* New entries lie behind the last delivered one.
LEMMA DeliverType ==
    ASSUME TypeOK, Deliver(FirstOf(Undelivered, Count))
    PROVE  /\ last' \in last .. Len(stream) /\ pel' \subseteq 1 .. last'
           /\ FirstOf(Undelivered, Count) \subseteq (last + 1) .. last'
           /\ RedisType'
  <1> DEFINE S == FirstOf(Undelivered, Count)
  <1>1. S \subseteq Undelivered
    BY DEF FirstOf
  <1>2. PICK m \in S : (\A e \in S : e <= m) /\ last' = m
    BY DEF Deliver
  <1>3. /\ pel' = pel \cup S
        /\ UNCHANGED <<stream, trimmed, group, failures>>
    BY DEF Deliver
  <1> HIDE DEF S
  <1>4. last \in Nat /\ Len(stream) \in Nat
    BY DEF TypeOK, RedisType
  <1>5. last' \in last .. Len(stream)
    BY <1>1, <1>2, <1>4 DEF Undelivered
  <1>6. S \subseteq (last + 1) .. last'
    BY <1>1, <1>2, <1>4 DEF Undelivered
  <1>7. pel' \subseteq 1 .. last'
    BY <1>3, <1>4, <1>5, <1>6 DEF TypeOK, RedisType
  <1>8. RedisType'
    BY <1>3, <1>4, <1>5, <1>7 DEF TypeOK, RedisType
  <1> QED BY <1>5, <1>6, <1>7, <1>8 DEF S

\* A read hands over delivered entries.
LEMMA ProcessType ==
    ASSUME TypeInv, Reading, NEW S, S \subseteq 1 .. last', Process(S),
           last' \in last .. Len(stream), RedisType', stream' = stream,
           UNCHANGED <<dbVars, mode, passVars, todo, tx, known, fresh, envVars,
                       historyVars>>
    PROVE  TypeInv'
  <1> USE DEF TypeInv, TypeOK, Process, dbVars, passVars, envVars, historyVars
  <1>1. RowsType' BY DEF RowsType
  <1>2. LoopType'
    <2>1. rest = {} /\ todo = {}
      BY DEF Phases, Reading
    <2> QED BY <2>1 DEF LoopType
  <1>3. HistoryType' BY DEF HistoryType
  <1>4. Phases' BY DEF Phases, Reading
  <1> QED BY <1>1, <1>2, <1>3, <1>4

\* One entry leaves the transaction.
LEMMA AppliedType ==
    ASSUME TypeInv, pc = "apply", NEW e \in todo, NEW d \in Tables,
           NEW E \in SUBSET Keys, Applied(e, d, E)
    PROVE  TypeInv'
  <1> USE DEF TypeInv, TypeOK, Applied, redisVars, dbVars, batchVars, passVars,
              envVars, historyVars
  <1>1. RedisType' BY DEF RedisType
  <1>2. RowsType' BY DEF RowsType
  <1>3. LoopType' BY DEF LoopType
  <1>4. HistoryType' BY DEF HistoryType
  <1>5. Phases' BY DEF Phases, Reading
  <1> QED BY <1>1, <1>2, <1>3, <1>4, <1>5

LEMMA ReadStep ==
    ASSUME TypeInv, ReadPending \/ ReadNew \/ ResentRead
    PROVE  TypeInv'
  <1>1. CASE ReadPending
    <2>1. FirstOf(pel, Count) \subseteq 1 .. last /\ last \in Nat
      <3>1. FirstOf(pel, Count) \subseteq pel
        BY DEF FirstOf
      <3>2. pel \subseteq 1 .. last
        BY DEF TypeInv, TypeOK, RedisType
      <3>3. last \in Nat
        BY DEF TypeInv, TypeOK, RedisType
      <3> QED BY <3>1, <3>2, <3>3
    <2>2. last' = last /\ RedisType' /\ stream' = stream /\ Reading
      BY <1>1 DEF ReadPending, redisVars, TypeInv, TypeOK, RedisType, Reading
    <2> QED
      BY <1>1, <2>1, <2>2, ProcessType
      DEF ReadPending, redisVars, TypeInv, TypeOK, RedisType
  <1>2. CASE ReadNew \/ ResentRead
    <2>1. /\ Deliver(FirstOf(Undelivered, Count)) /\ Reading
          /\ Process(FirstOf(Undelivered, Count))
          /\ UNCHANGED <<dbVars, mode, passVars, todo, tx, known, fresh,
                         envVars, historyVars>>
      BY <1>2 DEF ReadNew, ResentRead, Reading
    <2>2. /\ last' \in last .. Len(stream) /\ RedisType'
          /\ FirstOf(Undelivered, Count) \subseteq (last + 1) .. last'
      BY <2>1, DeliverType DEF TypeInv
    <2>3. FirstOf(Undelivered, Count) \subseteq 1 .. last'
      BY <2>2 DEF TypeInv, TypeOK, RedisType
    <2>4. stream' = stream
      BY <2>1 DEF Deliver
    <2> QED BY <2>1, <2>2, <2>3, <2>4, ProcessType
  <1> QED BY <1>1, <1>2

LEMMA ApplyStep == ASSUME TypeInv, ApplyMessage PROVE TypeInv'
  <1>1. \A e \in todo : e \in 1 .. Len(stream)
    BY DEF TypeInv, TypeOK, RedisType, LoopType
  <1>2. tx \in Tables
    BY DEF TypeInv, TypeOK, RowsType
  <1>3. PICK e \in todo, d \in Tables, E \in SUBSET Keys :
            pc = "apply" /\ Applied(e, d, E)
    <2>1. CASE ApplyUnreadable \/ ApplyUnknownCamera
      BY <1>1, <1>2, <2>1, DeadLetterRow
      DEF ApplyUnreadable, ApplyUnknownCamera, Current, TypeInv
    <2>2. CASE ApplyEvent
      BY <1>1, <1>2, <2>2, EventRow DEF ApplyEvent, Current, TypeInv
    <2>3. CASE ApplyEngineStarted
      BY <1>1, <1>2, <2>3, BootRow, EventRow
      DEF ApplyEngineStarted, Current, TypeInv
    <2>4. CASE ApplyOpen
      BY <1>1, <1>2, <2>4, OpenedRow
      DEF ApplyOpen, Current, Readable, TypeInv
    <2>5. CASE ApplyClose
      BY <1>1, <1>2, <2>5, ClosedRow
      DEF ApplyClose, Current, Readable, TypeInv
    <2>6. CASE ApplyMetric
      BY <1>1, <1>2, <2>6, MetricRows
      DEF ApplyMetric, Current, Readable, TypeInv
    <2> QED
      BY <2>1, <2>2, <2>3, <2>4, <2>5, <2>6 DEF ApplyMessage
  <1> QED BY <1>3, AppliedType

\* What a step that throws, crashes or ends a batch may do besides.
LEMMA ForgetStep ==
    ASSUME TypeInv,
           \/ CommitReplyLost \/ TxTransient \/ XackFails \/ HdelFails
           \/ CountFails \/ BuryFails \/ Crash \/ PassDone
           \/ (Hdel /\ mode = "batch")
    PROVE  TypeInv'
  <1> USE DEF Throw, redisVars, dbVars, envVars, historyVars
  <1>1. /\ trouble \in Nat /\ trouble + 1 \in Nat
        /\ done \subseteq 1 .. Len(stream) /\ silenced \subseteq Keys
        /\ announced \in [Keys -> Nat]
    BY DEF TypeInv, TypeOK, HistoryType
  <1>2. work \subseteq 1 .. Len(stream)
    BY DEF TypeInv, TypeOK, RedisType, LoopType
  <1>3. /\ failures \in [Entries -> Nat]
    BY DEF TypeInv, TypeOK, RedisType
  <1>4. db \in Tables /\ tx \in Tables /\ fresh \subseteq Keys
    BY DEF TypeInv, TypeOK, RowsType
  <1>5. ASSUME Publish PROVE announced' \in [Keys -> Nat]
    BY <1>1, <1>5 DEF Publish
  <1>6. \A e \in work : DeadLetter(db, e) \in Tables
    BY <1>2, <1>4, DeadLetterRow DEF TypeInv
  <1>7. CASE CommitReplyLost
    BY <1>1, <1>2, <1>3, <1>4, <1>7, TypeForget DEF CommitReplyLost
  <1>8. CASE TxTransient
    BY <1>1, <1>3, <1>4, <1>8, TypeForget DEF TxTransient
  <1>9. CASE XackFails
    BY <1>1, <1>3, <1>4, <1>5, <1>9, TypeForget DEF XackFails
  <1>10. CASE HdelFails
    BY <1>1, <1>3, <1>4, <1>5, <1>10, TypeForget DEF HdelFails
  <1>11. CASE CountFails
    <2>1. failures' \in [Entries -> Nat]
      <3>1. PICK e \in work, times \in 0 .. 1 :
                failures' = [failures EXCEPT ![e] = @ + times]
        BY <1>11 DEF CountFails
      <3>2. e \in Entries
        BY <1>2, MsgType DEF TypeInv
      <3>3. failures[e] + times \in Nat
        BY <1>3, <3>2
      <3> QED BY <1>3, <3>1, <3>3
    <2> QED BY <1>1, <1>4, <1>11, <2>1, TypeForget DEF CountFails
  <1>12. CASE BuryFails
    BY <1>1, <1>2, <1>3, <1>4, <1>6, <1>12, TypeForget DEF BuryFails
  <1>13. CASE Crash
    BY <1>1, <1>3, <1>4, <1>13, TypeForget DEF Crash
  <1>14. CASE PassDone
    BY <1>1, <1>3, <1>4, <1>14, TypeForget DEF PassDone
  <1>15. CASE Hdel /\ mode = "batch"
    <2>1. failures' \in [Entries -> Nat]
      BY <1>3, <1>15 DEF Hdel
    <2> QED BY <1>1, <1>4, <1>5, <1>15, <2>1, TypeForget DEF Hdel
  <1> QED
    BY <1>7, <1>8, <1>9, <1>10, <1>11, <1>12, <1>13, <1>14, <1>15

\* The environment's steps.
LEMMA EnvironmentStep == ASSUME TypeInv, Environment PROVE TypeInv'
  <1> USE DEF TypeInv, TypeOK, dbVars, batchVars, passVars, txVars, envVars,
              historyVars, redisVars
  <1>1. CASE Xadd
    <2>1. PICK p \in 1 .. Len(Script) : stream' = Append(stream, p)
      BY <1>1 DEF Xadd
    <2>2. /\ stream' \in Seq(1 .. Len(Script))
          /\ Len(stream') = Len(stream) + 1 /\ Len(stream) \in Nat
          /\ Len(stream) < MaxEntries
      BY <1>1, <2>1 DEF Xadd, RedisType
    <2>3. RedisType'
      <3>1. /\ trimmed' = trimmed /\ last' = last /\ pel' = pel
            /\ group' = group /\ failures' = failures
        BY <1>1 DEF Xadd
      <3>2. trimmed \in 0 .. Len(stream) + 1 /\ last \in 0 .. Len(stream) + 1
        BY <2>2 DEF RedisType
      <3>3. Len(stream) + 1 <= MaxEntries
        BY <2>2, BoundAssumption
      <3> QED BY <2>2, <3>1, <3>2, <3>3 DEF RedisType
    <2>4. RowsType' BY <1>1 DEF Xadd, RowsType
    <2>5. LoopType' BY <1>1 DEF Xadd, LoopType
    <2>6. HistoryType' BY <1>1, <2>2 DEF Xadd, HistoryType
    <2>7. Phases' BY <1>1 DEF Xadd, Phases, Reading
    <2> QED BY <2>3, <2>4, <2>5, <2>6, <2>7
  <1>2. CASE RemoveCamera
    <2>1. RedisType' BY <1>2 DEF RemoveCamera, RedisType
    <2>2. RowsType' BY <1>2 DEF RemoveCamera, RowsType
    <2>3. LoopType' BY <1>2 DEF RemoveCamera, LoopType
    <2>4. HistoryType' BY <1>2 DEF RemoveCamera, HistoryType
    <2>5. Phases' BY <1>2 DEF RemoveCamera, Phases, Reading
    <2> QED BY <2>1, <2>2, <2>3, <2>4, <2>5
  <1>3. CASE Trim
    <2>1. RedisType'
      <3>1. trimmed' \in 0 .. Len(stream)
        BY <1>3 DEF Trim, RedisType
      <3> QED BY <1>3, <3>1 DEF Trim, RedisType
    <2>2. RowsType' BY <1>3 DEF Trim, RowsType
    <2>3. LoopType' BY <1>3 DEF Trim, LoopType
    <2>4. HistoryType'
      <3>1. Undelivered \subseteq 1 .. Len(stream)
        BY DEF Undelivered
      <3>2. gone' \subseteq 1 .. Len(stream)
        BY <1>3, <3>1 DEF Trim, HistoryType
      <3>3. trouble' \in Nat
        BY <1>3 DEF Trim, HistoryType
      <3> QED BY <1>3, <3>2, <3>3 DEF Trim, HistoryType
    <2>5. Phases' BY <1>3 DEF Trim, Phases, Reading
    <2> QED BY <2>1, <2>2, <2>3, <2>4, <2>5
  <1>4. CASE RedisLosesData
    <2>1. Len(stream) \in Nat /\ last \in Nat /\ last <= Len(stream)
      BY DEF RedisType
    <2>2. RedisType'
      <3>1. /\ failures' \in [Entries -> Nat] /\ group' \in BOOLEAN
            /\ pel' = {}
        BY <1>4 DEF RedisLosesData
      <3>2. /\ stream' = stream /\ trimmed' = Len(stream)
            /\ last' = Len(stream)
        BY <1>4 DEF RedisLosesData
      <3> QED BY <2>1, <3>1, <3>2 DEF RedisType
    <2>3. RowsType' BY <1>4 DEF RedisLosesData, RowsType
    <2>4. LoopType' BY <1>4, <2>1 DEF RedisLosesData, LoopType
    <2>5. HistoryType'
      <3>1. Undelivered \subseteq 1 .. Len(stream)
        BY DEF Undelivered
      <3>2. pel \subseteq 1 .. Len(stream)
        <4>1. pel \subseteq 1 .. last
          BY DEF RedisType
        <4> QED BY <2>1, <4>1
      <3>3. gone' \subseteq 1 .. Len(stream)
        BY <1>4, <3>1, <3>2 DEF RedisLosesData, HistoryType
      <3>4. trouble' \in Nat
        BY <1>4 DEF RedisLosesData, HistoryType
      <3> QED BY <1>4, <3>3, <3>4 DEF RedisLosesData, HistoryType
    <2>6. Phases' BY <1>4 DEF RedisLosesData, Phases, Reading
    <2> QED BY <2>2, <2>3, <2>4, <2>5, <2>6
  <1> QED BY <1>1, <1>2, <1>3, <1>4 DEF Environment

LEMMA TypeStep == TypeInv /\ [Next]_vars => TypeInv'
  <1> SUFFICES ASSUME TypeInv, [Next]_vars PROVE TypeInv'
    OBVIOUS
  <1> USE DEF TypeInv, TypeOK, redisVars, dbVars, batchVars, passVars, txVars,
              envVars, historyVars
  <1>1. CASE CreateGroup \/ NoGroup \/ ResentEmpty \/ UNCHANGED vars
    <2> USE DEF CreateGroup, NoGroup, ResentEmpty, vars
    <2>1. group' \in BOOLEAN
      BY <1>1 DEF RedisType
    <2>2. RedisType' BY <1>1, <2>1 DEF RedisType
    <2>3. RowsType' BY <1>1 DEF RowsType
    <2>4. LoopType' BY <1>1 DEF LoopType
    <2>5. HistoryType' BY <1>1 DEF HistoryType
    <2>6. Phases' BY <1>1 DEF Phases, Reading
    <2> QED BY <2>2, <2>3, <2>4, <2>5, <2>6
  <1>2. CASE ReadReplyLost
    <2>1. RedisType' /\ last' \in last .. Len(stream) /\ stream' = stream
      BY <1>2, DeliverType DEF ReadReplyLost, Deliver
    <2>2. RowsType' BY <1>2 DEF ReadReplyLost, RowsType
    <2>3. LoopType' BY <1>2, <2>1 DEF ReadReplyLost, RedisType, LoopType
    <2>4. HistoryType' BY <1>2, <2>1 DEF ReadReplyLost, HistoryType
    <2>5. Phases' BY <1>2 DEF ReadReplyLost, Phases, Reading
    <2> QED BY <2>1, <2>2, <2>3, <2>4, <2>5
  <1>3. CASE ReadPending \/ ReadNew \/ ResentRead
    BY <1>3, ReadStep
  <1>4. CASE BeginTx \/ Commit \/ TxFault \/ TryEntry \/ SkipEntry
    <2> USE DEF BeginTx, Commit, TxFault, TryEntry, SkipEntry
    <2>1. RedisType' BY <1>4 DEF RedisType
    <2>2. RowsType' BY <1>4 DEF RowsType
    <2>3. TxFault =>
            /\ \/ mode = "batch" /\ pc' = "each" /\ rest' = batch /\ work' = {}
               \/ mode # "batch" /\ pc' = "count" /\ UNCHANGED <<rest, work>>
            /\ todo' = {} /\ pc = "apply"
            /\ UNCHANGED <<mode, batch, blank, held, last>>
      BY DEF Current
    <2>4. LoopType'
      <3>1. CASE BeginTx BY <3>1 DEF LoopType
      <3>2. CASE Commit BY <3>2 DEF LoopType
      <3>3. CASE TxFault
        <4> HIDE DEF TxFault
        <4> QED BY <2>3, <3>3 DEF LoopType
      <3>4. CASE TryEntry BY <3>4 DEF LoopType, Phases, Each
      <3>5. CASE SkipEntry BY <3>5 DEF LoopType
      <3> QED BY <1>4, <3>1, <3>2, <3>3, <3>4, <3>5
    <2>5. HistoryType'
      <3>1. work \subseteq 1 .. Len(stream)
        BY DEF RedisType, LoopType
      <3> QED BY <1>4, <3>1 DEF HistoryType
    <2>6. Phases'
      <3>1. CASE BeginTx BY <3>1 DEF Phases, Reading
      <3>2. CASE Commit BY <3>2 DEF Phases, Reading
      <3>3. CASE TxFault
        <4> HIDE DEF TxFault
        <4> QED BY <2>3, <3>3 DEF Phases, Reading
      <3>4. CASE TryEntry BY <3>4 DEF Phases, Reading, LoopType, Each
      <3>5. CASE SkipEntry BY <3>5 DEF Phases, Reading
      <3> QED BY <1>4, <3>1, <3>2, <3>3, <3>4, <3>5
    <2> QED BY <2>1, <2>2, <2>4, <2>5, <2>6
  <1>5. CASE ApplyMessage
    BY <1>5, ApplyStep
  <1>6. CASE Xack \/ (Hdel /\ mode # "batch")
    <2>1. RedisType'
      <3>1. failures' \in [Entries -> Nat]
        BY <1>6 DEF Xack, Hdel, RedisType
      <3> QED BY <1>6, <3>1 DEF Xack, Hdel, RedisType
    <2>2. RowsType' BY <1>6 DEF Xack, Hdel, RowsType
    <2>3. LoopType' BY <1>6 DEF Xack, Hdel, LoopType, Phases
    <2>4. HistoryType'
      <3>1. announced' \in [Keys -> Nat]
        BY <1>6 DEF Xack, Hdel, Publish, HistoryType
      <3> QED BY <1>6, <3>1 DEF Xack, Hdel, HistoryType
    <2>5. Phases' BY <1>6 DEF Xack, Hdel, Phases, Reading
    <2> QED BY <2>1, <2>2, <2>3, <2>4, <2>5
  <1>7. CASE CountFailure \/ Bury
    <2>1. work \subseteq 1 .. Len(stream) /\ work \subseteq Entries
      BY MsgType DEF RedisType, LoopType
    <2>2. failures' \in [Entries -> Nat]
      <3>1. CASE Bury BY <3>1 DEF Bury, RedisType
      <3>2. CASE CountFailure
        <4>1. PICK e \in work, times \in 1 .. 2 :
                  failures' = [failures EXCEPT ![e] = @ + times]
          BY <3>2 DEF CountFailure
        <4>2. failures[e] + times \in Nat
          BY <2>1 DEF RedisType
        <4> QED BY <4>1, <4>2 DEF RedisType
      <3> QED BY <1>7, <3>1, <3>2
    <2>3. RedisType' BY <1>7, <2>2 DEF CountFailure, Bury, RedisType
    <2>4. RowsType'
      BY <1>7, <2>1, DeadLetterRow DEF CountFailure, Bury, RowsType
    <2>5. LoopType'
      <3>1. CASE Bury BY <3>1 DEF Bury, LoopType
      <3>2. CASE CountFailure
        <4>1. \A e \in work : CameraOf(e) \in Cameras \cup {NoCamera}
          BY <2>1, MsgType DEF CameraOf, Message
        <4> QED BY <3>2, <4>1 DEF CountFailure, LoopType, Phases
      <3> QED BY <1>7, <3>1, <3>2
    <2>6. HistoryType'
      <3>1. trouble' \in Nat
        BY <1>7 DEF CountFailure, Bury, HistoryType
      <3> QED BY <1>7, <2>1, <3>1 DEF CountFailure, Bury, HistoryType
    <2>7. Phases'
      BY <1>7 DEF CountFailure, Bury, Phases, Reading
    <2> QED BY <2>3, <2>4, <2>5, <2>6, <2>7
  <1>8. CASE \/ CommitReplyLost \/ TxTransient \/ XackFails \/ HdelFails
             \/ CountFails \/ BuryFails \/ Crash \/ PassDone
             \/ (Hdel /\ mode = "batch")
    BY <1>8, ForgetStep
  <1>9. CASE Environment
    BY <1>9, EnvironmentStep
  <1> QED
    BY <1>1, <1>2, <1>3, <1>4, <1>5, <1>6, <1>7, <1>8, <1>9
    DEF Next, Consumer, Failing

\* Every variable keeps its type.
THEOREM TypeCorrect == Spec => []TypeOK
  <1>1. TypeInv => TypeOK
    BY DEF TypeInv
  <1> QED BY <1>1, TypeInit, TypeStep, PTL DEF Spec

-----------------------------------------------------------------------------
(* Nothing is acknowledged unwritten.                                      *)

\* What was trimmed before it was delivered counts as lost.
TrimmedIsGone == \A e \in 1 .. trimmed : e > last => e \in gone

\* After the commit the entries of the transaction are in Postgres.
CommittedIsSettled ==
    pc \in {"ack", "hdel"} => \A e \in work : Settled(db, e)

\* Inside it those applied so far are in its tables, which have all the rest.
AppliedIsSettled ==
    pc = "apply" =>
        /\ Keeps(db, tx)
        /\ \A e \in work \ todo : Settled(tx, e)

SettledInv ==
    AckedIsSettled /\ TrimmedIsGone /\ CommittedIsSettled /\ AppliedIsSettled

\* As long as the stream stays, an entry is settled in the next state's tables
\* by the same rows.
LEMMA SameStream ==
    ASSUME stream' = stream, NEW e
    PROVE  /\ Settled(db, e)' <=> Settled(db', e)
           /\ Settled(tx, e)' <=> Settled(tx', e)
  BY DEF Settled, Msg

LEMMA InStream ==
    ASSUME TypeInv
    PROVE  /\ last \in Nat /\ Len(stream) \in Nat /\ trimmed \in Nat
           /\ last <= Len(stream) /\ trimmed <= Len(stream)
           /\ 1 .. last \subseteq 1 .. Len(stream)
           /\ work \subseteq 1 .. Len(stream) /\ work \subseteq 1 .. last
           /\ todo \subseteq work
  <1>1. /\ last \in Nat /\ Len(stream) \in Nat /\ trimmed \in Nat
        /\ last <= Len(stream) /\ trimmed <= Len(stream)
    BY DEF TypeInv, TypeOK, RedisType
  <1>2. work \subseteq 1 .. last /\ todo \subseteq work
    BY DEF TypeInv, TypeOK, LoopType
  <1> QED BY <1>1, <1>2

\* An acknowledgement is safe when what it acknowledges is settled.
LEMMA AckSafe ==
    ASSUME TypeInv, AckedIsSettled, stream' = stream, last' = last,
           gone \subseteq gone', Keeps(db, db'),
           \A e \in pel \ pel' : Settled(db', e)
    PROVE  AckedIsSettled'
  <1>1. SUFFICES ASSUME NEW e \in 1 .. last, e \notin pel' \cup gone'
                 PROVE  Settled(db', e)
    BY SameStream DEF AckedIsSettled
  <1>2. CASE e \in pel
    BY <1>1, <1>2
  <1>3. CASE e \notin pel
    <2>1. Settled(db, e)
      BY <1>1, <1>3 DEF AckedIsSettled
    <2>2. e \in 1 .. Len(stream)
      BY <1>1, InStream
    <2> QED BY <2>1, <2>2 DEF Keeps
  <1> QED BY <1>2, <1>3

\* The first entries of a set leave none out before one of them.
LEMMA FirstComeFirst ==
    ASSUME NEW n \in Nat, NEW S \in SUBSET (1 .. n),
           NEW b \in FirstOf(S, Count), NEW a \in S, a <= b
    PROVE  a \in FirstOf(S, Count)
  <1> DEFINE A == {f \in S : f < b}
             B == {f \in S : f < a}
  <1>1. b \in S /\ Cardinality(A) < Count
    BY DEF FirstOf
  <1>2. IsFiniteSet(S)
    <2>1. IsFiniteSet(1 .. n)
      BY FS_Interval
    <2> QED BY <2>1, FS_Subset
  <1>3. B \subseteq A
    <2>1. a \in Nat /\ b \in Nat /\ \A f \in S : f \in Nat
      BY <1>1
    <2>2. ASSUME NEW f \in S, f < a PROVE f < b
      <3>1. f \in Nat /\ a <= b
        BY <2>1
      <3> QED BY <2>1, <2>2, <3>1
    <2> QED BY <2>2
  <1>4. IsFiniteSet(A)
    BY <1>2, FS_Subset
  <1>5. Cardinality(B) <= Cardinality(A)
    BY <1>3, <1>4, FS_Subset
  <1>6. Cardinality(A) \in Nat /\ Cardinality(B) \in Nat
    BY <1>3, <1>4, FS_Subset, FS_CardinalityType
  <1>7. Cardinality(B) < Count
    BY <1>1, <1>5, <1>6, CountAssumption
  <1> QED BY <1>7 DEF FirstOf

\* A delivery takes the entries in order, so none is passed over but those
\* that Redis lost.
LEMMA NonePassedOver ==
    ASSUME TypeInv, TrimmedIsGone, Deliver(FirstOf(Undelivered, Count))
    PROVE  /\ last' \in Nat /\ last' > last
           /\ \A b \in FirstOf(Undelivered, Count) : b \in (last + 1) .. last'
           /\ \A b \in (last + 1) .. last' :
                 b \in FirstOf(Undelivered, Count) \cup gone
  <1> DEFINE S == FirstOf(Undelivered, Count)
  <1>1. PICK m \in S : (\A e \in S : e <= m) /\ last' = m
    BY DEF Deliver
  <1>2. S \subseteq Undelivered /\ Undelivered \subseteq 1 .. Len(stream)
    BY DEF FirstOf, Undelivered
  <1>3. m \in Nat /\ m > last /\ m <= Len(stream)
    BY <1>1, <1>2, InStream DEF Undelivered
  <1>4. ASSUME NEW e \in Undelivered, e <= m
        PROVE  e \in S
    BY <1>1, <1>2, <1>4, InStream, FirstComeFirst
  <1> HIDE DEF S
  <1>5. ASSUME NEW e \in (last + 1) .. m
        PROVE  e \in S \cup gone
    <2>0. e \in Nat /\ e > last /\ e <= m
      BY <1>3, <1>5, InStream
    <2>1. CASE e <= trimmed
      BY <2>0, <2>1, InStream DEF TrimmedIsGone
    <2>2. CASE e > trimmed
      BY <2>0, <2>2, <1>3, <1>4, InStream DEF Undelivered
    <2> QED BY <2>0, <2>1, <2>2, InStream
  <1>6. \A b \in S : b \in (last + 1) .. m
    BY <1>1, <1>2, <1>3, InStream DEF Undelivered
  <1> QED BY <1>1, <1>3, <1>5, <1>6 DEF S

\* So the entries between the old position and the new one are pending.
LEMMA DeliverSafe ==
    ASSUME TypeInv, SettledInv, Deliver(FirstOf(Undelivered, Count)),
           UNCHANGED <<db, gone>>
    PROVE  AckedIsSettled' /\ TrimmedIsGone'
  <1> DEFINE S == FirstOf(Undelivered, Count)
  <1>1. pel' = pel \cup S /\ UNCHANGED <<stream, trimmed, group, failures>>
    BY DEF Deliver
  <1>2. /\ last' \in Nat /\ last' > last
        /\ \A b \in (last + 1) .. last' : b \in S \cup gone
    BY NonePassedOver DEF SettledInv
  <1> HIDE DEF S
  <1>3. AckedIsSettled'
    <2>1. SUFFICES ASSUME NEW e \in 1 .. last', e \notin pel \cup S \cup gone
                   PROVE  Settled(db, e)
      BY <1>1, SameStream DEF AckedIsSettled
    <2>2. e <= last
      BY <1>2, <2>1, InStream
    <2> QED
      BY <1>2, <2>1, <2>2, InStream DEF SettledInv, AckedIsSettled
  <1>4. TrimmedIsGone'
    BY <1>1, <1>2, InStream DEF SettledInv, TrimmedIsGone
  <1> QED BY <1>3, <1>4

\* Where no transaction is under way there is nothing to show of one.
LEMMA NoTransaction ==
    ASSUME pc' \notin {"apply", "ack", "hdel"}
    PROVE  CommittedIsSettled' /\ AppliedIsSettled'
  BY DEF CommittedIsSettled, AppliedIsSettled

LEMMA ApplySettles ==
    ASSUME TypeInv, SettledInv, ApplyMessage
    PROVE  SettledInv'
  <1> USE DEF redisVars, dbVars, batchVars, passVars, envVars, historyVars
  <1>1. todo \subseteq 1 .. Len(stream) /\ tx \in Tables /\ TypeOK
    BY InStream DEF TypeInv, TypeOK, RowsType
  <1>2. \E e \in todo : \E d, E :
            /\ pc = "apply" /\ Applied(e, d, E)
            /\ Keeps(tx, d) /\ Settled(d, e)
    <2>1. CASE ApplyUnreadable \/ ApplyUnknownCamera
      BY <1>1, <2>1, DeadLetterRow
      DEF ApplyUnreadable, ApplyUnknownCamera, Current
    <2>2. CASE ApplyEvent
      BY <1>1, <2>2, EventRow DEF ApplyEvent, Current, Readable, Settled
    <2>3. CASE ApplyEngineStarted
      BY <1>1, <2>3, BootRow
      DEF ApplyEngineStarted, Current, Readable, Settled
    <2>4. CASE ApplyOpen
      BY <1>1, <2>4, OpenedRow DEF ApplyOpen, Current, Readable
    <2>5. CASE ApplyClose
      BY <1>1, <2>5, ClosedRow DEF ApplyClose, Current, Readable
    <2>6. CASE ApplyMetric
      BY <1>1, <2>6, MetricRows DEF ApplyMetric, Current, Readable
    <2> QED
      BY <2>1, <2>2, <2>3, <2>4, <2>5, <2>6 DEF ApplyMessage
  <1>3. PICK e \in todo : \E d, E :
            /\ pc = "apply" /\ Applied(e, d, E)
            /\ Keeps(tx, d) /\ Settled(d, e)
    BY <1>2
  <1>4. PICK d, E :
            /\ pc = "apply" /\ Applied(e, d, E)
            /\ Keeps(tx, d) /\ Settled(d, e)
    BY <1>3
  <1>5. /\ tx' = d /\ todo' = todo \ {e} /\ work' = work /\ pc' = "apply"
        /\ UNCHANGED <<stream, trimmed, last, pel, db, gone>>
    BY <1>4 DEF Applied
  <1>6. AckedIsSettled' /\ TrimmedIsGone'
    <2>1. Keeps(db, db')
      BY <1>5 DEF Keeps
    <2> QED BY <1>5, <2>1, AckSafe DEF SettledInv, TrimmedIsGone
  <1>7. AppliedIsSettled'
    <2>1. Keeps(db', tx') /\ \A f \in work' \ todo' : Settled(tx', f)
      BY <1>1, <1>4, <1>5, InStream DEF SettledInv, AppliedIsSettled, Keeps
    <2>2. Keeps(db, tx)'
      BY <1>5, <2>1, SameStream DEF Keeps
    <2> QED BY <1>5, <2>1, <2>2, SameStream DEF AppliedIsSettled
  <1>8. CommittedIsSettled'
    BY <1>5 DEF CommittedIsSettled
  <1> QED BY <1>6, <1>7, <1>8 DEF SettledInv

\* A commit, and a dead letter of its own, put the whole transaction's entries
\* into Postgres.
LEMMA CommitSettles ==
    ASSUME TypeInv, SettledInv, Commit \/ CommitReplyLost \/ Bury
    PROVE  SettledInv'
  <1> USE DEF redisVars, dbVars, historyVars, Throw, Forget
  <1>1. /\ UNCHANGED <<stream, trimmed, last, pel, gone>>
        /\ Keeps(db, db')
        /\ pc' = "ack" => work' = work /\ \A e \in work : Settled(db', e)
        /\ pc' \in {"ack", "read"}
    <2>1. CASE Commit \/ CommitReplyLost
      <3>1. pc = "apply" /\ todo = {} /\ db' = tx
        BY <2>1 DEF Commit, CommitReplyLost
      <3>2. Keeps(db, tx) /\ \A e \in work : Settled(tx, e)
        BY <3>1 DEF SettledInv, AppliedIsSettled
      <3>3. /\ UNCHANGED <<stream, trimmed, last, pel, gone>>
            /\ pc' = "ack" => work' = work
            /\ pc' \in {"ack", "read"}
        BY <2>1 DEF Commit, CommitReplyLost, txVars
      <3> QED BY <3>1, <3>2, <3>3
    <2>2. CASE Bury
      <3>1. PICK e \in work : db' = DeadLetter(db, e)
        BY <2>2 DEF Bury
      <3>2. work = {e}
        BY <2>2, <3>1 DEF Bury, TypeInv, Phases
      <3>3. Keeps(db, db') /\ Settled(db', e)
        BY <3>1, InStream, DeadLetterRow DEF TypeInv, TypeOK, RowsType
      <3> QED BY <2>2, <3>2, <3>3 DEF Bury
    <2> QED BY <2>1, <2>2
  <1>2. AckedIsSettled' /\ TrimmedIsGone'
    BY <1>1, AckSafe DEF SettledInv, TrimmedIsGone
  <1>3. CommittedIsSettled'
    BY <1>1, SameStream DEF CommittedIsSettled
  <1>4. AppliedIsSettled'
    BY <1>1 DEF AppliedIsSettled
  <1> QED BY <1>2, <1>3, <1>4 DEF SettledInv

LEMMA SettledStep == TypeInv /\ SettledInv /\ [Next]_vars => SettledInv'
  <1> SUFFICES ASSUME TypeInv, SettledInv, [Next]_vars PROVE SettledInv'
    OBVIOUS
  <1> USE DEF redisVars, dbVars, batchVars, passVars, txVars, envVars,
              historyVars, Throw, Forget, Process
  <1> DEFINE Same == UNCHANGED <<stream, trimmed, last, gone, db>>
  <1>1. ASSUME Same, \A e \in pel \ pel' : Settled(db, e)
        PROVE  AckedIsSettled' /\ TrimmedIsGone'
    <2>1. Keeps(db, db')
      BY <1>1 DEF Keeps
    <2> QED BY <1>1, <2>1, AckSafe DEF SettledInv, TrimmedIsGone
  <1>2. ASSUME Same, \A e \in pel \ pel' : Settled(db, e),
               pc' \notin {"apply", "ack", "hdel"}
        PROVE  SettledInv'
    BY <1>1, <1>2, NoTransaction DEF SettledInv
  <1>3. CASE \/ CreateGroup \/ NoGroup \/ ReadPending \/ ResentEmpty
             \/ TxTransient \/ TxFault \/ TryEntry \/ PassDone
             \/ CountFails
    <2>1. /\ Same /\ pel' = pel
          /\ pc' \notin {"apply", "ack", "hdel"}
      BY <1>3
      DEF CreateGroup, NoGroup, ReadPending, ResentEmpty, TxTransient,
          TxFault, TryEntry, PassDone, CountFails
    <2> QED BY <1>2, <2>1
  <1>4. CASE ReadNew \/ ResentRead \/ ReadReplyLost
    <2>1. /\ Deliver(FirstOf(Undelivered, Count))
          /\ pc' \notin {"apply", "ack", "hdel"} /\ UNCHANGED <<db, gone>>
      BY <1>4 DEF ReadNew, ResentRead, ReadReplyLost
    <2> QED BY <2>1, DeliverSafe, NoTransaction DEF SettledInv
  <1>5. CASE BeginTx
    <2>1. /\ Same /\ pel' = pel /\ pc' = "apply"
          /\ tx' = db /\ todo' = work /\ work' = work
      BY <1>5 DEF BeginTx
    <2>2. AppliedIsSettled'
      BY <2>1, SameStream DEF AppliedIsSettled, Keeps
    <2>3. CommittedIsSettled'
      BY <2>1 DEF CommittedIsSettled
    <2> QED BY <1>1, <2>1, <2>2, <2>3 DEF SettledInv
  <1>6. CASE ApplyMessage
    BY <1>6, ApplySettles
  <1>7. CASE Commit \/ CommitReplyLost \/ Bury
    BY <1>7, CommitSettles
  <1>8. CASE Xack \/ XackFails \/ Hdel \/ HdelFails
    <2>1. /\ Same /\ pel \ pel' \subseteq work
          /\ \A e \in work : Settled(db, e)
          /\ pc' # "apply"
          /\ pc' \in {"ack", "hdel"} => work' = work
      BY <1>8
      DEF Xack, XackFails, Hdel, HdelFails, SettledInv, CommittedIsSettled
    <2>2. CommittedIsSettled' /\ AppliedIsSettled'
      BY <2>1, SameStream DEF CommittedIsSettled, AppliedIsSettled
    <2> QED BY <1>1, <2>1, <2>2 DEF SettledInv
  <1>9. CASE SkipEntry
    <2>1. Same /\ pel' = pel /\ pc' = "each"
      BY <1>9 DEF SkipEntry, Each
    <2> QED BY <1>2, <2>1
  <1>10. CASE CountFailure
    <2>1. Same /\ pel' = pel /\ pc' \in {"each", "bury"}
      BY <1>10 DEF CountFailure
    <2> QED BY <1>2, <2>1
  <1>11. CASE BuryFails
    <2>1. /\ UNCHANGED <<stream, trimmed, last, gone, pel>> /\ pc' = "read"
      BY <1>11 DEF BuryFails
    <2>2. Keeps(db, db')
      BY <1>11, InStream, DeadLetterRow
      DEF BuryFails, Keeps, TypeInv, TypeOK, RowsType
    <2> QED
      BY <2>1, <2>2, AckSafe, NoTransaction DEF SettledInv, TrimmedIsGone
  <1>12. CASE Crash
    <2>1. Same /\ pel' = pel /\ pc' = "group"
      BY <1>12 DEF Crash
    <2> QED BY <1>2, <2>1
  <1>13. CASE Xadd
    <2>1. PICK p \in 1 .. Len(Script) : stream' = Append(stream, p)
      BY <1>13 DEF Xadd
    <2>2. \A e \in 1 .. Len(stream) : stream'[e] = stream[e]
      BY <2>1 DEF TypeInv, TypeOK, RedisType
    <2>3. \A e \in 1 .. Len(stream) : Settled(db, e) => Settled(db, e)'
      BY <1>13, <2>2 DEF Xadd, Settled, Msg
    <2>4. AckedIsSettled'
      BY <1>13, <2>3, InStream DEF Xadd, SettledInv, AckedIsSettled
    <2>5. TrimmedIsGone'
      BY <1>13 DEF Xadd, SettledInv, TrimmedIsGone
    <2> QED
      BY <1>13, <2>4, <2>5, NoTransaction DEF Xadd, Reading, SettledInv
  <1>14. CASE RemoveCamera
    <2>1. /\ Same /\ pel' = pel
          /\ UNCHANGED <<pc, work, todo, tx>>
      BY <1>14 DEF RemoveCamera
    <2>2. CommittedIsSettled' /\ AppliedIsSettled'
      BY <2>1, SameStream
      DEF SettledInv, CommittedIsSettled, AppliedIsSettled, Keeps
    <2> QED BY <1>1, <2>1, <2>2 DEF SettledInv
  <1>15. CASE Trim
    <2>1. /\ UNCHANGED <<stream, last, pel, db, pc>> /\ Reading
          /\ gone' = gone \cup ({trimmed + 1} \cap Undelivered)
          /\ trimmed' = trimmed + 1 /\ trimmed + 1 <= Len(stream)
      BY <1>15, InStream DEF Trim
    <2>2. AckedIsSettled'
      <3>1. Keeps(db, db')
        BY <2>1 DEF Keeps
      <3> QED BY <2>1, <3>1, AckSafe DEF SettledInv
    <2>3. TrimmedIsGone'
      <3>1. SUFFICES ASSUME NEW e \in 1 .. trimmed + 1, e > last
                     PROVE  e \in gone'
        BY <2>1 DEF TrimmedIsGone
      <3>2. CASE e <= trimmed
        BY <2>1, <3>1, <3>2, InStream DEF SettledInv, TrimmedIsGone
      <3>3. CASE e = trimmed + 1
        <4>1. e \in Undelivered
          BY <2>1, <3>1, <3>3, InStream DEF Undelivered
        <4> QED BY <2>1, <3>3, <4>1
      <3> QED BY <3>1, <3>2, <3>3, InStream
    <2> QED BY <2>1, <2>2, <2>3, NoTransaction DEF Reading, SettledInv
  <1>16. CASE RedisLosesData
    <2>1. /\ UNCHANGED <<stream, db, pc, work, todo, tx>>
          /\ trimmed' = Len(stream) /\ last' = Len(stream) /\ pel' = {}
          /\ gone' = gone \cup Undelivered \cup pel
      BY <1>16 DEF RedisLosesData
    <2>2. AckedIsSettled'
      <3>1. SUFFICES ASSUME NEW e \in 1 .. Len(stream), e \notin gone'
                     PROVE  Settled(db, e)
        BY <2>1, SameStream DEF AckedIsSettled
      <3>2. e \notin pel /\ e \notin gone /\ e \notin Undelivered
        BY <2>1, <3>1
      <3>3. e <= last
        BY <3>1, <3>2, InStream DEF Undelivered, SettledInv, TrimmedIsGone
      <3> QED
        BY <3>1, <3>2, <3>3, InStream DEF SettledInv, AckedIsSettled
    <2>3. TrimmedIsGone'
      BY <2>1, InStream DEF TrimmedIsGone
    <2>4. CommittedIsSettled' /\ AppliedIsSettled'
      BY <2>1, SameStream
      DEF SettledInv, CommittedIsSettled, AppliedIsSettled, Keeps
    <2> QED BY <2>2, <2>3, <2>4 DEF SettledInv
  <1>17. CASE UNCHANGED vars
    <2>1. Same /\ pel' = pel /\ UNCHANGED <<pc, work, todo, tx>>
      BY <1>17 DEF vars
    <2>2. CommittedIsSettled' /\ AppliedIsSettled'
      BY <2>1, SameStream
      DEF SettledInv, CommittedIsSettled, AppliedIsSettled, Keeps
    <2> QED BY <1>1, <2>1, <2>2 DEF SettledInv
  <1> QED
    BY <1>3, <1>4, <1>5, <1>6, <1>7, <1>8, <1>9, <1>10, <1>11, <1>12, <1>13,
       <1>14, <1>15, <1>16, <1>17
    DEF Next, Consumer, Failing, Environment

LEMMA SettledInit == Init => SettledInv
  <1>1. Init => last = 0 /\ trimmed = 0 /\ pc = "group"
    BY DEF Init
  <1> QED
    BY <1>1
    DEF SettledInv, AckedIsSettled, TrimmedIsGone, CommittedIsSettled,
        AppliedIsSettled

\* Whatever fails or crashes, an entry the group no longer holds is in the
\* tables or dead-lettered, unless Redis lost it.
THEOREM NothingAckedUnwritten == Spec => []AckedIsSettled
  <1>1. SettledInv => AckedIsSettled
    BY DEF SettledInv
  <1> QED BY <1>1, SettledInit, TypeInit, TypeStep, SettledStep, PTL DEF Spec

-----------------------------------------------------------------------------
(* The order of the entries.                                               *)

\* What is acknowledged was written, buried or lost.
AckedIsDone == \A e \in 1 .. last : e \notin pel => e \in done \cup gone

\* What is before an entry of this read is in it, or no longer pending.
ReadInTurn ==
    lostReads = 0 =>
        /\ pc # "resent"
        /\ \A b \in batch : \A a \in 1 .. b - 1 : a \in batch \/ a \notin pel

\* The entries of the pass that had their turn: they come before the others.
Tried == batch \ (rest \cup work)

InTurn ==
    /\ \A x \in batch \ rest, y \in rest : x < y
    /\ work \cap rest = {}
    /\ mode = "batch" => held = {} /\ Tried = {}
    /\ \A a \in batch, b \in blank : a < b => a \in blank

\* The entries of the read that are still to be acknowledged.
Working == pc \in {"begin", "apply", "count", "bury", "ack"}
Unacked == rest \cup (IF Working THEN work ELSE {})

\* The entry of the transaction, and what is known of it at each point.
OneInTurn ==
    /\ pc = "each" => work = {}
    /\ pc \in {"ack", "hdel"} => work \subseteq done
    /\ pc = "hdel" => work \cap pel = {}
    /\ pc = "count" => work \cap blank = {}
    /\ Working /\ mode # "batch" => \A e \in work : ~Waits(e)

\* An entry that had its turn is acknowledged, or its camera is held, or it
\* is a system entry that waits behind one that is still pending.
HeldBack(a) ==
    \/ a \notin pel
    \/ NoCamera \in held \/ CameraOf(a) \in held
    \/ /\ a \notin blank /\ CameraOf(a) = NoCamera /\ held # {}
       /\ \E x \in Tried : x < a /\ x \in pel

\* What the pass keeps, unless Redis lost the pending entries meanwhile.
PassInv ==
    /\ \A a \in Tried : HeldBack(a)
    /\ held # {} => \E x \in Tried : x \in pel /\ x \notin blank
    /\ Unacked \subseteq pel

\* Behind an acknowledged entry none of its camera is left.
AckInTurn ==
    /\ Unacked \subseteq pel \cup gone
    /\ lostReads = 0 =>
         \A b \in 1 .. last : b \notin pel \cup gone =>
            \A a \in 1 .. b - 1 : Lane(a) = Lane(b) => a \notin pel \cup Unacked

OrderInv ==
    /\ AckedIsDone /\ ReadInTurn /\ InTurn /\ OneInTurn
    /\ pel = {} \/ PassInv
    /\ AckInTurn


\* What an acknowledgement may drop from the pending list.
LEMMA AckIsDone ==
    ASSUME TypeInv, AckedIsDone, last' = last, done \subseteq done',
           gone \subseteq gone', pel \ pel' \subseteq done' \cup gone'
    PROVE  AckedIsDone'
  BY DEF AckedIsDone

LEMMA SameLane ==
    ASSUME stream' = stream, NEW e
    PROVE  Lane(e)' = Lane(e)
  BY DEF Lane, Msg

LEMMA SameCamera ==
    ASSUME UNCHANGED <<stream, blank>>, NEW e
    PROVE  CameraOf(e)' = CameraOf(e)
  BY DEF CameraOf, Msg

\* The entries in the stream keep their messages.
LEMMA SameMessages ==
    ASSUME TypeInv, stream' = stream \/ Xadd, NEW e \in 1 .. Len(stream)
    PROVE  stream'[e] = stream[e] /\ Msg(e)' = Msg(e) /\ Lane(e)' = Lane(e)
  <1>1. CASE stream' = stream
    BY <1>1 DEF Msg, Lane
  <1>2. CASE Xadd
    <2>1. PICK p \in 1 .. Len(Script) : stream' = Append(stream, p)
      BY <1>2 DEF Xadd
    <2>2. stream'[e] = stream[e]
      BY <2>1 DEF TypeInv, TypeOK, RedisType
    <2> QED BY <2>2 DEF Msg, Lane
  <1> QED BY <1>1, <1>2

\* With the pending list as it is, no entry turns up behind an acknowledged one.
LEMMA PendingInTurn ==
    ASSUME TypeInv, AckInTurn, last' = last, pel' = pel, gone \subseteq gone',
           stream' = stream \/ Xadd, lostReads' = 0 => lostReads = 0,
           Unacked' \subseteq pel \cup Unacked
    PROVE  AckInTurn'
  <1>1. (Unacked \subseteq pel \cup gone)'
    BY DEF AckInTurn
  <1>2. ASSUME lostReads' = 0, NEW b \in 1 .. last, b \notin pel \cup gone',
               NEW a \in 1 .. b - 1, Lane(a)' = Lane(b)'
        PROVE  a \notin pel \cup Unacked'
    <2>1. a \in 1 .. Len(stream) /\ b \in 1 .. Len(stream)
      BY <1>2, InStream
    <2>2. Lane(a) = Lane(b)
      BY <1>2, <2>1, SameMessages
    <2> QED BY <1>2, <2>2 DEF AckInTurn
  <1> QED BY <1>1, <1>2 DEF AckInTurn

\* A delivery comes behind what is acknowledged.
LEMMA DeliveredInTurn ==
    ASSUME TypeInv, SettledInv, AckInTurn,
           Deliver(FirstOf(Undelivered, Count)), gone' = gone,
           lostReads' = 0 => lostReads = 0, Unacked' \subseteq pel'
    PROVE  AckInTurn'
  <1> DEFINE S == FirstOf(Undelivered, Count)
  <1>1. /\ last' \in Nat /\ last' > last
        /\ \A b \in S : b \in (last + 1) .. last'
        /\ \A b \in (last + 1) .. last' : b \in S \cup gone
    BY NonePassedOver DEF SettledInv
  <1>2. pel' = pel \cup S /\ stream' = stream
    BY DEF Deliver
  <1> HIDE DEF S
  <1>3. ASSUME lostReads' = 0, NEW b \in 1 .. last', b \notin pel' \cup gone,
               NEW a \in 1 .. b - 1, Lane(a)' = Lane(b)'
        PROVE  a \notin pel'
    <2>1. b <= last /\ b \in 1 .. last
      BY <1>1, <1>2, <1>3, InStream
    <2>2. a \notin S
      BY <1>1, <1>3, <2>1, InStream
    <2>3. Lane(a) = Lane(b)
      BY <1>2, <1>3, SameLane
    <2> QED BY <1>2, <1>3, <2>1, <2>2, <2>3 DEF AckInTurn
  <1> QED BY <1>2, <1>3 DEF AckInTurn

\* Outside a pass, nothing but the pending list is to be kept.
LEMMA OrderAtRest ==
    ASSUME AckedIsDone', AckInTurn', pc' \in {"group", "read", "resent"},
           pc' = "resent" => lostReads' # 0,
           mode' = "batch", batch' = {}, blank' = {}, held' = {}, rest' = {},
           work' = {}
    PROVE  OrderInv'
  <1>1. ReadInTurn'
    BY DEF ReadInTurn
  <1>2. Tried' = {} /\ Unacked' = {}
    BY DEF Tried, Unacked
  <1>3. InTurn' /\ OneInTurn'
    BY <1>2 DEF InTurn, OneInTurn
  <1>4. PassInv'
    BY <1>2 DEF PassInv
  <1> QED BY <1>1, <1>3, <1>4 DEF OrderInv

\* A read takes up the entries S, which leave out no pending one before them.
LEMMA OrderOfRead ==
    ASSUME TypeInv, OrderInv, Reading, NEW S \in SUBSET (1 .. last'), Process(S),
           AckedIsDone', AckInTurn', last' \in Nat, S \subseteq pel',
           trimmed' \in Nat, lostReads' = 0 => pc # "resent",
           UNCHANGED <<trimmed, mode, rest, held, lostReads, done, gone>>,
           lostReads = 0 =>
             \A b \in S : \A a \in 1 .. b - 1 : a \in S \/ a \notin pel'
    PROVE  OrderInv'
  <1> USE DEF Process
  <1>1. mode' = "batch" /\ rest' = {} /\ held' = {}
    BY DEF TypeInv, Phases, OrderInv, InTurn
  <1>2. Tried' = {}
    BY <1>1 DEF Tried
  <1>3. ReadInTurn'
    BY DEF ReadInTurn
  <1>4. InTurn'
    <2>1. \A a \in batch', b \in blank' : a < b => a \in blank'
      <3>1. \A a \in S : a \in Nat
        OBVIOUS
      <3> QED BY <3>1
    <2> QED BY <1>1, <1>2, <2>1 DEF InTurn
  <1>5. OneInTurn'
    BY <1>1 DEF OneInTurn
  <1>6. PassInv'
    <2>1. Unacked' \subseteq pel'
      BY <1>1 DEF Unacked
    <2> QED BY <1>1, <1>2, <2>1 DEF PassInv
  <1> QED BY <1>3, <1>4, <1>5, <1>6 DEF OrderInv

LEMMA ReadsInOrder ==
    ASSUME TypeInv, SettledInv, OrderInv,
           ReadPending \/ ReadNew \/ ResentRead
    PROVE  OrderInv'
  <1> USE DEF redisVars, dbVars, batchVars, passVars, envVars, historyVars
  <1>0. rest = {} /\ rest' = {}
    BY DEF ReadPending, ReadNew, ResentRead, TypeInv, Phases, Reading
  <1>1. CASE ReadPending
    <2> DEFINE S == FirstOf(pel, Count)
    <2>1. /\ Process(S) /\ Reading /\ pc = "read"
          /\ UNCHANGED <<stream, trimmed, last, pel, mode, rest, held, lostReads,
                         done, gone>>
      BY <1>1 DEF ReadPending, Reading
    <2>2. pel \subseteq 1 .. last /\ S \subseteq pel /\ last \in Nat
      BY DEF FirstOf, TypeInv, TypeOK, RedisType
    <2>3. AckedIsDone'
      BY <2>1 DEF OrderInv, AckedIsDone
    <2>4. ASSUME NEW b \in S, NEW a \in 1 .. b - 1
          PROVE  a \in S \/ a \notin pel
      <3>1. b \in 1 .. last
        BY <2>2, <2>4
      <3>2. a \in 1 .. last /\ a <= b
        <4> HIDE DEF S
        <4> QED BY <2>2, <2>4, <3>1
      <3> QED BY <2>2, <2>4, <3>2, FirstComeFirst
    <2>5. trimmed' \in Nat /\ last' = last /\ S \in SUBSET (1 .. last)
      BY <2>1, <2>2, InStream
    <2> HIDE DEF S
    <2>6. AckInTurn'
      <3>1. Unacked' \subseteq pel \cup Unacked
        BY <1>0, <2>1, <2>2 DEF Process, Unacked
      <3> QED BY <2>1, <3>1, PendingInTurn DEF OrderInv
    <2> QED BY <2>1, <2>2, <2>3, <2>4, <2>5, <2>6, OrderOfRead
  <1>2. CASE ReadNew \/ ResentRead
    <2> DEFINE S == FirstOf(Undelivered, Count)
    <2>1. /\ Deliver(S) /\ Process(S) /\ Reading
          /\ pc = "read" => pel = {}
          /\ UNCHANGED <<mode, rest, held, lostReads, done, gone>>
      BY <1>2 DEF ReadNew, ResentRead, Reading
    <2>2. /\ last' \in Nat /\ last' > last
          /\ \A b \in S : b \in (last + 1) .. last'
          /\ \A b \in (last + 1) .. last' : b \in S \cup gone
      BY <2>1, NonePassedOver DEF SettledInv
    <2>3. /\ pel' = pel \cup S /\ UNCHANGED <<stream, trimmed>>
      BY <2>1 DEF Deliver
    <2>4. S \in SUBSET (1 .. last') /\ last \in Nat /\ trimmed' \in Nat
      BY <2>2, <2>3, InStream
    <2>5. AckInTurn'
      <3>1. Unacked' \subseteq pel'
        BY <1>0, <2>1, <2>3 DEF Process, Unacked
      <3> QED BY <2>1, <3>1, DeliveredInTurn DEF OrderInv
    <2> HIDE DEF S
    <2>6. AckedIsDone'
      BY <2>1, <2>2, <2>3, <2>4 DEF OrderInv, AckedIsDone
    <2>7. lostReads = 0 => pc # "resent" /\ pc = "read"
      BY <1>2 DEF OrderInv, ReadInTurn, ReadNew, ResentRead
    <2>8. lostReads = 0 =>
            \A b \in S : \A a \in 1 .. b - 1 : a \in S \/ a \notin pel'
      BY <2>1, <2>3, <2>7
    <2>9. lostReads' = 0 => pc # "resent"
      BY <2>1, <2>7
    <2> QED
      BY <2>1, <2>2, <2>3, <2>4, <2>5, <2>6, <2>8, <2>9, OrderOfRead
  <1> QED BY <1>1, <1>2

\* What the pass tries may go: no pending entry that comes first is behind it.
LEMMA TakesItsTurn ==
    ASSUME TypeInv, OrderInv, lostReads = 0, Working,
           NEW b \in work, NEW a \in 1 .. Len(stream), ComesFirst(a, b)
    PROVE  a \notin rest /\ (a \in work \/ a \notin pel)
  <1>1. /\ b \in batch /\ b \notin rest /\ a < b /\ a \in Nat /\ b \in Nat
        /\ a \in 1 .. b - 1
    <2>1. b \in batch /\ b \in Nat /\ a \in Nat /\ 1 <= a /\ a < b
      BY InStream DEF TypeInv, TypeOK, LoopType, ComesFirst
    <2> QED BY <2>1 DEF OrderInv, InTurn
  <1>2. a \notin rest
    <2>1. SUFFICES ASSUME a \in rest PROVE FALSE
      OBVIOUS
    <2>2. b < a
      BY <1>1, <2>1 DEF OrderInv, InTurn
    <2> QED BY <1>1, <2>2
  <1>3. CASE a \notin batch
    BY <1>1, <1>2, <1>3 DEF OrderInv, ReadInTurn
  <1>4. ASSUME a \in Tried, a \in pel
        PROVE  FALSE
    <2>1. mode # "batch"
      BY <1>4 DEF OrderInv, InTurn
    <2>2. ~Waits(b)
      BY <2>1 DEF OrderInv, OneInTurn
    <2>3. HeldBack(a)
      BY <1>4 DEF OrderInv, PassInv
    <2>4. NoCamera \notin held
      BY <2>2 DEF Waits
    <2>5. CASE CameraOf(b) = NoCamera
      BY <1>4, <2>2, <2>3, <2>4, <2>5 DEF Waits, HeldBack
    <2>6. CASE CameraOf(b) # NoCamera
      <3>1. b \notin blank /\ Lane(b) = CameraOf(b)
        BY <2>6 DEF CameraOf, Lane
      <3>2. CameraOf(b) \notin held
        BY <2>2 DEF Waits
      <3>3. CASE Lane(a) = Lane(b)
        <4>1. CameraOf(a) \in {Lane(a), NoCamera}
          BY DEF CameraOf, Lane
        <4>2. a \notin blank => CameraOf(a) = Lane(a)
          BY DEF CameraOf, Lane
        <4> QED
          BY <1>4, <2>3, <2>4, <2>6, <3>1, <3>2, <3>3, <4>1, <4>2 DEF HeldBack
      <3>4. CASE Lane(a) = NoCamera /\ \A x \in 1 .. a - 1 : x \notin pel
        <4>1. CameraOf(a) = NoCamera
          BY <3>4 DEF CameraOf, Lane
        <4>2. PICK x \in Tried : x < a /\ x \in pel
          BY <1>4, <2>3, <2>4, <4>1 DEF HeldBack
        <4>3. x \in Nat /\ 1 <= x
          <5>1. x \in 1 .. last
            BY <4>2 DEF TypeInv, TypeOK, RedisType
          <5> QED BY <5>1, InStream
        <4>4. x \in 1 .. a - 1
          BY <1>1, <4>2, <4>3
        <4> QED BY <3>4, <4>2, <4>4
      <3> QED BY <2>6, <3>1, <3>3, <3>4 DEF ComesFirst
    <2> QED BY <2>5, <2>6
  <1> QED BY <1>2, <1>3, <1>4 DEF Tried

\* So its acknowledgement leaves nothing of its camera behind.
LEMMA AckedInTurn ==
    ASSUME TypeInv, OrderInv, pc = "ack", pel' = pel \ work,
           Unacked' \subseteq rest,
           UNCHANGED <<stream, last, gone, lostReads>>
    PROVE  AckInTurn'
  <1>1. (Unacked \subseteq pel \cup gone)'
    BY DEF OrderInv, AckInTurn, InTurn, Unacked
  <1>2. ASSUME lostReads = 0, NEW b \in 1 .. last, b \notin pel' \cup gone,
               NEW a \in 1 .. b - 1, Lane(a)' = Lane(b)'
        PROVE  a \notin pel' \cup Unacked'
    <2>1. Lane(a) = Lane(b)
      BY <1>2, SameLane
    <2>2. CASE b \notin pel
      BY <1>2, <2>1, <2>2 DEF OrderInv, AckInTurn, Unacked
    <2>3. CASE b \in pel
      <3>1. b \in work
        BY <1>2, <2>3
      <3>2. a \in 1 .. Len(stream) /\ a < b
        BY InStream
      <3>3. ComesFirst(a, b)
        BY <2>1, <3>2 DEF ComesFirst
      <3> QED BY <1>2, <3>1, <3>2, <3>3, TakesItsTurn DEF Working
    <2> QED BY <2>2, <2>3
  <1> QED BY <1>1, <1>2 DEF AckInTurn

\* A step inside a pass leaves the read and what was before it alone.
LEMMA OrderInside ==
    ASSUME TypeInv, OrderInv,
           UNCHANGED <<stream, last, batch, lostReads, gone>>,
           done \subseteq done', pel \ pel' \subseteq done', pel' \subseteq pel,
           pc' # "resent"
    PROVE  AckedIsDone' /\ ReadInTurn'
  <1>1. AckedIsDone'
    BY AckIsDone DEF OrderInv
  <1>2. ReadInTurn'
    BY DEF OrderInv, ReadInTurn
  <1> QED BY <1>1, <1>2

\* The transaction of a pass begins, applies an entry, or ends in Postgres.
LEMMA TxInOrder ==
    ASSUME TypeInv, OrderInv,
           UNCHANGED <<stream, last, pel, mode, batch, blank, rest, held, work,
                       lostReads, gone>>,
           \/ pc' = pc /\ done' = done
           \/ pc = "begin" /\ pc' = "apply" /\ done' = done
           \/ pc \in {"apply", "bury"} /\ pc' = "ack" /\ done' = done \cup work
    PROVE  OrderInv'
  <1>1. AckedIsDone' /\ ReadInTurn'
    <2>1. AckedIsDone'
      BY AckIsDone DEF OrderInv
    <2>2. ReadInTurn'
      BY DEF OrderInv, ReadInTurn
    <2> QED BY <2>1, <2>2
  <1>2. Tried' = Tried /\ Unacked' = Unacked /\ (Working' <=> Working)
    BY DEF Tried, Unacked, Working
  <1>3. InTurn'
    BY <1>2 DEF OrderInv, InTurn
  <1>4. OneInTurn'
    <2>1. \A e \in work : Waits(e)' <=> Waits(e)
      BY SameCamera DEF Waits
    <2> QED BY <1>2, <2>1 DEF OrderInv, OneInTurn
  <1>5. ASSUME PassInv PROVE PassInv'
    <2>1. \A a \in Tried : HeldBack(a) => HeldBack(a)'
      BY <1>2, SameCamera DEF HeldBack
    <2> QED BY <1>2, <1>5, <2>1 DEF PassInv
  <1>6. AckInTurn'
    BY <1>2, PendingInTurn DEF OrderInv
  <1> QED BY <1>1, <1>3, <1>4, <1>5, <1>6 DEF OrderInv

LEMMA TxFaultInOrder ==
    ASSUME TypeInv, OrderInv, TxFault
    PROVE  OrderInv'
  <1> USE DEF redisVars, dbVars, batchVars, envVars, historyVars
  <1>1. PICK e \in todo : Current(e) /\ Refuses(e)
    BY DEF TxFault
  <1>2. /\ UNCHANGED <<stream, last, pel, mode, batch, blank, held, lostReads,
                       done, gone>>
        /\ pc = "apply" /\ e \in work /\ e \notin blank
        /\ pc' \in {"each", "count"}
    BY <1>1, InStream DEF TxFault, Current, Refuses
  <1>3. AckedIsDone' /\ ReadInTurn'
    BY <1>2, OrderInside
  <1>4. CASE mode = "batch"
    <2>1. pc' = "each" /\ rest' = batch /\ work' = {}
      BY <1>4 DEF TxFault
    <2>2. Tried' = {} /\ held' = {} /\ Unacked' = batch
      BY <1>2, <1>4, <2>1 DEF Tried, OrderInv, InTurn, Unacked
    <2>3. InTurn'
      BY <1>2, <2>1, <2>2 DEF OrderInv, InTurn
    <2>4. OneInTurn'
      BY <2>1 DEF OneInTurn, Working
    <2>5. batch \subseteq Unacked
      BY <1>2, <1>4 DEF OrderInv, InTurn, Tried, Unacked, Working
    <2>6. ASSUME PassInv PROVE PassInv'
      BY <1>2, <2>2, <2>5, <2>6 DEF PassInv
    <2>7. AckInTurn'
      BY <1>2, <2>2, <2>5, PendingInTurn DEF OrderInv
    <2> QED BY <1>2, <1>3, <2>3, <2>4, <2>6, <2>7 DEF OrderInv
  <1>5. CASE mode # "batch"
    <2>1. pc' = "count" /\ rest' = rest /\ work' = work
      BY <1>5 DEF TxFault
    <2>2. work = {e}
      BY <1>2, <1>5 DEF TypeInv, Phases
    <2>3. Tried' = Tried /\ Unacked' = Unacked /\ Working
      BY <1>2, <2>1 DEF Tried, Unacked, Working
    <2>4. InTurn'
      BY <1>2, <2>1, <2>3 DEF OrderInv, InTurn
    <2>5. OneInTurn'
      <3>1. Waits(e)' <=> Waits(e)
        BY <1>2, SameCamera DEF Waits
      <3> QED BY <1>2, <1>5, <2>1, <2>2, <2>3, <3>1 DEF OrderInv, OneInTurn
    <2>6. ASSUME PassInv PROVE PassInv'
      <3>1. \A a \in Tried : HeldBack(a) => HeldBack(a)'
        BY <1>2, <2>3, SameCamera DEF HeldBack
      <3> QED BY <1>2, <2>1, <2>3, <2>6, <3>1 DEF PassInv
    <2>7. AckInTurn'
      BY <1>2, <2>3, PendingInTurn DEF OrderInv
    <2> QED BY <1>2, <1>3, <2>4, <2>5, <2>6, <2>7 DEF OrderInv
  <1> QED BY <1>4, <1>5

\* An entry of its own is acknowledged, its count dropped.
LEMMA AckInOrder ==
    ASSUME TypeInv, OrderInv, Xack \/ (Hdel /\ mode # "batch")
    PROVE  OrderInv'
  <1> USE DEF redisVars, dbVars, batchVars, passVars, envVars, historyVars
  <1>1. work \subseteq done
    BY DEF Xack, Hdel, OrderInv, OneInTurn
  <1>2. CASE Xack
    <2>1. /\ UNCHANGED <<stream, last, mode, batch, blank, rest, held, work,
                         lostReads, done, gone>>
          /\ pel' = pel \ work /\ pc = "ack" /\ pc' = "hdel"
      BY <1>2 DEF Xack, txVars
    <2>2. AckedIsDone' /\ ReadInTurn'
      BY <1>1, <2>1, OrderInside
    <2>3. Tried' = Tried /\ Tried \cap work = {} /\ Unacked' = rest
      BY <2>1 DEF Tried, Unacked, Working
    <2>4. InTurn' /\ OneInTurn'
      BY <1>1, <2>1, <2>3 DEF OrderInv, InTurn, OneInTurn, Working
    <2>5. ASSUME PassInv PROVE PassInv'
      <3>1. \A a \in Tried : HeldBack(a) => HeldBack(a)'
        BY <2>1, <2>3, SameCamera DEF HeldBack
      <3>2. rest \subseteq pel'
        BY <2>1, <2>5 DEF PassInv, OrderInv, InTurn, Unacked
      <3> QED BY <2>1, <2>3, <2>5, <3>1, <3>2 DEF PassInv
    <2>6. AckInTurn'
      BY <2>1, <2>3, AckedInTurn
    <2> QED BY <2>1, <2>2, <2>4, <2>5, <2>6 DEF OrderInv
  <1>3. CASE Hdel /\ mode # "batch"
    <2>1. /\ UNCHANGED <<stream, last, pel, batch, blank, rest, held, lostReads,
                         done, gone>>
          /\ pc = "hdel" /\ pc' = "each" /\ mode' = "each" /\ work' = {}
      BY <1>3 DEF Hdel
    <2>2. AckedIsDone' /\ ReadInTurn'
      BY <2>1, OrderInside
    <2>3. /\ Tried \subseteq Tried' /\ Tried' \subseteq Tried \cup work
          /\ Unacked' = rest /\ Unacked = rest
      BY <2>1 DEF Tried, Unacked, Working
    <2>4. InTurn' /\ OneInTurn'
      BY <2>1 DEF OrderInv, InTurn, OneInTurn, Working
    <2>5. ASSUME PassInv PROVE PassInv'
      <3>1. \A a \in Tried : HeldBack(a) => HeldBack(a)'
        BY <2>1, <2>3, SameCamera DEF HeldBack
      <3>2. \A a \in work : HeldBack(a)'
        BY <2>1 DEF HeldBack, OrderInv, OneInTurn
      <3> QED BY <2>1, <2>3, <2>5, <3>1, <3>2 DEF PassInv
    <2>6. AckInTurn'
      BY <2>1, <2>3, PendingInTurn DEF OrderInv
    <2> QED BY <2>1, <2>2, <2>4, <2>5, <2>6 DEF OrderInv
  <1> QED BY <1>2, <1>3

\* The next entry of the pass is tried, or skipped.
LEMMA PassInOrder ==
    ASSUME TypeInv, OrderInv, TryEntry \/ SkipEntry
    PROVE  OrderInv'
  <1> USE DEF redisVars, dbVars, batchVars, txVars, envVars, historyVars
  <1>1. PICK e \in rest :
          /\ Each(e) /\ rest' = rest \ {e}
          /\ \/ ~Waits(e) /\ work' = {e} /\ pc' = "begin" /\ mode' = "each"
             \/ Waits(e) /\ work' = work /\ pc' = pc /\ mode' = mode
    BY DEF TryEntry, SkipEntry
  <1>2. UNCHANGED <<stream, last, pel, batch, blank, held, lostReads, done, gone>>
    BY DEF TryEntry, SkipEntry
  <1>3. /\ pc = "each" /\ work = {} /\ \A f \in rest : e <= f
        /\ rest \subseteq batch /\ e \in Nat /\ \A f \in batch : f \in Nat
    BY <1>1, InStream DEF Each, OrderInv, OneInTurn, TypeInv, TypeOK, LoopType
  <1>4. AckedIsDone' /\ ReadInTurn'
    BY <1>1, <1>2, <1>3, OrderInside
  <1>5. \A x \in batch' \ rest', y \in rest' : x < y
    <2>1. SUFFICES ASSUME NEW x \in batch, x \notin rest \ {e},
                          NEW y \in rest \ {e}
                   PROVE  x < y
      BY <1>1, <1>2
    <2>2. CASE x = e
      BY <1>3, <2>1, <2>2
    <2>3. CASE x # e
      BY <2>1, <2>3 DEF OrderInv, InTurn
    <2> QED BY <2>2, <2>3
  <1>6. \A x \in Tried : x < e
    BY <1>1 DEF Tried, OrderInv, InTurn
  <1>7. ASSUME NEW a \in Tried, HeldBack(a), Tried \subseteq Tried'
        PROVE  HeldBack(a)'
    BY <1>2, <1>7, SameCamera DEF HeldBack
  <1>8. CASE ~Waits(e) /\ work' = {e} /\ pc' = "begin" /\ mode' = "each"
    <2>1. Tried' = Tried /\ Unacked' = Unacked /\ Working'
      BY <1>1, <1>2, <1>3, <1>8 DEF Tried, Unacked, Working
    <2>2. InTurn'
      BY <1>1, <1>2, <1>5, <1>8 DEF OrderInv, InTurn
    <2>3. OneInTurn'
      <3>1. ~Waits(e)'
        BY <1>2, <1>8, SameCamera DEF Waits
      <3> QED BY <1>8, <3>1 DEF OneInTurn
    <2>4. ASSUME PassInv PROVE PassInv'
      BY <1>1, <1>2, <1>7, <1>8, <2>1, <2>4 DEF PassInv
    <2>5. AckInTurn'
      BY <1>2, <2>1, PendingInTurn DEF OrderInv
    <2> QED BY <1>2, <1>4, <2>2, <2>3, <2>4, <2>5 DEF OrderInv
  <1>9. CASE Waits(e) /\ work' = work /\ pc' = pc /\ mode' = mode
    <2>1. /\ Tried' = Tried \cup {e} /\ Unacked' \subseteq Unacked
          /\ (Working' <=> Working)
      BY <1>1, <1>2, <1>3, <1>9 DEF Tried, Unacked, Working
    <2>2. mode # "batch" /\ held # {}
      BY <1>9 DEF Waits, OrderInv, InTurn
    <2>3. InTurn'
      BY <1>1, <1>2, <1>5, <1>9, <2>2 DEF OrderInv, InTurn
    <2>4. OneInTurn'
      BY <1>3, <1>9 DEF OneInTurn, Working
    <2>5. ASSUME PassInv PROVE PassInv'
      <3>1. PICK x \in Tried : x \in pel /\ x \notin blank
        BY <2>2, <2>5 DEF PassInv
      <3>2. x < e /\ x \in batch
        BY <1>6, <3>1 DEF Tried
      <3>3. e \notin blank
        BY <1>1, <1>3, <3>1, <3>2 DEF OrderInv, InTurn
      <3>4. HeldBack(e)'
        <4>1. CameraOf(e)' = CameraOf(e)
          BY <1>2, SameCamera
        <4> QED BY <1>2, <1>9, <2>1, <3>1, <3>2, <3>3, <4>1 DEF Waits, HeldBack
      <3> QED BY <1>1, <1>2, <1>3, <1>7, <1>9, <2>1, <2>5, <3>1, <3>4 DEF PassInv
    <2>6. AckInTurn'
      BY <1>2, <2>1, PendingInTurn DEF OrderInv
    <2> QED BY <1>2, <1>4, <2>3, <2>4, <2>5, <2>6 DEF OrderInv
  <1> QED BY <1>1, <1>8, <1>9

\* A failed attempt holds the entry's camera back, or the entry is given up.
LEMMA CountInOrder ==
    ASSUME TypeInv, OrderInv, CountFailure
    PROVE  OrderInv'
  <1> USE DEF dbVars, batchVars, historyVars
  <1>1. /\ UNCHANGED <<stream, last, pel, batch, blank, rest, lostReads, done,
                       gone>>
        /\ pc = "count" /\ mode # "batch"
    BY DEF CountFailure, TypeInv, Phases
  <1>2. PICK e \in work :
          \/ /\ held' = held \cup {CameraOf(e)} /\ work' = {} /\ pc' = "each"
             /\ mode' = mode
          \/ mode' = "dead" /\ pc' = "bury" /\ UNCHANGED <<held, work>>
    BY DEF CountFailure
  <1>3. work = {e} /\ e \notin blank /\ e \in batch /\ e \notin rest
    BY <1>1, <1>2 DEF TypeInv, Phases, OrderInv, OneInTurn, InTurn
  <1>4. AckedIsDone' /\ ReadInTurn'
    BY <1>1, <1>2, OrderInside
  <1>5. CASE held' = held \cup {CameraOf(e)} /\ work' = {} /\ pc' = "each"
             /\ mode' = mode
    <2>1. Tried' = Tried \cup {e} /\ Unacked' \subseteq Unacked
      BY <1>1, <1>3, <1>5 DEF Tried, Unacked, Working
    <2>2. InTurn' /\ OneInTurn'
      BY <1>1, <1>5 DEF OrderInv, InTurn, OneInTurn, Working
    <2>3. ASSUME PassInv PROVE PassInv'
      <3>1. \A a \in Tried : HeldBack(a) => HeldBack(a)'
        BY <1>1, <1>5, <2>1, SameCamera DEF HeldBack
      <3>2. HeldBack(e)'
        BY <1>1, <1>5, SameCamera DEF HeldBack
      <3>3. e \in pel
        BY <1>1, <1>3, <2>3 DEF PassInv, Unacked, Working
      <3> QED BY <1>1, <1>3, <1>5, <2>1, <2>3, <3>1, <3>2, <3>3 DEF PassInv
    <2>4. AckInTurn'
      BY <1>1, <2>1, PendingInTurn DEF OrderInv
    <2> QED BY <1>1, <1>4, <2>2, <2>3, <2>4 DEF OrderInv
  <1>6. CASE mode' = "dead" /\ pc' = "bury" /\ UNCHANGED <<held, work>>
    <2>1. Tried' = Tried /\ Unacked' = Unacked /\ Working
      BY <1>1, <1>6 DEF Tried, Unacked, Working
    <2>2. InTurn'
      BY <1>1, <1>6, <2>1 DEF OrderInv, InTurn
    <2>3. OneInTurn'
      <3>1. \A f \in work : Waits(f)' <=> Waits(f)
        BY <1>1, <1>6, SameCamera DEF Waits
      <3> QED BY <1>1, <1>6, <2>1, <3>1 DEF OrderInv, OneInTurn, Working
    <2>4. ASSUME PassInv PROVE PassInv'
      <3>1. \A a \in Tried : HeldBack(a) => HeldBack(a)'
        BY <1>1, <1>6, <2>1, SameCamera DEF HeldBack
      <3> QED BY <1>1, <1>6, <2>1, <2>4, <3>1 DEF PassInv
    <2>5. AckInTurn'
      BY <1>1, <2>1, PendingInTurn DEF OrderInv
    <2> QED BY <1>1, <1>4, <2>2, <2>3, <2>4, <2>5 DEF OrderInv
  <1> QED BY <1>2, <1>5, <1>6

\* What Redis loses counts as lost, so the pass loses nothing of the order.
LEMMA LossInOrder ==
    ASSUME TypeInv, SettledInv, OrderInv, RedisLosesData
    PROVE  OrderInv'
  <1> USE DEF dbVars, batchVars, passVars, txVars
  <1>1. /\ UNCHANGED <<stream, pc, mode, batch, blank, rest, held, work,
                       lostReads, done>>
        /\ last' = Len(stream) /\ pel' = {}
        /\ gone' = gone \cup Undelivered \cup pel
    BY DEF RedisLosesData
  <1>2. \A e \in 1 .. last : e \in done \cup gone'
    BY <1>1 DEF OrderInv, AckedIsDone
  <1>3. AckedIsDone'
    <2>1. SUFFICES ASSUME NEW e \in 1 .. Len(stream), e > last
                   PROVE  e \in gone'
      BY <1>1, <1>2, InStream DEF AckedIsDone
    <2>2. CASE e \in Undelivered
      BY <1>1, <2>2
    <2>3. CASE e \notin Undelivered
      BY <1>1, <2>1, <2>3, InStream DEF Undelivered, SettledInv, TrimmedIsGone
    <2> QED BY <2>2, <2>3
  <1>4. ReadInTurn'
    BY <1>1 DEF OrderInv, ReadInTurn
  <1>5. Tried' = Tried /\ Unacked' = Unacked /\ (Working' <=> Working)
    BY <1>1 DEF Tried, Unacked, Working
  <1>6. InTurn'
    BY <1>1, <1>5 DEF OrderInv, InTurn
  <1>7. OneInTurn'
    <2>1. \A e \in work : Waits(e)' <=> Waits(e)
      BY <1>1, SameCamera DEF Waits
    <2> QED BY <1>1, <1>5, <2>1 DEF OrderInv, OneInTurn
  <1>8. AckInTurn'
    <2>1. Unacked \subseteq gone'
      BY <1>1 DEF OrderInv, AckInTurn
    <2>2. ASSUME lostReads = 0, NEW b \in 1 .. Len(stream), b \notin gone',
                 NEW a \in 1 .. b - 1, Lane(a)' = Lane(b)'
          PROVE  a \notin Unacked
      <3>1. b \notin pel \cup gone /\ b \notin Undelivered
        BY <1>1, <2>2
      <3>2. b \in 1 .. last
        BY <2>2, <3>1, InStream DEF Undelivered, SettledInv, TrimmedIsGone
      <3>3. Lane(a) = Lane(b)
        BY <1>1, <2>2, SameLane
      <3> QED BY <2>2, <3>1, <3>2, <3>3 DEF OrderInv, AckInTurn
    <2> QED BY <1>1, <1>5, <2>1, <2>2 DEF AckInTurn
  <1> QED BY <1>1, <1>3, <1>4, <1>6, <1>7, <1>8 DEF OrderInv

LEMMA OrderStep ==
    TypeInv /\ SettledInv /\ OrderInv /\ [Next]_vars => OrderInv'
  <1> SUFFICES ASSUME TypeInv, SettledInv, OrderInv, [Next]_vars PROVE OrderInv'
    OBVIOUS
  <1> USE DEF redisVars, dbVars, batchVars, passVars, txVars, envVars,
              historyVars
  <1>1. CASE \/ CommitReplyLost \/ TxTransient \/ XackFails \/ HdelFails
             \/ CountFails \/ BuryFails \/ Crash \/ PassDone
             \/ (Hdel /\ mode = "batch")
    <2>1. /\ UNCHANGED <<stream, last, gone, lostReads>>
          /\ done \subseteq done' /\ pel \ pel' \subseteq done'
          /\ pel' = pel \/ (pel' = pel \ work /\ pc = "ack")
          /\ \E at \in {"group", "read"} : Forget(at)
      BY <1>1
      DEF CommitReplyLost, TxTransient, XackFails, HdelFails, CountFails,
          BuryFails, Crash, PassDone, Hdel, Throw, OrderInv, OneInTurn
    <2>2. AckedIsDone'
      BY <2>1, AckIsDone DEF OrderInv
    <2>3. Unacked' = {}
      BY <2>1 DEF Forget, Unacked
    <2>4. AckInTurn'
      BY <2>1, <2>3, AckedInTurn, PendingInTurn DEF OrderInv
    <2> QED BY <2>1, <2>2, <2>4, OrderAtRest DEF Forget
  <1>2. CASE \/ CreateGroup \/ NoGroup \/ ResentEmpty \/ Xadd \/ Trim
             \/ ReadReplyLost
    <2>1. /\ Reading /\ pc' \in {"group", "read", "resent"}
          /\ UNCHANGED <<mode, batch, blank, rest, held, work>>
      BY <1>2
      DEF CreateGroup, NoGroup, ResentEmpty, Xadd, Trim, ReadReplyLost, Reading
    <2>2. /\ mode = "batch" /\ batch = {} /\ rest = {} /\ held = {}
          /\ blank = {} /\ work = {}
      BY <2>1 DEF TypeInv, TypeOK, LoopType, Phases, OrderInv, InTurn
    <2>3. pc' = "resent" => lostReads' # 0
      BY <1>2
      DEF CreateGroup, NoGroup, ResentEmpty, Xadd, Trim, ReadReplyLost,
          OrderInv, ReadInTurn, TypeInv, TypeOK, HistoryType
    <2>4. AckedIsDone'
      <3>1. CASE ReadReplyLost
        <4>1. /\ Deliver(FirstOf(Undelivered, Count)) /\ UNCHANGED <<done, gone>>
          BY <3>1 DEF ReadReplyLost
        <4>2. pel' = pel \cup FirstOf(Undelivered, Count)
          BY <4>1 DEF Deliver
        <4>3. /\ last' \in Nat /\ last' > last
              /\ \A b \in (last + 1) .. last' :
                    b \in FirstOf(Undelivered, Count) \cup gone
          BY <4>1, NonePassedOver DEF SettledInv
        <4>4. SUFFICES ASSUME NEW e \in 1 .. last',
                              e \notin pel \cup FirstOf(Undelivered, Count)
                       PROVE  e \in done \cup gone
          BY <4>1, <4>2 DEF AckedIsDone
        <4>5. CASE e <= last
          BY <4>3, <4>4, <4>5, InStream DEF OrderInv, AckedIsDone
        <4>6. CASE e > last
          BY <4>3, <4>4, <4>6, InStream
        <4> QED BY <4>3, <4>5, <4>6, InStream
      <3>2. CASE CreateGroup \/ NoGroup \/ ResentEmpty \/ Xadd \/ Trim
        <4>1. UNCHANGED <<last, pel, done>> /\ gone \subseteq gone'
          BY <3>2 DEF CreateGroup, NoGroup, ResentEmpty, Xadd, Trim
        <4> QED BY <4>1, AckIsDone DEF OrderInv
      <3> QED BY <1>2, <3>1, <3>2
    <2>5. AckInTurn'
      <3>1. Unacked' = {} /\ gone \subseteq gone'
        BY <1>2, <2>1, <2>2
        DEF Unacked, CreateGroup, NoGroup, ResentEmpty, Xadd, Trim,
            ReadReplyLost
      <3>2. CASE ReadReplyLost
        <4>1. /\ Deliver(FirstOf(Undelivered, Count)) /\ gone' = gone
              /\ lostReads' # 0
          BY <3>2
          DEF ReadReplyLost, TypeInv, TypeOK, HistoryType
        <4> QED BY <3>1, <4>1, DeliveredInTurn DEF OrderInv
      <3>3. CASE CreateGroup \/ NoGroup \/ ResentEmpty \/ Xadd \/ Trim
        <4>1. /\ UNCHANGED <<last, pel, lostReads>>
              /\ stream' = stream \/ Xadd
          BY <3>3 DEF CreateGroup, NoGroup, ResentEmpty, Xadd, Trim
        <4> QED BY <3>1, <4>1, PendingInTurn DEF OrderInv
      <3> QED BY <1>2, <3>2, <3>3
    <2> QED BY <2>1, <2>2, <2>3, <2>4, <2>5, OrderAtRest
  <1>3. CASE ReadPending \/ ReadNew \/ ResentRead
    BY <1>3, ReadsInOrder
  <1>4. CASE BeginTx \/ Commit \/ Bury \/ RemoveCamera \/ UNCHANGED vars
    <2>1. /\ UNCHANGED <<stream, last, pel, mode, batch, blank, rest, held, work,
                         lostReads, gone>>
          /\ \/ pc' = pc /\ done' = done
             \/ pc = "begin" /\ pc' = "apply" /\ done' = done
             \/ /\ pc \in {"apply", "bury"} /\ pc' = "ack"
                /\ done' = done \cup work
      BY <1>4 DEF BeginTx, Commit, Bury, RemoveCamera, vars
    <2> QED BY <2>1, TxInOrder
  <1>5. CASE ApplyMessage
    <2>1. /\ UNCHANGED <<stream, last, pel, mode, batch, blank, rest, held, work,
                         lostReads, gone, pc, done>>
      BY <1>5
      DEF ApplyMessage, ApplyUnreadable, ApplyUnknownCamera, ApplyEvent,
          ApplyEngineStarted, ApplyOpen, ApplyClose, ApplyMetric, Applied
    <2> QED BY <2>1, TxInOrder
  <1>6. CASE TxFault
    BY <1>6, TxFaultInOrder
  <1>7. CASE Xack \/ (Hdel /\ mode # "batch")
    BY <1>7, AckInOrder
  <1>8. CASE TryEntry \/ SkipEntry
    BY <1>8, PassInOrder
  <1>9. CASE CountFailure
    BY <1>9, CountInOrder
  <1>10. CASE RedisLosesData
    BY <1>10, LossInOrder
  <1> QED
    BY <1>1, <1>2, <1>3, <1>4, <1>5, <1>6, <1>7, <1>8, <1>9, <1>10
    DEF Next, Consumer, Failing, Environment

LEMMA OrderInit == Init => OrderInv
  <1> SUFFICES ASSUME Init PROVE OrderInv
    OBVIOUS
  <1>1. /\ last = 0 /\ pc = "group" /\ batch = {} /\ blank = {} /\ rest = {}
        /\ held = {} /\ work = {}
    BY DEF Init
  <1> QED
    BY <1>1
    DEF OrderInv, AckedIsDone, ReadInTurn, InTurn, OneInTurn, Tried, PassInv,
        AckInTurn, Unacked, Working

\* Per-camera order: no step writes or buries an entry before one whose turn
\* is earlier, for every script, batch size and sequence of failures, as long
\* as no reply to a read of new entries is lost.
THEOREM PerCameraOrder == Spec => OrderKept
  <1> DEFINE Step ==
        lostReads = 0 =>
          \A b \in done' \ done : \A a \in 1 .. Len(stream) :
             ComesFirst(a, b) => a \in done' \cup gone'
  <1>3. TypeInv /\ OrderInv /\ [Next]_vars => [Step]_vars
    <2> SUFFICES ASSUME TypeInv, OrderInv, [Next]_vars, lostReads = 0,
                        NEW b \in done' \ done, NEW a \in 1 .. Len(stream),
                        ComesFirst(a, b)
                 PROVE  a \in done' \cup gone'
      OBVIOUS
    <2>1. pc \in {"apply", "bury"} /\ b \in work /\ done' = done \cup work
      <3> USE DEF historyVars, dbVars, envVars, redisVars
      <3>1. CASE Commit \/ CommitReplyLost \/ Bury \/ BuryFails
        BY <3>1 DEF Commit, CommitReplyLost, Bury, BuryFails
      <3>2. CASE ApplyMessage
        BY <3>2
        DEF ApplyMessage, ApplyUnreadable, ApplyUnknownCamera, ApplyEvent,
            ApplyEngineStarted, ApplyOpen, ApplyClose, ApplyMetric, Applied
      <3>3. CASE \/ CreateGroup \/ NoGroup \/ ReadPending \/ ReadNew
                 \/ ResentRead \/ ResentEmpty \/ ReadReplyLost \/ Environment
        BY <3>3
        DEF CreateGroup, NoGroup, ReadPending, ReadNew, ResentRead,
            ResentEmpty, ReadReplyLost, Environment, Xadd, RemoveCamera, Trim,
            RedisLosesData
      <3>4. CASE \/ BeginTx \/ TxFault \/ Xack \/ Hdel \/ TryEntry \/ SkipEntry
                 \/ PassDone \/ CountFailure \/ TxTransient \/ XackFails
                 \/ HdelFails \/ CountFails \/ Crash
        BY <3>4
        DEF BeginTx, TxFault, Xack, Hdel, TryEntry, SkipEntry, PassDone,
            CountFailure, TxTransient, XackFails, HdelFails, CountFails, Crash
      <3>5. CASE UNCHANGED vars
        BY <3>5 DEF vars
      <3> QED BY <3>1, <3>2, <3>3, <3>4, <3>5 DEF Next, Consumer, Failing
    <2>2. a \in done \cup gone \cup work
      <3>1. a \in work \/ a \notin pel
        BY <2>1, TakesItsTurn DEF Working
      <3>2. a \in 1 .. last
        BY <2>1, InStream DEF ComesFirst
      <3> QED BY <3>1, <3>2 DEF OrderInv, AckedIsDone
    <2>3. gone \subseteq gone'
      BY <2>1
      DEF Next, Consumer, Failing, Environment, vars, Commit, CommitReplyLost,
          Bury, BuryFails, historyVars, CreateGroup, NoGroup, ReadPending,
          ReadNew, ResentRead, ResentEmpty, BeginTx, TxFault, Xack, Hdel,
          TryEntry, SkipEntry, PassDone, CountFailure, ReadReplyLost,
          TxTransient, XackFails, HdelFails, CountFails, Crash, Xadd,
          RemoveCamera, Trim, RedisLosesData, ApplyMessage, ApplyUnreadable,
          ApplyUnknownCamera, ApplyEvent, ApplyEngineStarted, ApplyOpen,
          ApplyClose, ApplyMetric, Applied
    <2> QED BY <2>1, <2>2, <2>3
  <1>4. Spec => [][Step]_vars
    BY <1>3, SettledInit, OrderInit, TypeInit, TypeStep, SettledStep, OrderStep, PTL DEF Spec
  <1> QED BY <1>4 DEF OrderKept

-----------------------------------------------------------------------------
(* Each event is pushed once.                                              *)

\* The events of the transaction are new to Postgres until it commits, are
\* stored and unannounced between commit and push, and are nowhere else.
FreshInv ==
    /\ \A x \in Keys : announced[x] > 0 => x \in db.events
    /\ pc \notin {"apply", "ack", "hdel"} => fresh = {}
    /\ pc = "apply" =>
         tx.events = db.events \cup fresh /\ fresh \cap db.events = {}
    /\ pc \in {"ack", "hdel"} =>
         \A x \in fresh : announced[x] = 0 /\ x \in db.events

PushInv == FreshInv /\ PushedOnce

LEMMA PublishOnce ==
    ASSUME TypeInv, PushInv, pc \in {"ack", "hdel"}, Publish, db' = db,
           silenced' = silenced, fresh' = {}, pc' \notin {"apply", "ack", "hdel"}
    PROVE  PushInv'
  <1>1. announced \in [Keys -> Nat] /\ fresh \subseteq Keys /\ db.events \subseteq Keys
    BY DEF TypeInv, TypeOK, HistoryType, RowsType, Tables
  <1>2. \A x \in Keys : /\ x \in fresh => announced'[x] = announced[x] + 1
                        /\ x \notin fresh => announced'[x] = announced[x]
    BY <1>1 DEF Publish
  <1> QED BY <1>1, <1>2 DEF PushInv, FreshInv, PushedOnce

\* What leaves the pushes and the events alone.
LEMMA PushIdle ==
    ASSUME TypeInv, PushInv, announced' = announced, db'.events = db.events,
           silenced \subseteq silenced',
           \/ /\ fresh' = {} /\ pc' \notin {"apply", "ack", "hdel"}
              /\ pc \in {"ack", "hdel"} => fresh \subseteq silenced'
           \/ /\ fresh' = {} /\ pc' = "apply" /\ tx'.events = db.events
              /\ pc \notin {"ack", "hdel"}
           \/ fresh' = fresh /\ pc' = pc /\ tx'.events = tx.events
           \/ fresh' = fresh /\ pc = "ack" /\ pc' = "hdel"
           \/ fresh' = {} /\ pc = "bury" /\ pc' = "ack"
    PROVE  PushInv'
  <1>1. announced \in [Keys -> Nat] /\ fresh \subseteq Keys /\ db.events \subseteq Keys
    BY DEF TypeInv, TypeOK, HistoryType, RowsType, Tables
  <1>2. FreshInv'
    BY <1>1 DEF PushInv, FreshInv
  <1>3. PushedOnce'
    BY <1>1 DEF PushInv, FreshInv, PushedOnce
  <1> QED BY <1>2, <1>3 DEF PushInv

\* Every message leaves the events as they were, or inserts its own.
LEMMA ApplyInserts ==
    ASSUME TypeInv, ApplyMessage
    PROVE  /\ pc = "apply" /\ pc' = pc
           /\ UNCHANGED <<db, announced, silenced>>
           /\ \E E \in SUBSET Keys :
                /\ fresh' = fresh \cup E /\ tx'.events = tx.events \cup E
                /\ E \cap tx.events = {}
  <1> USE DEF dbVars, historyVars, Applied
  <1>1. tx \in Tables /\ tx.events \subseteq Keys
    BY DEF TypeInv, TypeOK, RowsType, Tables
  <1>2. \A e \in todo : Msg(e).key \in Keys
    BY InStream, MsgType DEF TypeInv
  <1>3. \A e : DeadLetter(tx, e).events = tx.events
    BY <1>1 DEF DeadLetter, Tables
  <1>4. \A e : InsertEvent(tx, e).events = tx.events \cup Inserted(tx, e)
    BY <1>1 DEF InsertEvent, Inserted, Tables
  <1>5. \A e \in todo : Inserted(tx, e) \in SUBSET Keys /\ Inserted(tx, e) \cap tx.events = {}
    BY <1>2 DEF Inserted
  <1>a. ASSUME NEW e \in todo, NEW d, d.events = tx.events, Current(e),
               Applied(e, d, {})
        PROVE  /\ pc = "apply" /\ pc' = pc
               /\ UNCHANGED <<db, announced, silenced>>
               /\ \E E \in SUBSET Keys :
                    /\ fresh' = fresh \cup E /\ tx'.events = tx.events \cup E
                    /\ E \cap tx.events = {}
    <2>1. /\ fresh' = fresh \cup {} /\ tx'.events = tx.events \cup {}
          /\ {} \cap tx.events = {} /\ {} \in SUBSET Keys
      BY <1>a
    <2>2. pc = "apply" /\ pc' = pc /\ UNCHANGED <<db, announced, silenced>>
      BY <1>a DEF Current
    <2> QED BY <2>1, <2>2
  <1>6. CASE ApplyUnreadable \/ ApplyUnknownCamera
    BY <1>3, <1>6, <1>a DEF ApplyUnreadable, ApplyUnknownCamera
  <1>7. CASE ApplyEvent
    BY <1>4, <1>5, <1>7 DEF ApplyEvent, Current
  <1>8. CASE ApplyEngineStarted
    <2>1. PICK e \in todo : Current(e) /\ Applied(e, StartBoot(tx, e), Inserted(tx, e))
      BY <1>8 DEF ApplyEngineStarted
    <2>2. StartBoot(tx, e).events = tx.events \cup Inserted(tx, e)
      <3>1. CASE Inserted(tx, e) = {}
        BY <3>1 DEF StartBoot
      <3>2. CASE Inserted(tx, e) # {}
        <4>1. InsertEvent(tx, e) \in Tables
          BY <1>1, <2>1, InStream, EventRow DEF TypeInv
        <4>2. StartBoot(tx, e).events = InsertEvent(tx, e).events
          BY <3>2, <4>1 DEF StartBoot, EndOldBoot, Tables
        <4> QED BY <1>4, <4>2
      <3> QED BY <3>1, <3>2
    <2> QED BY <1>5, <2>1, <2>2 DEF Current
  <1>9. CASE ApplyOpen
    <2>1. \A e : OpenRow(tx, e).events = tx.events
      BY <1>1 DEF OpenRow, Tables
    <2> QED BY <1>9, <1>a, <2>1 DEF ApplyOpen
  <1>10. CASE ApplyClose
    <2>1. \A e : CloseRow(tx, e).events = tx.events
      <3>1. \A e : [tx EXCEPT !.intervals[Msg(e).key].state = "closed"].events = tx.events
        BY <1>1 DEF Tables
      <3> QED BY <1>3, <3>1 DEF CloseRow
    <2> QED BY <1>10, <1>a, <2>1 DEF ApplyClose
  <1>11. CASE ApplyMetric
    <2>1. \A e : MetricRow(tx, e).events = tx.events
      BY <1>1 DEF MetricRow, Tables
    <2> QED BY <1>11, <1>a, <2>1 DEF ApplyMetric
  <1> QED
    BY <1>6, <1>7, <1>8, <1>9, <1>10, <1>11 DEF ApplyMessage

LEMMA PushStep == TypeInv /\ PushInv /\ [Next]_vars => PushInv'
  <1> SUFFICES ASSUME TypeInv, PushInv, [Next]_vars PROVE PushInv'
    OBVIOUS
  <1> USE DEF dbVars, historyVars, Throw, Forget
  <1>0. /\ announced \in [Keys -> Nat] /\ fresh \subseteq Keys
        /\ db \in Tables /\ db.events \subseteq Keys
    BY DEF TypeInv, TypeOK, HistoryType, RowsType, Tables
  <1>1. CASE ApplyMessage
    <2>1. PICK E \in SUBSET Keys :
            /\ fresh' = fresh \cup E /\ tx'.events = tx.events \cup E
            /\ E \cap tx.events = {}
      BY <1>1, ApplyInserts
    <2>2. pc = "apply" /\ pc' = pc /\ UNCHANGED <<db, announced, silenced>>
      BY <1>1, ApplyInserts
    <2> QED BY <2>1, <2>2 DEF PushInv, FreshInv, PushedOnce
  <1>2. CASE Commit
    <2>1. /\ pc = "apply" /\ pc' = "ack" /\ db' = tx
          /\ UNCHANGED <<fresh, announced, silenced>>
      BY <1>2 DEF Commit, txVars
    <2> QED BY <1>0, <2>1 DEF PushInv, FreshInv, PushedOnce
  <1>3. CASE CommitReplyLost
    <2>1. /\ pc = "apply" /\ pc' = "read" /\ db' = tx /\ fresh' = {}
          /\ announced' = announced /\ silenced' = silenced \cup fresh
      BY <1>3 DEF CommitReplyLost
    <2> QED BY <1>0, <2>1 DEF PushInv, FreshInv, PushedOnce
  <1>4. CASE XackFails \/ Hdel \/ HdelFails
    <2>1. /\ pc \in {"ack", "hdel"} /\ Publish /\ db' = db
          /\ silenced' = silenced /\ fresh' = {} /\ pc' \in {"read", "each"}
      BY <1>4 DEF XackFails, Hdel, HdelFails
    <2> QED BY <2>1, PublishOnce
  <1>5. CASE Bury \/ BuryFails
    <2>1. /\ pc = "bury" /\ fresh = {} /\ fresh' = {}
          /\ announced' = announced /\ silenced' = silenced
          /\ pc' \in {"ack", "read"}
      BY <1>5 DEF Bury, BuryFails, PushInv, FreshInv
    <2>2. db'.events = db.events
      BY <1>0, <1>5 DEF Bury, BuryFails, DeadLetter, Tables
    <2> QED BY <2>1, <2>2, PushIdle
  <1>6. CASE BeginTx
    BY <1>6, PushIdle DEF BeginTx
  <1>7. CASE Xack
    BY <1>7, PushIdle DEF Xack, txVars
  <1>8. CASE RemoveCamera \/ UNCHANGED vars
    BY <1>8, PushIdle DEF RemoveCamera, vars, txVars
  <1>9. CASE RedisLosesData
    BY <1>9, PushIdle DEF RedisLosesData, txVars
  <1>10. CASE TxTransient \/ TxFault
    <2>1. /\ fresh' = {} /\ pc' \notin {"apply", "ack", "hdel"}
          /\ pc \in {"begin", "apply"}
          /\ UNCHANGED <<db, announced, silenced>>
      BY <1>10 DEF TxTransient, TxFault, Current
    <2> QED BY <2>1, PushIdle
  <1>11. CASE Crash
    <2>1. /\ fresh' = {} /\ pc' = "group" /\ UNCHANGED <<db, announced>>
          /\ silenced \subseteq silenced'
          /\ pc \in {"ack", "hdel"} => fresh \subseteq silenced'
      BY <1>11 DEF Crash
    <2> QED BY <2>1, PushIdle
  <1>12. CASE \/ CreateGroup \/ NoGroup \/ ReadPending \/ ReadNew \/ ResentRead
              \/ ResentEmpty \/ TryEntry \/ SkipEntry \/ PassDone
              \/ CountFailure \/ ReadReplyLost \/ CountFails \/ Xadd \/ Trim
    <2>1. /\ pc \notin {"apply", "ack", "hdel"}
          /\ pc' \notin {"apply", "ack", "hdel"}
          /\ UNCHANGED <<db, announced, silenced>>
          /\ fresh' \in {fresh, {}}
      BY <1>12
      DEF CreateGroup, NoGroup, ReadPending, ReadNew, ResentRead, ResentEmpty,
          TryEntry, SkipEntry, Each, PassDone, CountFailure, ReadReplyLost,
          CountFails, Xadd, Trim, Reading, Process, txVars
    <2>2. fresh' = {}
      BY <2>1 DEF PushInv, FreshInv
    <2> QED BY <2>1, <2>2, PushIdle
  <1> QED
    BY <1>1, <1>2, <1>3, <1>4, <1>5, <1>6, <1>7, <1>8, <1>9, <1>10, <1>11,
       <1>12
    DEF Next, Consumer, Failing, Environment

\* Whatever is redelivered, retried or interrupted, an event is pushed at most
\* once and only when stored, and no stored event goes unpushed but for a crash
\* or a lost COMMIT answer.
THEOREM EventsPushedOnce == Spec => []PushedOnce
  <1>1. Init => PushInv
    BY DEF Init, NoRows, PushInv, FreshInv, PushedOnce
  <1>2. PushInv => PushedOnce
    BY DEF PushInv
  <1> QED BY <1>1, <1>2, TypeInit, TypeStep, PushStep, PTL DEF Spec

-----------------------------------------------------------------------------
(* The newest value of a metric stays.                                     *)

\* The engine sends in order, so later entries carry later messages.
StreamSorted == \A a, b \in 1 .. Len(stream) : a <= b => stream[a] <= stream[b]

\* Metric e, unless it is a dead letter, has no older value over it.
Newest(d, e) ==
    Msg(e).kind = "metric" /\ d.dead[e] = 0
        => d.metrics[Msg(e).key] >= stream[e]

\* That holds of every acknowledged entry, inside a transaction too, and there
\* of the entries applied so far, which come before the others.
MetricsKept ==
    /\ lostReads = 0 =>
         \A e \in 1 .. last : e \notin pel \cup gone =>
            Newest(db, e) /\ (pc = "apply" => Newest(tx, e))
    /\ pc = "apply" =>
         /\ \A x \in work \ todo, y \in todo : x < y
         /\ \A e \in work \ todo : Newest(tx, e)
    /\ pc \in {"ack", "hdel"} => \A e \in work : Newest(db, e)

MetricInv == StreamSorted /\ MetricsKept

\* Tables d2 have the metrics of d, and every dead letter.
KeepsMetrics(d, d2) ==
    /\ d2.metrics = d.metrics
    /\ \A e \in Entries : d.dead[e] \in Nat /\ d2.dead[e] >= d.dead[e]

LEMMA NewestKept ==
    ASSUME TypeInv, NEW d, NEW d2, KeepsMetrics(d, d2),
           NEW e \in 1 .. Len(stream), Newest(d, e)
    PROVE  Newest(d2, e)
  <1>1. e \in Entries
    BY MsgType DEF TypeInv
  <1>2. d2.dead[e] = 0 => d.dead[e] = 0
    <2>1. d.dead[e] \in Nat /\ d2.dead[e] >= d.dead[e]
      BY <1>1 DEF KeepsMetrics
    <2> QED BY <2>1
  <1> QED BY <1>2 DEF Newest, KeepsMetrics

\* Every message but a metric leaves the metrics as they were.
LEMMA ApplyMetrics ==
    ASSUME TypeInv, ApplyMessage
    PROVE  /\ pc = "apply" /\ pc' = pc
           /\ UNCHANGED <<stream, last, pel, gone, lostReads, db, work>>
           /\ \E e \in todo :
                /\ todo' = todo \ {e} /\ \A f \in todo : e <= f
                /\ \/ KeepsMetrics(tx, tx') /\ Newest(tx', e)
                   \/ /\ Msg(e).kind = "metric" /\ tx'.dead = tx.dead
                      /\ tx'.metrics
                            = [tx.metrics EXCEPT ![Msg(e).key] = stream[e]]
  <1> USE DEF redisVars, dbVars, envVars, historyVars, Applied
  <1>1. tx \in Tables /\ \A e \in Entries : tx.dead[e] \in Nat
    BY DEF TypeInv, TypeOK, RowsType, Tables
  <1>2. \A e \in todo : e \in 1 .. Len(stream) /\ e \in Entries
    BY InStream, MsgType DEF TypeInv
  <1>3. ASSUME NEW e \in todo
        PROVE  /\ KeepsMetrics(tx, DeadLetter(tx, e))
               /\ DeadLetter(tx, e).dead[e] # 0
    <2>1. /\ DeadLetter(tx, e).metrics = tx.metrics
          /\ DeadLetter(tx, e).dead = [tx.dead EXCEPT ![e] = @ + 1]
      BY <1>1 DEF DeadLetter, Tables
    <2>2. tx.dead \in [Entries -> Nat]
      BY <1>1 DEF Tables
    <2>3. /\ DeadLetter(tx, e).dead[e] = tx.dead[e] + 1
          /\ \A f \in Entries \ {e} : DeadLetter(tx, e).dead[f] = tx.dead[f]
      BY <1>2, <2>1, <2>2
    <2> QED BY <1>1, <1>2, <2>1, <2>3 DEF KeepsMetrics
  <1>4. ASSUME NEW e \in todo, NEW d, Current(e), Applied(e, d, {})
                \/ Applied(e, d, Inserted(tx, e)),
               \/ KeepsMetrics(tx, d) /\ Newest(d, e)
               \/ /\ Msg(e).kind = "metric" /\ d.dead = tx.dead
                  /\ d.metrics = [tx.metrics EXCEPT ![Msg(e).key] = stream[e]]
        PROVE  /\ pc = "apply" /\ pc' = pc
               /\ UNCHANGED <<stream, last, pel, gone, lostReads, db, work>>
               /\ \E f \in todo :
                    /\ todo' = todo \ {f} /\ \A g \in todo : f <= g
                    /\ \/ KeepsMetrics(tx, tx') /\ Newest(tx', f)
                       \/ /\ Msg(f).kind = "metric" /\ tx'.dead = tx.dead
                          /\ tx'.metrics
                                = [tx.metrics EXCEPT ![Msg(f).key] = stream[f]]
    BY <1>4 DEF Current
  <1>5. CASE ApplyUnreadable \/ ApplyUnknownCamera
    BY <1>3, <1>4, <1>5 DEF ApplyUnreadable, ApplyUnknownCamera, Newest
  <1>6. CASE ApplyEvent
    <2>1. PICK e \in todo : /\ Current(e) /\ Readable(e, "event")
                            /\ Applied(e, InsertEvent(tx, e), Inserted(tx, e))
      BY <1>6 DEF ApplyEvent
    <2>2. KeepsMetrics(tx, InsertEvent(tx, e))
      BY <1>1 DEF InsertEvent, Tables, KeepsMetrics
    <2> QED BY <1>4, <2>1, <2>2 DEF Newest, Readable
  <1>7. CASE ApplyEngineStarted
    <2>1. PICK e \in todo : /\ Current(e) /\ Readable(e, "engine_started")
                            /\ Applied(e, StartBoot(tx, e), Inserted(tx, e))
      BY <1>7 DEF ApplyEngineStarted
    <2>2. KeepsMetrics(tx, StartBoot(tx, e))
      <3>1. InsertEvent(tx, e) \in Tables
        BY <1>1, <1>2, EventRow DEF TypeInv
      <3>2. /\ InsertEvent(tx, e).metrics = tx.metrics
            /\ InsertEvent(tx, e).dead = tx.dead
        BY <1>1 DEF InsertEvent, Tables
      <3>3. /\ StartBoot(tx, e).metrics = tx.metrics
            /\ StartBoot(tx, e).dead = tx.dead
        BY <3>1, <3>2 DEF StartBoot, EndOldBoot, Tables
      <3> QED BY <1>1, <3>3 DEF KeepsMetrics
    <2> QED BY <1>4, <2>1, <2>2 DEF Newest, Readable
  <1>8. CASE ApplyOpen
    <2>1. PICK e \in todo : /\ Current(e) /\ Readable(e, "open")
                            /\ Applied(e, OpenRow(tx, e), {})
      BY <1>8 DEF ApplyOpen
    <2>2. KeepsMetrics(tx, OpenRow(tx, e))
      BY <1>1 DEF OpenRow, Tables, KeepsMetrics
    <2> QED BY <1>4, <2>1, <2>2 DEF Newest, Readable
  <1>9. CASE ApplyClose
    <2>1. PICK e \in todo : /\ Current(e) /\ Readable(e, "close")
                            /\ Applied(e, CloseRow(tx, e), {})
      BY <1>9 DEF ApplyClose
    <2>2. KeepsMetrics(tx, CloseRow(tx, e))
      <3>1. LET d == [tx EXCEPT !.intervals[Msg(e).key].state = "closed"]
            IN  d.metrics = tx.metrics /\ d.dead = tx.dead
        BY <1>1 DEF Tables
      <3>2. KeepsMetrics(tx, [tx EXCEPT !.intervals[Msg(e).key].state = "closed"])
        BY <1>1, <3>1 DEF KeepsMetrics
      <3>3. KeepsMetrics(tx, tx)
        BY <1>1 DEF KeepsMetrics
      <3> QED BY <1>3, <3>2, <3>3 DEF CloseRow
    <2> QED BY <1>4, <2>1, <2>2 DEF Newest, Readable
  <1>10. CASE ApplyMetric
    <2>1. PICK e \in todo : /\ Current(e) /\ Readable(e, "metric")
                            /\ Applied(e, MetricRow(tx, e), {})
      BY <1>10 DEF ApplyMetric
    <2>2. /\ MetricRow(tx, e).dead = tx.dead
          /\ MetricRow(tx, e).metrics
                = [tx.metrics EXCEPT ![Msg(e).key] = stream[e]]
      BY <1>1 DEF MetricRow, Tables
    <2> QED BY <1>4, <2>1, <2>2 DEF Readable
  <1> QED
    BY <1>5, <1>6, <1>7, <1>8, <1>9, <1>10 DEF ApplyMessage

\* An applied metric is not older than one that counts already.
LEMMA NewerMetric ==
    ASSUME TypeInv, OrderInv, MetricInv, lostReads = 0, pc = "apply",
           NEW f \in todo, Msg(f).kind = "metric",
           NEW e \in 1 .. last, e \notin pel \cup gone, Msg(e).kind = "metric",
           Msg(e).key = Msg(f).key
    PROVE  stream[e] <= stream[f]
  <1>1. f \in work /\ f \in 1 .. last /\ f \in Unacked
    BY InStream DEF Unacked, Working
  <1>2. e \in 1 .. Len(stream) /\ f \in 1 .. Len(stream)
    BY <1>1, InStream
  <1>3. Lane(e) = Lane(f)
    <2>1. stream[e] \in 1 .. Len(Script) /\ stream[f] \in 1 .. Len(Script)
      BY <1>2 DEF TypeInv, TypeOK, RedisType
    <2>2. Msg(e).camera = Msg(f).camera
      BY <2>1, IdAssumption DEF Msg
    <2> QED BY <2>2 DEF Lane
  <1>4. ~(f < e)
    <2>1. SUFFICES ASSUME f < e PROVE FALSE
      OBVIOUS
    <2>2. f \in 1 .. e - 1
      BY <1>1, <2>1, InStream
    <2> QED BY <1>1, <1>3, <2>2 DEF OrderInv, AckInTurn
  <1>5. e <= f
    BY <1>1, <1>4, InStream
  <1> QED BY <1>2, <1>5 DEF MetricInv, StreamSorted

LEMMA ApplyKeepsMetrics ==
    ASSUME TypeInv, OrderInv, MetricInv, ApplyMessage
    PROVE  MetricInv'
  <1>1. /\ pc = "apply" /\ pc' = pc
        /\ UNCHANGED <<stream, last, pel, gone, lostReads, db, work>>
    BY ApplyMetrics
  <1>2. PICK f \in todo :
          /\ todo' = todo \ {f} /\ \A g \in todo : f <= g
          /\ \/ KeepsMetrics(tx, tx') /\ Newest(tx', f)
             \/ /\ Msg(f).kind = "metric" /\ tx'.dead = tx.dead
                /\ tx'.metrics = [tx.metrics EXCEPT ![Msg(f).key] = stream[f]]
    BY ApplyMetrics
  <1>3. /\ work \subseteq 1 .. Len(stream) /\ f \in work /\ f \in 1 .. Len(stream)
        /\ 1 .. last \subseteq 1 .. Len(stream)
    BY InStream
  <1>4. tx.metrics \in [Keys -> Nat] /\ Msg(f).key \in Keys /\ stream[f] \in Nat
    BY <1>3, MsgType DEF TypeInv, TypeOK, RowsType, Tables
  <1>5. ASSUME NEW e \in 1 .. Len(stream), Newest(tx, e),
               Msg(f).kind = "metric" /\ Msg(e).kind = "metric"
                  /\ Msg(e).key = Msg(f).key => stream[e] <= stream[f]
        PROVE  Newest(tx', e)
    <2>1. CASE KeepsMetrics(tx, tx')
      BY <1>5, <2>1, NewestKept
    <2>2. CASE /\ Msg(f).kind = "metric" /\ tx'.dead = tx.dead
               /\ tx'.metrics = [tx.metrics EXCEPT ![Msg(f).key] = stream[f]]
      <3>1. Msg(e).key \in Keys /\ stream[e] \in Nat
        BY <1>5, MsgType DEF TypeInv
      <3>2. CASE Msg(e).key = Msg(f).key
        BY <1>4, <1>5, <2>2, <3>1, <3>2 DEF Newest
      <3>3. CASE Msg(e).key # Msg(f).key
        BY <1>4, <1>5, <2>2, <3>1, <3>3 DEF Newest
      <3> QED BY <3>2, <3>3
    <2> QED BY <1>2, <2>1, <2>2
  <1>6. Newest(tx', f)
    BY <1>2, <1>4 DEF Newest
  <1>7. ASSUME lostReads = 0, NEW e \in 1 .. last, e \notin pel \cup gone
        PROVE  Newest(db, e) /\ Newest(tx', e)
    <2>1. Newest(db, e) /\ Newest(tx, e) /\ e \in 1 .. Len(stream)
      BY <1>1, <1>3, <1>7 DEF MetricInv, MetricsKept
    <2> QED BY <1>1, <1>5, <1>7, <2>1, NewerMetric
  <1>8. ASSUME NEW e \in work \ todo'
        PROVE  Newest(tx', e)
    <2>1. CASE e = f
      BY <1>6, <2>1
    <2>2. CASE e # f
      <3>1. e \in work \ todo /\ e \in 1 .. Len(stream)
        BY <1>2, <1>3, <1>8, <2>2
      <3>2. e < f /\ Newest(tx, e)
        BY <1>1, <3>1 DEF MetricInv, MetricsKept
      <3>3. stream[e] <= stream[f]
        BY <1>3, <3>1, <3>2 DEF MetricInv, StreamSorted
      <3> QED BY <1>5, <3>1, <3>2, <3>3
    <2> QED BY <2>1, <2>2
  <1>9. \A x \in work \ todo', y \in todo' : x < y
    <2>1. SUFFICES ASSUME NEW x \in work, x \notin todo \ {f},
                          NEW y \in todo \ {f}
                   PROVE  x < y
      BY <1>2
    <2>2. x \in Nat /\ y \in Nat /\ f \in Nat
      BY <1>3, InStream
    <2>3. CASE x = f
      BY <1>2, <2>2, <2>3
    <2>4. CASE x # f
      BY <1>1, <2>1, <2>4 DEF MetricInv, MetricsKept
    <2> QED BY <2>3, <2>4
  <1>10. MetricsKept'
    <2>1. \A e : (Newest(tx, e)' <=> Newest(tx', e))
                   /\ (Newest(db, e)' <=> Newest(db, e))
      BY <1>1 DEF Newest, Msg
    <2> QED BY <1>1, <1>7, <1>8, <1>9, <2>1 DEF MetricsKept
  <1>11. StreamSorted'
    BY <1>1 DEF MetricInv, StreamSorted
  <1> QED BY <1>10, <1>11 DEF MetricInv

\* What an entry adds to the pending list it takes off again only when its
\* value counts.
LEMMA MetricIdle ==
    ASSUME TypeInv, MetricInv, stream' = stream, lostReads' = 0 => lostReads = 0,
           KeepsMetrics(db, db'), last' \in 0 .. Len(stream),
           \A e \in 1 .. last' : e \notin pel' \cup gone' =>
              \/ e \in 1 .. last /\ e \notin pel \cup gone
              \/ e \in work /\ pc \in {"ack", "hdel"},
           pc' # "apply",
           pc' \in {"ack", "hdel"} => work' = work /\ pc \in {"ack", "hdel"}
    PROVE  MetricInv'
  <1>1. \A e : Newest(db, e)' <=> Newest(db', e)
    BY DEF Newest, Msg
  <1>2. \A e \in 1 .. Len(stream) : Newest(db, e) => Newest(db', e)
    BY NewestKept
  <1>3. ASSUME lostReads' = 0, NEW e \in 1 .. last', e \notin pel' \cup gone'
        PROVE  Newest(db', e)
    <2>1. e \in 1 .. Len(stream)
      BY InStream
    <2> QED BY <1>2, <1>3, <2>1 DEF MetricInv, MetricsKept
  <1>4. ASSUME pc' \in {"ack", "hdel"}, NEW e \in work'
        PROVE  Newest(db', e)
    BY <1>2, <1>4, InStream DEF MetricInv, MetricsKept
  <1>5. StreamSorted'
    BY DEF MetricInv, StreamSorted
  <1> QED BY <1>1, <1>3, <1>4, <1>5 DEF MetricInv, MetricsKept

LEMMA MetricCommit ==
    ASSUME TypeInv, MetricInv, Commit \/ CommitReplyLost \/ Bury
    PROVE  MetricInv'
  <1> USE DEF redisVars, envVars, Throw, Forget, txVars
  <1>1. /\ UNCHANGED <<stream, last, pel, gone, lostReads>>
        /\ pc' = "ack" => work' = work
        /\ pc' \in {"ack", "read"}
    BY DEF Commit, CommitReplyLost, Bury
  <1>2. /\ lostReads = 0 =>
             \A e \in 1 .. last : e \notin pel \cup gone => Newest(db', e)
        /\ \A e \in work : Newest(db', e)
    <2>1. CASE Commit \/ CommitReplyLost
      BY <2>1 DEF Commit, CommitReplyLost, MetricInv, MetricsKept
    <2>2. CASE Bury
      <3>1. PICK f \in work : db' = DeadLetter(db, f)
        BY <2>2 DEF Bury
      <3>2. work = {f} /\ f \in 1 .. Len(stream) /\ f \in Entries
        BY <2>2, <3>1, InStream, MsgType DEF Bury, TypeInv, Phases
      <3>3. db.dead \in [Entries -> Nat] /\ db \in Tables
        BY DEF TypeInv, TypeOK, RowsType, Tables
      <3>4. db'.metrics = db.metrics /\ db'.dead = [db.dead EXCEPT ![f] = @ + 1]
        BY <3>1, <3>3 DEF DeadLetter, Tables
      <3>5. KeepsMetrics(db, db') /\ db'.dead[f] # 0
        BY <3>2, <3>3, <3>4 DEF KeepsMetrics
      <3>6. \A e \in 1 .. Len(stream) : Newest(db, e) => Newest(db', e)
        BY <3>5, NewestKept
      <3>7. Newest(db', f)
        BY <3>5 DEF Newest
      <3> QED BY <3>2, <3>6, <3>7, InStream DEF MetricInv, MetricsKept
    <2> QED BY <2>1, <2>2
  <1>3. \A e : Newest(db, e)' <=> Newest(db', e)
    BY <1>1 DEF Newest, Msg
  <1>4. StreamSorted'
    BY <1>1 DEF MetricInv, StreamSorted
  <1> QED BY <1>1, <1>2, <1>3, <1>4 DEF MetricInv, MetricsKept

LEMMA XaddKeepsMetrics ==
    ASSUME TypeInv, MetricInv, Xadd
    PROVE  MetricInv'
  <1> USE DEF dbVars, envVars, historyVars
  <1>1. PICK p \in 1 .. Len(Script) :
            /\ Len(stream) > 0 => stream[Len(stream)] <= p
            /\ stream' = Append(stream, p)
    BY DEF Xadd
  <1>2. /\ Len(stream) \in Nat /\ Len(stream') = Len(stream) + 1
        /\ stream'[Len(stream) + 1] = p /\ p \in Nat
        /\ \A e \in 1 .. Len(stream) : stream'[e] = stream[e] /\ stream[e] \in Nat
    BY <1>1 DEF TypeInv, TypeOK, RedisType
  <1>3. StreamSorted'
    <2>1. SUFFICES ASSUME NEW a \in 1 .. Len(stream) + 1,
                          NEW b \in 1 .. Len(stream) + 1, a <= b
                   PROVE  stream'[a] <= stream'[b]
      BY <1>2 DEF StreamSorted
    <2>2. CASE b <= Len(stream)
      BY <1>2, <2>1, <2>2 DEF MetricInv, StreamSorted
    <2>3. CASE b = Len(stream) + 1 /\ a <= Len(stream)
      <3>1. Len(stream) > 0 /\ Len(stream) \in 1 .. Len(stream)
            /\ a \in 1 .. Len(stream)
        BY <1>2, <2>1, <2>3
      <3>2. stream[a] <= stream[Len(stream)]
        BY <3>1 DEF MetricInv, StreamSorted
      <3> QED BY <1>1, <1>2, <2>3, <3>1, <3>2
    <2>4. CASE b = Len(stream) + 1 /\ a = Len(stream) + 1
      BY <1>2, <2>4
    <2> QED BY <1>2, <2>1, <2>2, <2>3, <2>4
  <1>4. \A e \in 1 .. Len(stream) : Newest(db, e)' <=> Newest(db, e)
    BY <1>2 DEF Xadd, Newest, Msg
  <1>5. MetricsKept'
    BY <1>4, InStream DEF Xadd, Reading, MetricInv, MetricsKept
  <1> QED BY <1>3, <1>5 DEF MetricInv

LEMMA MetricStep ==
    TypeInv /\ SettledInv /\ OrderInv /\ MetricInv /\ [Next]_vars => MetricInv'
  <1> SUFFICES ASSUME TypeInv, SettledInv, OrderInv, MetricInv, [Next]_vars
               PROVE  MetricInv'
    OBVIOUS
  <1> USE DEF redisVars, dbVars, batchVars, passVars, txVars, envVars,
              historyVars, Throw, Forget, Process
  <1>0. /\ lostReads \in Nat /\ last \in 0 .. Len(stream)
        /\ db \in Tables /\ db.dead \in [Entries -> Nat]
    BY DEF TypeInv, TypeOK, RedisType, HistoryType, RowsType, Tables
  <1>00. KeepsMetrics(db, db)
    BY <1>0 DEF KeepsMetrics
  <1>1. CASE ApplyMessage
    BY <1>1, ApplyKeepsMetrics
  <1>2. CASE Commit \/ CommitReplyLost \/ Bury
    BY <1>2, MetricCommit
  <1>3. CASE Xadd
    BY <1>3, XaddKeepsMetrics
  <1>4. CASE BeginTx
    <2>1. /\ UNCHANGED <<stream, last, pel, gone, lostReads, db, work>>
          /\ pc' = "apply" /\ tx' = db /\ todo' = work
      BY <1>4 DEF BeginTx
    <2>2. \A e : /\ Newest(db, e)' <=> Newest(db, e)
                 /\ Newest(tx, e)' <=> Newest(db, e)
      BY <2>1 DEF Newest, Msg
    <2>3. StreamSorted'
      BY <2>1 DEF MetricInv, StreamSorted
    <2> QED BY <2>1, <2>2, <2>3 DEF MetricInv, MetricsKept
  <1>5. CASE RemoveCamera \/ UNCHANGED vars
    <2>1. UNCHANGED <<stream, last, pel, gone, lostReads, db, tx, work, todo, pc>>
      BY <1>5 DEF RemoveCamera, vars
    <2>2. \A e : /\ Newest(db, e)' <=> Newest(db, e)
                 /\ Newest(tx, e)' <=> Newest(tx, e)
      BY <2>1 DEF Newest, Msg
    <2>3. StreamSorted'
      BY <2>1 DEF MetricInv, StreamSorted
    <2> QED BY <2>1, <2>2, <2>3 DEF MetricInv, MetricsKept
  <1>6. CASE ReadNew \/ ResentRead \/ ReadReplyLost
    <2>1. /\ Deliver(FirstOf(Undelivered, Count))
          /\ UNCHANGED <<db, gone>> /\ pc' \in {"begin", "resent"}
          /\ lostReads' = 0 => lostReads = 0
      BY <1>0, <1>6 DEF ReadNew, ResentRead, ReadReplyLost
    <2>2. pel' = pel \cup FirstOf(Undelivered, Count) /\ stream' = stream
      BY <2>1 DEF Deliver
    <2>3. /\ last' \in Nat /\ last' > last
          /\ \A b \in (last + 1) .. last' :
                b \in FirstOf(Undelivered, Count) \cup gone
      BY <2>1, NonePassedOver DEF SettledInv
    <2>4. last' \in 0 .. Len(stream)
      <3>1. last' \in last .. Len(stream)
        BY <2>1, DeliverType DEF TypeInv
      <3> QED BY <3>1, InStream
    <2>5. ASSUME NEW e \in 1 .. last', e \notin pel' \cup gone'
          PROVE  e \in 1 .. last /\ e \notin pel \cup gone
      <3>1. ~(e > last)
        BY <2>1, <2>2, <2>3, <2>5, InStream
      <3> QED BY <2>1, <2>2, <2>3, <2>5, <3>1, InStream
    <2> QED BY <1>00, <2>1, <2>2, <2>4, <2>5, MetricIdle
  <1>7. CASE BuryFails
    <2>1. /\ UNCHANGED <<stream, last, pel, gone, lostReads>> /\ pc' = "read"
          /\ db' = db \/ \E e \in work : db' = DeadLetter(db, e)
      BY <1>7 DEF BuryFails
    <2>2. KeepsMetrics(db, db')
      <3>1. ASSUME NEW e \in work, db' = DeadLetter(db, e)
            PROVE  KeepsMetrics(db, db')
        <4>1. /\ db'.metrics = db.metrics
              /\ db'.dead = [db.dead EXCEPT ![e] = @ + 1]
          BY <1>0, <3>1 DEF DeadLetter, Tables
        <4>2. e \in Entries
          BY InStream, MsgType DEF TypeInv
        <4> QED BY <1>0, <4>1, <4>2 DEF KeepsMetrics
      <3> QED BY <1>00, <2>1, <3>1
    <2> QED BY <1>0, <2>1, <2>2, MetricIdle
  <1>8. CASE RedisLosesData
    <2>1. /\ UNCHANGED <<stream, db, pc, work, lostReads>> /\ pc # "apply"
          /\ last' = Len(stream) /\ gone' = gone \cup Undelivered \cup pel
      BY <1>8 DEF RedisLosesData, Reading
    <2>2. ASSUME NEW e \in 1 .. last', e \notin gone'
          PROVE  e \in 1 .. last /\ e \notin pel \cup gone
      <3>1. e \notin Undelivered /\ e \notin pel \cup gone
        BY <2>1, <2>2
      <3>2. e <= last
        BY <2>1, <2>2, <3>1, InStream DEF Undelivered, SettledInv, TrimmedIsGone
      <3> QED BY <2>1, <2>2, <3>1, <3>2, InStream
    <2>3. last' \in 0 .. Len(stream)
      BY <2>1, InStream
    <2> QED BY <1>00, <2>1, <2>2, <2>3, MetricIdle
  <1>9. CASE Xack \/ XackFails \/ Hdel \/ HdelFails
    <2>1. /\ UNCHANGED <<stream, last, gone, lostReads, db>>
          /\ pel \ pel' \subseteq work /\ pc \in {"ack", "hdel"}
          /\ pc' # "apply"
          /\ pc' \in {"ack", "hdel"} => work' = work
      BY <1>9 DEF Xack, XackFails, Hdel, HdelFails
    <2> QED BY <1>0, <1>00, <2>1, MetricIdle
  <1>10. CASE \/ CreateGroup \/ NoGroup \/ ReadPending \/ ResentEmpty
              \/ TxFault \/ TryEntry \/ SkipEntry \/ PassDone \/ CountFailure
              \/ TxTransient \/ CountFails \/ Crash \/ Trim
    <2>1. /\ UNCHANGED <<stream, last, lostReads, db, pel>> /\ gone \subseteq gone'
          /\ pc' \notin {"apply", "ack", "hdel"}
      BY <1>10
      DEF CreateGroup, NoGroup, ReadPending, ResentEmpty, TxFault, TryEntry,
          SkipEntry, Each, PassDone, CountFailure, TxTransient, CountFails,
          Crash, Trim, Reading
    <2> QED BY <1>0, <1>00, <2>1, MetricIdle
  <1> QED
    BY <1>1, <1>2, <1>3, <1>4, <1>5, <1>6, <1>7, <1>8, <1>9, <1>10
    DEF Next, Consumer, Failing, Environment

LEMMA MetricInit == Init => MetricInv
  <1> SUFFICES ASSUME Init PROVE MetricInv
    OBVIOUS
  <1>1. stream = <<>> /\ last = 0 /\ pc = "group"
    BY DEF Init
  <1>2. StreamSorted
    BY <1>1 DEF StreamSorted
  <1> QED BY <1>1, <1>2 DEF MetricInv, MetricsKept

\* Once everything is acknowledged, a metric row holds the newest value that
\* was neither dead-lettered nor lost, redeliveries and retries included.
THEOREM NewestMetricStays == Spec => []MetricIsLatest
  <1>1. TypeInv /\ SettledInv /\ MetricInv => MetricIsLatest
    <2> SUFFICES ASSUME TypeInv, SettledInv, MetricInv, Drained, lostReads = 0,
                        NEW e \in 1 .. Len(stream), Msg(e).kind = "metric",
                        e \notin gone, db.dead[e] = 0
                 PROVE  db.metrics[Msg(e).key] >= stream[e]
      BY DEF MetricIsLatest
    <2>1. e \in 1 .. last
      BY InStream DEF Drained, Undelivered, SettledInv, TrimmedIsGone
    <2>2. Newest(db, e)
      BY <2>1 DEF Drained, MetricInv, MetricsKept
    <2> QED BY <2>2 DEF Newest
  <1> QED
    BY <1>1, MetricInit, SettledInit, OrderInit, TypeInit, TypeStep, SettledStep,
       OrderStep, MetricStep, PTL DEF Spec

-----------------------------------------------------------------------------
(* A restart splits the intervals of two boots.                            *)

\* Message p is an engine_started that the tables d hold.
Started(d, p) ==
    Script[p].kind = "engine_started" /\ Script[p].key \in d.events

\* An interval starts with the open that made it; a restart that ended it is
\* stored and came later.
IntervalRows(d) ==
    \A s \in Keys : d.intervals[s].state # "none" =>
        LET start == d.intervals[s].start IN
        /\ start \in 1 .. Len(Script)
        /\ Script[start].kind = "open" /\ Script[start].key = s
        /\ d.intervals[s].state = "restarted" =>
             \E q \in start .. Len(Script) : Started(d, q)

\* What an engine_started leaves open was opened after it.
Splits(d) ==
    \A p \in 1 .. Len(Script) : Started(d, p) =>
        \A s \in GroupSessions :
            d.intervals[s].state = "open" => d.intervals[s].start > p

\* The entry cannot open an interval any more: there is one, the entry has
\* no message left, or its camera is deleted.
Unreadable(b) == IF b \in batch THEN b \in blank ELSE b <= trimmed
Shut(b) == Unreadable(b) \/ Msg(b).camera \notin cameras \cup {NoCamera}
NeverOpens(d, b) == d.intervals[Msg(b).key].state # "none" \/ Shut(b)

\* No entry of S is the open of a boot that d holds the end of.
OpensBefore(d, S) ==
    \A p \in 1 .. Len(Script) : Started(d, p) =>
        \A b \in S : Msg(b).kind = "open" /\ stream[b] < p => NeverOpens(d, b)

BootRows ==
    /\ IntervalRows(db)
    /\ \A p \in 1 .. Len(Script) : Started(db, p) =>
         \E a \in 1 .. last : stream[a] = p
    /\ blank \subseteq 1 .. trimmed
    /\ lostReads = 0 => Splits(db) /\ OpensBefore(db, pel \cup Unacked)

BootTx ==
    pc = "apply" =>
        /\ cameras \subseteq known /\ IntervalRows(tx)
        /\ \A s \in Keys : db.intervals[s].state # "none" =>
             tx.intervals[s].state # "none"
        /\ \A p \in 1 .. Len(Script) : Started(tx, p) =>
             Started(db, p) \/ \E a \in work \ todo : stream[a] = p
        /\ \A b \in work \ todo : Msg(b).kind = "open" => NeverOpens(tx, b)
        /\ lostReads = 0 => Splits(tx) /\ OpensBefore(tx, todo)

BootInv == BootRows /\ BootTx

\* What applying entry e does to the intervals and the restarts of the tables.
Effect(d, e) ==
    /\ \A s \in Keys : tx.intervals[s].state # "none" =>
         /\ d.intervals[s].state # "none"
         /\ d.intervals[s].start = tx.intervals[s].start
    /\ \A s \in Keys : d.intervals[s].state # "none" =>
         \/ tx.intervals[s].state # "none"
         \/ /\ d.intervals[s] = [state |-> "open", start |-> stream[e]]
            /\ Msg(e).kind = "open" /\ Msg(e).key = s /\ ~NeverOpens(tx, e)
    /\ \A s \in Keys : d.intervals[s].state = "open" =>
         tx.intervals[s].state \in {"open", "none"}
    /\ \A s \in Keys : d.intervals[s].state = "restarted" =>
         \/ tx.intervals[s].state = "restarted"
         \/ /\ tx.intervals[s].state = "open"
            /\ tx.intervals[s].start <= stream[e] /\ Started(d, stream[e])
    /\ \A p \in 1 .. Len(Script) : Started(tx, p) => Started(d, p)
    /\ \A p \in 1 .. Len(Script) : Started(d, p) =>
         \/ Started(tx, p)
         \/ /\ stream[e] = p
            /\ \A s \in GroupSessions : d.intervals[s].state = "open" =>
                 d.intervals[s].start > p
    /\ Msg(e).kind = "open" => NeverOpens(d, e)

\* What leaves both alone.
LEMMA NoEffect ==
    ASSUME TypeInv, NEW e \in todo, NEW d, d.intervals = tx.intervals,
           \A p \in 1 .. Len(Script) : Started(d, p) <=> Started(tx, p),
           Msg(e).kind = "open" => NeverOpens(d, e)
    PROVE  Effect(d, e)
  BY DEF Effect

LEMMA SessionsAreKeys == GroupSessions \subseteq Keys
  <1>1. \A p \in 1 .. Len(Script) : Script[p].key \in Keys
    <2>1. TAKE p \in 1 .. Len(Script)
    <2>2. Script[p] \in Message
      BY ScriptAssumption
    <2> QED BY <2>2 DEF Message
  <1> QED BY <1>1 DEF GroupSessions

\* An engine_started's first delivery.
LEMMA BootEffect ==
    ASSUME TypeInv, NEW e \in todo, Msg(e).kind = "engine_started",
           Inserted(tx, e) # {}
    PROVE  Effect(StartBoot(tx, e), e)
  <1> DEFINE d == StartBoot(tx, e)
             i == InsertEvent(tx, e)
  <1>1. /\ tx \in Tables /\ e \in 1 .. Len(stream) /\ stream[e] \in 1 .. Len(Script)
    BY InStream DEF TypeInv, TypeOK, RowsType, RedisType
  <1>2. i \in Tables /\ i.intervals = tx.intervals
        /\ i.events = tx.events \cup {Msg(e).key}
    BY <1>1, EventRow DEF InsertEvent, Tables, TypeInv
  <1>3. /\ d.events = tx.events \cup {Msg(e).key}
        /\ d.intervals = [s \in Keys |->
              IF /\ s \in GroupSessions
                 /\ tx.intervals[s].state = "open"
                 /\ tx.intervals[s].start <= stream[e]
              THEN [tx.intervals[s] EXCEPT !.state = "restarted"]
              ELSE tx.intervals[s]]
    BY <1>2 DEF StartBoot, EndOldBoot, Tables
  <1>4. \A s \in Keys : tx.intervals[s] \in Interval
    BY <1>1 DEF Tables
  <1>5. \A s \in Keys :
          \/ d.intervals[s] = tx.intervals[s]
             /\ ~ (/\ s \in GroupSessions /\ tx.intervals[s].state = "open"
                   /\ tx.intervals[s].start <= stream[e])
          \/ /\ d.intervals[s].state = "restarted"
             /\ d.intervals[s].start = tx.intervals[s].start
             /\ tx.intervals[s].state = "open"
             /\ tx.intervals[s].start <= stream[e]
    <2> HIDE DEF d
    <2> QED BY <1>3, <1>4 DEF Interval
  <1>6. Script[stream[e]].kind = "engine_started" /\ Script[stream[e]].key \in d.events
    <2> HIDE DEF d
    <2> QED BY <1>3 DEF Msg
  <1>7. GroupSessions \subseteq Keys
    BY SessionsAreKeys
  <1>8. \A s \in Keys : tx.intervals[s].start \in Nat
    BY <1>4 DEF Interval
  <1> HIDE DEF d
  <1>9. \A p \in 1 .. Len(Script) : Started(d, p) => Started(tx, p) \/ stream[e] = p
    <2>1. SUFFICES ASSUME NEW p \in 1 .. Len(Script), Started(d, p), ~Started(tx, p)
                   PROVE  stream[e] = p
      OBVIOUS
    <2>2. /\ Script[p].key = Script[stream[e]].key
          /\ Script[p].kind = "engine_started"
          /\ Script[stream[e]].kind = "engine_started"
      BY <1>3, <1>6, <2>1 DEF Started, Msg
    <2>3. {Script[p].kind, Script[stream[e]].kind} \subseteq {"event", "engine_started"}
      BY <2>2
    <2> QED BY <1>1, <2>2, <2>3, IdAssumption
  <1>10. \A p \in 1 .. Len(Script) : Started(tx, p) => Started(d, p)
    BY <1>3 DEF Started
  <1>11. Started(d, stream[e])
    BY <1>6 DEF Started
  <1>12. \A s \in GroupSessions : d.intervals[s].state = "open" =>
            d.intervals[s].start > stream[e]
    BY <1>1, <1>5, <1>7, <1>8
  <1> QED BY <1>5, <1>9, <1>10, <1>11, <1>12 DEF Effect, d

\* An open that makes a row, or finds it.
LEMMA OpenEffect ==
    ASSUME TypeInv, NEW e \in todo, Readable(e, "open"), CameraKnown(e)
    PROVE  Effect(OpenRow(tx, e), e)
  <1>1. /\ tx \in Tables /\ e \in 1 .. Len(stream) /\ e \in batch
        /\ Msg(e).key \in Keys
    BY InStream, MsgType DEF TypeInv, TypeOK, RowsType, LoopType
  <1>2. OpenRow(tx, e).events = tx.events
    BY <1>1 DEF OpenRow, Tables
  <1>3. \A p : Started(OpenRow(tx, e), p) <=> Started(tx, p)
    BY <1>2 DEF Started
  <1>4. CASE tx.intervals[Msg(e).key].state # "none"
    <2>1. OpenRow(tx, e) = tx
      BY <1>4 DEF OpenRow
    <2> QED BY <1>4, <2>1, NoEffect DEF NeverOpens
  <1>5. CASE tx.intervals[Msg(e).key].state = "none"
    <2> DEFINE d == OpenRow(tx, e)
    <2>1. d.intervals = [tx.intervals EXCEPT ![Msg(e).key] =
                            [state |-> "open", start |-> stream[e]]]
      BY <1>1, <1>5 DEF OpenRow, Tables
    <2>2. tx.intervals \in [Keys -> Interval]
      BY <1>1 DEF Tables
    <2> HIDE DEF d
    <2>3. /\ d.intervals[Msg(e).key] = [state |-> "open", start |-> stream[e]]
          /\ \A s \in Keys \ {Msg(e).key} : d.intervals[s] = tx.intervals[s]
      BY <1>1, <2>1, <2>2
    <2>4. ~NeverOpens(tx, e)
      BY <1>1, <1>5 DEF NeverOpens, Shut, Unreadable, Readable, CameraKnown
    <2>5. NeverOpens(d, e)
      BY <2>3 DEF NeverOpens
    <2>6. \A p : Started(d, p) <=> Started(tx, p)
      BY <1>3 DEF d
    <2> QED
      BY <1>5, <2>3, <2>4, <2>5, <2>6 DEF Effect, Readable, d
  <1> QED BY <1>4, <1>5

LEMMA CloseEffect ==
    ASSUME TypeInv, NEW e \in todo, Readable(e, "close")
    PROVE  Effect(CloseRow(tx, e), e)
  <1>1. /\ tx \in Tables /\ e \in 1 .. Len(stream) /\ Msg(e).key \in Keys
    BY InStream, MsgType DEF TypeInv, TypeOK, RowsType
  <1>2. Msg(e).kind # "open"
    BY DEF Readable
  <1>3. CASE tx.intervals[Msg(e).key].state = "open"
    <2> DEFINE d == [tx EXCEPT !.intervals[Msg(e).key].state = "closed"]
    <2>1. CloseRow(tx, e) = d
      BY <1>3 DEF CloseRow
    <2>2. /\ d.intervals = [tx.intervals EXCEPT ![Msg(e).key].state = "closed"]
          /\ d.events = tx.events
      BY <1>1 DEF Tables
    <2>3. tx.intervals \in [Keys -> Interval]
      BY <1>1 DEF Tables
    <2>4. /\ d.intervals[Msg(e).key]
                = [tx.intervals[Msg(e).key] EXCEPT !.state = "closed"]
          /\ \A s \in Keys \ {Msg(e).key} : d.intervals[s] = tx.intervals[s]
      <3> HIDE DEF d
      <3> QED BY <1>1, <2>2, <2>3
    <2>5. /\ d.intervals[Msg(e).key].state = "closed"
          /\ d.intervals[Msg(e).key].start = tx.intervals[Msg(e).key].start
      <3>1. tx.intervals[Msg(e).key] \in Interval
        BY <1>1, <2>3
      <3> HIDE DEF d
      <3> QED BY <2>4, <3>1 DEF Interval
    <2>6. \A p : Started(d, p) <=> Started(tx, p)
      BY <2>2 DEF Started
    <2> HIDE DEF d
    <2> QED BY <1>2, <1>3, <2>1, <2>4, <2>5, <2>6 DEF Effect
  <1>4. CASE tx.intervals[Msg(e).key].state # "open"
    <2>1. CloseRow(tx, e) \in {tx, DeadLetter(tx, e)}
      BY <1>4 DEF CloseRow
    <2>2. /\ DeadLetter(tx, e).intervals = tx.intervals
          /\ DeadLetter(tx, e).events = tx.events
      BY <1>1 DEF DeadLetter, Tables
    <2> QED BY <1>2, <2>1, <2>2, NoEffect DEF Started
  <1> QED BY <1>3, <1>4

LEMMA ApplyEffect ==
    ASSUME TypeInv, BootInv, ApplyMessage
    PROVE  /\ pc = "apply" /\ pc' = pc
           /\ UNCHANGED <<stream, trimmed, last, pel, gone, lostReads, db, cameras,
                          known, batch, blank, rest, work>>
           /\ \E e \in todo :
                /\ todo' = todo \ {e} /\ \A f \in todo : e <= f
                /\ Effect(tx', e)
  <1> USE DEF redisVars, dbVars, batchVars, passVars, envVars, historyVars, Applied
  <1>1. tx \in Tables /\ \A e \in todo : e \in 1 .. Len(stream) /\ e \in batch
    BY InStream DEF TypeInv, TypeOK, RowsType, LoopType
  <1>2. ASSUME NEW e \in todo, NEW d, Current(e),
               Applied(e, d, {}) \/ Applied(e, d, Inserted(tx, e)), Effect(d, e)
        PROVE  /\ pc = "apply" /\ pc' = pc
               /\ UNCHANGED <<stream, trimmed, last, pel, gone, lostReads, db,
                              cameras, known, batch, blank, rest, work>>
               /\ \E f \in todo :
                    /\ todo' = todo \ {f} /\ \A g \in todo : f <= g
                    /\ Effect(tx', f)
    BY <1>2 DEF Current
  <1>3. \A e : /\ DeadLetter(tx, e).intervals = tx.intervals
               /\ DeadLetter(tx, e).events = tx.events
    BY <1>1 DEF DeadLetter, Tables
  <1>4. CASE ApplyUnreadable \/ ApplyUnknownCamera
    <2>1. PICK e \in todo :
            /\ Current(e) /\ Applied(e, DeadLetter(tx, e), {})
            /\ \/ e \in blank \/ Msg(e).kind = "invalid"
               \/ Msg(e).camera \notin known \cup {NoCamera}
      BY <1>4 DEF ApplyUnreadable, ApplyUnknownCamera
    <2>2. Msg(e).kind = "open" => NeverOpens(DeadLetter(tx, e), e)
      BY <1>1, <2>1 DEF NeverOpens, Shut, Unreadable, BootInv, BootTx, Current
    <2> QED BY <1>2, <1>3, <2>1, <2>2, NoEffect DEF Started
  <1>5. CASE ApplyEvent
    <2>1. PICK e \in todo : /\ Current(e) /\ Readable(e, "event")
                            /\ Applied(e, InsertEvent(tx, e), Inserted(tx, e))
      BY <1>5 DEF ApplyEvent
    <2>2. /\ InsertEvent(tx, e).intervals = tx.intervals
          /\ InsertEvent(tx, e).events = tx.events \cup {Msg(e).key}
      BY <1>1 DEF InsertEvent, Tables
    <2>3. \A p \in 1 .. Len(Script) :
            Started(InsertEvent(tx, e), p) <=> Started(tx, p)
      <3>1. SUFFICES ASSUME NEW p \in 1 .. Len(Script),
                            Script[p].kind = "engine_started",
                            Script[p].key = Msg(e).key
                     PROVE  FALSE
        BY <2>2 DEF Started
      <3>2. stream[e] \in 1 .. Len(Script)
        BY <1>1 DEF TypeInv, TypeOK, RedisType
      <3>3. /\ Script[stream[e]].kind = "event"
            /\ Script[p].key = Script[stream[e]].key
        BY <2>1, <3>1 DEF Readable, Msg
      <3>4. {Script[p].kind, Script[stream[e]].kind} \subseteq {"event", "engine_started"}
        BY <3>1, <3>3
      <3>5. p = stream[e]
        BY <3>2, <3>3, <3>4, IdAssumption
      <3> QED BY <3>1, <3>3, <3>5
    <2>4. Msg(e).kind # "open"
      BY <2>1 DEF Readable
    <2> QED BY <1>2, <2>1, <2>2, <2>3, <2>4, NoEffect
  <1>6. CASE ApplyEngineStarted
    <2>1. PICK e \in todo : /\ Current(e) /\ Readable(e, "engine_started")
                            /\ Applied(e, StartBoot(tx, e), Inserted(tx, e))
      BY <1>6 DEF ApplyEngineStarted
    <2>2. CASE Inserted(tx, e) = {}
      <3>1. StartBoot(tx, e) = tx
        BY <2>2 DEF StartBoot
      <3> QED BY <1>2, <2>1, <3>1, NoEffect DEF Readable
    <2>3. CASE Inserted(tx, e) # {}
      BY <1>2, <2>1, <2>3, BootEffect DEF Readable
    <2> QED BY <2>2, <2>3
  <1>7. CASE ApplyOpen
    BY <1>2, <1>7, OpenEffect DEF ApplyOpen
  <1>8. CASE ApplyClose
    BY <1>2, <1>8, CloseEffect DEF ApplyClose
  <1>9. CASE ApplyMetric
    <2>1. PICK e \in todo : /\ Current(e) /\ Readable(e, "metric")
                            /\ Applied(e, MetricRow(tx, e), {})
      BY <1>9 DEF ApplyMetric
    <2>2. /\ MetricRow(tx, e).intervals = tx.intervals
          /\ MetricRow(tx, e).events = tx.events
      BY <1>1 DEF MetricRow, Tables
    <2> QED BY <1>2, <2>1, <2>2, NoEffect DEF Started, Readable
  <1> QED
    BY <1>4, <1>5, <1>6, <1>7, <1>8, <1>9 DEF ApplyMessage

\* An entry that cannot open an interval stays one.
LEMMA ShutStays ==
    ASSUME TypeInv, stream' = stream \/ Xadd, cameras' \subseteq cameras,
           blank \subseteq 1 .. trimmed, trimmed' \in Nat, trimmed <= trimmed',
           \/ batch' = {}
           \/ batch' = batch /\ blank' = blank
           \/ batch = {} /\ blank' = {e \in batch' : e <= trimmed'},
           NEW b \in 1 .. Len(stream), Shut(b)
    PROVE  Shut(b)'
  <1>1. Msg(b)' = Msg(b)
    BY SameMessages
  <1>2. CASE Unreadable(b)
    <2>1. b <= trimmed'
      <3>1. b <= trimmed
        BY <1>2, InStream DEF Unreadable
      <3> QED BY <3>1, InStream
    <2>2. Unreadable(b)'
      BY <1>2, <2>1 DEF Unreadable
    <2> QED BY <2>2 DEF Shut
  <1>3. CASE Msg(b).camera \notin cameras \cup {NoCamera}
    BY <1>1, <1>3 DEF Shut
  <1> QED BY <1>2, <1>3 DEF Shut

\* The entries still to be acknowledged were delivered.
LEMMA UnackedDelivered ==
    ASSUME TypeInv, NEW b \in pel \cup Unacked
    PROVE  b \in 1 .. last /\ b \in 1 .. Len(stream)
  BY InStream DEF Unacked, TypeInv, TypeOK, RedisType, LoopType

\* What leaves the intervals and the events of the tables alone, and brings
\* back no entry that was acknowledged.
LEMMA RowsIdle ==
    ASSUME TypeInv, StreamSorted, BootRows,
           db'.intervals = db.intervals, db'.events = db.events,
           stream' = stream \/ Xadd, last' \in Nat, last <= last',
           blank' \subseteq 1 .. trimmed', lostReads' = 0 => lostReads = 0,
           \A b \in pel' \cup Unacked' :
              \/ b \in pel \cup Unacked /\ (Shut(b) => Shut(b)')
              \/ b \in 1 .. Len(stream) /\ b > last
    PROVE  BootRows'
  <1>1. \A p : Started(db, p)' <=> Started(db, p)
    BY DEF Started
  <1>2. IntervalRows(db)' /\ (lostReads' = 0 => Splits(db)')
    BY <1>1 DEF BootRows, IntervalRows, Splits
  <1>3. \A a \in 1 .. last : a \in 1 .. last' /\ stream'[a] = stream[a]
    BY SameMessages, InStream
  <1>4. \A p \in 1 .. Len(Script) : Started(db, p)' =>
            \E a \in 1 .. last' : stream'[a] = p
    BY <1>1, <1>3 DEF BootRows
  <1>5. ASSUME lostReads = 0, NEW p \in 1 .. Len(Script), Started(db, p),
               NEW b \in pel' \cup Unacked',
               Msg(b)'.kind = "open", stream'[b] < p
        PROVE  NeverOpens(db, b)'
    <2>1. CASE b \in pel \cup Unacked /\ (Shut(b) => Shut(b)')
      <3>1. Msg(b)' = Msg(b) /\ stream'[b] = stream[b]
        BY <2>1, UnackedDelivered, SameMessages
      <3>2. NeverOpens(db, b)
        BY <1>5, <2>1, <3>1 DEF BootRows, OpensBefore
      <3> QED BY <2>1, <3>1, <3>2 DEF NeverOpens
    <2>2. CASE b \in 1 .. Len(stream) /\ b > last
      <3>1. PICK a \in 1 .. last : stream[a] = p
        BY <1>5 DEF BootRows
      <3>2. a \in 1 .. Len(stream) /\ a <= b /\ stream'[b] = stream[b]
        BY <2>2, SameMessages, InStream
      <3>3. stream[a] <= stream[b]
        BY <2>2, <3>2 DEF StreamSorted
      <3>4. stream[b] \in Nat
        BY <2>2, MsgType DEF TypeInv
      <3> QED BY <1>5, <3>1, <3>2, <3>3, <3>4
    <2> QED BY <1>5, <2>1, <2>2
  <1>6. lostReads' = 0 => OpensBefore(db, pel \cup Unacked)'
    BY <1>1, <1>5 DEF OpensBefore
  <1> QED BY <1>2, <1>4, <1>6 DEF BootRows

\* Inside a transaction only its own entries change its tables.
LEMMA TxIdle ==
    ASSUME TypeInv, BootTx,
           UNCHANGED <<stream, trimmed, batch, blank, work, db, lostReads>>,
           blank \subseteq 1 .. trimmed, cameras' \subseteq cameras,
           \/ /\ pc = "begin" /\ tx' = db /\ known' = cameras /\ todo' = work
              /\ cameras' = cameras /\ BootRows
           \/ UNCHANGED <<pc, tx, todo, known>>
    PROVE  BootTx'
  <1>1. \A b \in work : b \in 1 .. Len(stream) /\ (Shut(b) => Shut(b)')
    BY ShutStays, InStream
  <1>2. \A b : Msg(b)' = Msg(b)
    BY DEF Msg
  <1>3. CASE pc = "begin" /\ tx' = db /\ known' = cameras /\ todo' = work
             /\ cameras' = cameras /\ BootRows
    <2>1. \A p : Started(tx, p)' <=> Started(db, p)
      BY <1>3 DEF Started
    <2>2. IntervalRows(tx)' /\ (lostReads = 0 => Splits(tx)')
      BY <1>3, <2>1 DEF BootRows, IntervalRows, Splits
    <2>3. \A b \in work : NeverOpens(db, b) => NeverOpens(tx, b)'
      BY <1>1, <1>2, <1>3 DEF NeverOpens
    <2>4. lostReads = 0 => OpensBefore(tx, todo)'
      <3>1. work \subseteq Unacked
        BY <1>3 DEF Unacked, Working
      <3> QED BY <1>2, <1>3, <2>1, <2>3, <3>1 DEF BootRows, OpensBefore
    <2>5. \A p : Started(db, p)' <=> Started(db, p)
      BY DEF Started
    <2>6. (\A p \in 1 .. Len(Script) : Started(tx, p) =>
             Started(db, p) \/ \E a \in work \ todo : stream[a] = p)'
      BY <2>1, <2>5
    <2>7. (work \ todo)' = {}
      BY <1>3
    <2> QED BY <1>3, <2>2, <2>4, <2>6, <2>7 DEF BootTx
  <1>4. CASE UNCHANGED <<pc, tx, todo, known>>
    <2> SUFFICES ASSUME pc' = "apply" PROVE BootTx'
      BY DEF BootTx
    <2>1. \A p : /\ Started(tx, p)' <=> Started(tx, p)
                 /\ Started(db, p)' <=> Started(db, p)
      BY <1>4 DEF Started
    <2>2. IntervalRows(tx)' /\ (lostReads = 0 => Splits(tx)')
      BY <1>4, <2>1 DEF BootTx, IntervalRows, Splits
    <2>3. \A b \in work : NeverOpens(tx, b) => NeverOpens(tx, b)'
      BY <1>1, <1>2, <1>4 DEF NeverOpens
    <2>4. lostReads = 0 => OpensBefore(tx, todo)'
      BY <1>2, <1>4, <2>1, <2>3, InStream DEF BootTx, OpensBefore
    <2>5. (\A p \in 1 .. Len(Script) : Started(tx, p) =>
             Started(db, p) \/ \E a \in work \ todo : stream[a] = p)'
      BY <1>4, <2>1 DEF BootTx
    <2>6. (\A b \in work \ todo : Msg(b).kind = "open" => NeverOpens(tx, b))'
      BY <1>2, <1>4, <2>3 DEF BootTx
    <2>7. (cameras \subseteq known)'
          /\ (\A s \in Keys : db.intervals[s].state # "none" =>
                tx.intervals[s].state # "none")'
      BY <1>4 DEF BootTx
    <2> QED BY <2>2, <2>4, <2>5, <2>6, <2>7 DEF BootTx
  <1> QED BY <1>3, <1>4

\* One entry of the transaction.
LEMMA ApplyBoot ==
    ASSUME TypeInv, StreamSorted, BootInv, ApplyMessage
    PROVE  BootInv'
  <1>1. /\ pc = "apply" /\ pc' = pc
        /\ UNCHANGED <<stream, trimmed, last, pel, gone, lostReads, db, cameras,
                       known, batch, blank, rest, work>>
    BY ApplyEffect
  <1>2. PICK e \in todo :
          todo' = todo \ {e} /\ (\A f \in todo : e <= f) /\ Effect(tx', e)
    BY ApplyEffect
  <1>3. /\ e \in work /\ e \in 1 .. Len(stream) /\ stream[e] \in 1 .. Len(Script)
        /\ todo \subseteq work /\ \A b \in work : b \in 1 .. Len(stream)
    BY InStream DEF TypeInv, TypeOK, RedisType
  <1>4. \A b : Msg(b)' = Msg(b) /\ (Shut(b) => Shut(b)')
    BY <1>1 DEF Msg, Shut, Unreadable
  <1>5. BootRows'
    <2>1. Unacked' = Unacked
      BY <1>1 DEF Unacked, Working
    <2>2. \A b \in pel' \cup Unacked' :
             b \in pel \cup Unacked /\ (Shut(b) => Shut(b)')
      BY <1>1, <1>4, <2>1
    <2>3. blank \subseteq 1 .. trimmed
      BY DEF BootInv, BootRows
    <2> QED BY <1>1, <2>2, <2>3, RowsIdle, InStream DEF BootInv
  <1>6. /\ IntervalRows(tx)
        /\ \A s \in Keys : db.intervals[s].state # "none" =>
             tx.intervals[s].state # "none"
        /\ \A p \in 1 .. Len(Script) : Started(tx, p) =>
             Started(db, p) \/ \E a \in work \ todo : stream[a] = p
        /\ \A b \in work \ todo : Msg(b).kind = "open" => NeverOpens(tx, b)
        /\ lostReads = 0 => Splits(tx) /\ OpensBefore(tx, todo)
        /\ cameras \subseteq known
    BY <1>1 DEF BootInv, BootTx
  <1>7. IntervalRows(tx')
    <2>1. SUFFICES ASSUME NEW s \in Keys, tx'.intervals[s].state # "none"
                   PROVE  LET start == tx'.intervals[s].start IN
                          /\ start \in 1 .. Len(Script)
                          /\ Script[start].kind = "open" /\ Script[start].key = s
                          /\ tx'.intervals[s].state = "restarted" =>
                               \E q \in start .. Len(Script) : Started(tx', q)
      BY DEF IntervalRows
    <2>2. CASE tx.intervals[s].state # "none"
      <3>1. tx'.intervals[s].start = tx.intervals[s].start
        BY <1>2, <2>2 DEF Effect
      <3>2. /\ tx.intervals[s].start \in 1 .. Len(Script)
            /\ Script[tx.intervals[s].start].kind = "open"
            /\ Script[tx.intervals[s].start].key = s
        BY <1>6, <2>2 DEF IntervalRows
      <3>3. ASSUME tx'.intervals[s].state = "restarted"
            PROVE  \E q \in tx.intervals[s].start .. Len(Script) : Started(tx', q)
        <4>1. CASE tx.intervals[s].state = "restarted"
          <5>1. PICK q \in tx.intervals[s].start .. Len(Script) : Started(tx, q)
            BY <1>6, <2>2, <4>1 DEF IntervalRows
          <5>2. q \in 1 .. Len(Script)
            BY <3>2, <5>1
          <5>3. Started(tx', q)
            BY <1>2, <5>1, <5>2 DEF Effect
          <5> QED BY <5>1, <5>3
        <4>2. CASE /\ tx.intervals[s].start <= stream[e]
                   /\ Started(tx', stream[e])
          <5>1. stream[e] \in tx.intervals[s].start .. Len(Script)
            BY <1>3, <3>2, <4>2
          <5> QED BY <4>2, <5>1
        <4> QED BY <1>2, <3>3, <4>1, <4>2 DEF Effect
      <3> QED BY <3>1, <3>2, <3>3
    <2>3. CASE tx.intervals[s].state = "none"
      <3>1. /\ tx'.intervals[s] = [state |-> "open", start |-> stream[e]]
            /\ Msg(e).kind = "open" /\ Msg(e).key = s
        BY <1>2, <2>1, <2>3 DEF Effect
      <3> QED BY <1>3, <3>1 DEF Msg
    <2> QED BY <2>2, <2>3
  <1>8. \A b : Msg(b).key \in Keys /\ NeverOpens(tx, b) => NeverOpens(tx', b)
    BY <1>2 DEF Effect, NeverOpens
  <1>9. \A b \in work : Msg(b).key \in Keys
    BY <1>3, MsgType DEF TypeInv
  <1>10. \A b \in work \ todo' : Msg(b).kind = "open" => NeverOpens(tx', b)
    <2>1. Msg(e).kind = "open" => NeverOpens(tx', e)
      BY <1>2 DEF Effect
    <2> QED BY <1>2, <1>6, <1>8, <1>9, <2>1
  <1>11. ASSUME lostReads = 0 PROVE Splits(tx')
    <2>1. SUFFICES ASSUME NEW p \in 1 .. Len(Script), Started(tx', p),
                          NEW s \in GroupSessions, tx'.intervals[s].state = "open"
                   PROVE  tx'.intervals[s].start > p
      BY DEF Splits
    <2>2. s \in Keys
      BY SessionsAreKeys
    <2>3. CASE Started(tx, p) /\ tx.intervals[s].state = "open"
      <3>1. tx.intervals[s].start > p
        BY <1>6, <1>11, <2>3 DEF Splits
      <3>2. tx.intervals[s].state # "none"
        BY <2>3
      <3> QED BY <1>2, <2>2, <3>1, <3>2 DEF Effect
    <2>4. CASE Started(tx, p) /\ tx.intervals[s].state = "none"
      <3>1. /\ tx'.intervals[s] = [state |-> "open", start |-> stream[e]]
            /\ Msg(e).kind = "open" /\ ~NeverOpens(tx, e)
        BY <1>2, <2>1, <2>2, <2>4 DEF Effect
      <3>2. ~(stream[e] < p)
        BY <1>6, <1>11, <2>4, <3>1 DEF OpensBefore
      <3>3. stream[e] # p
        BY <2>4, <3>1 DEF Started, Msg
      <3> QED BY <1>3, <3>1, <3>2, <3>3
    <2>5. CASE ~Started(tx, p)
      BY <1>2, <2>1, <2>5 DEF Effect
    <2> QED BY <1>2, <2>1, <2>2, <2>3, <2>4, <2>5 DEF Effect
  <1>12. ASSUME lostReads = 0 PROVE OpensBefore(tx', todo')
    <2>1. SUFFICES ASSUME NEW p \in 1 .. Len(Script), Started(tx', p),
                          NEW b \in todo', Msg(b).kind = "open", stream[b] < p
                   PROVE  NeverOpens(tx', b)
      BY DEF OpensBefore
    <2>2. b \in todo /\ b \in work /\ b \in 1 .. Len(stream) /\ e <= b
      BY <1>2, <1>3, <2>1
    <2>3. CASE Started(tx, p)
      <3>1. NeverOpens(tx, b)
        BY <1>6, <1>12, <2>1, <2>2, <2>3 DEF OpensBefore
      <3> QED BY <1>8, <1>9, <2>2, <3>1
    <2>4. CASE ~Started(tx, p)
      <3>1. stream[e] = p
        BY <1>2, <2>1, <2>4 DEF Effect
      <3>2. stream[e] <= stream[b]
        BY <1>3, <2>2 DEF StreamSorted
      <3>3. stream[b] \in Nat
        BY <2>2, MsgType DEF TypeInv
      <3> QED BY <2>1, <3>1, <3>2, <3>3
    <2> QED BY <2>3, <2>4
  <1>13. \A p \in 1 .. Len(Script) : Started(tx', p) =>
            Started(db, p) \/ \E a \in work \ todo' : stream[a] = p
    BY <1>2, <1>3, <1>6 DEF Effect
  <1>14. \A s \in Keys : db.intervals[s].state # "none" =>
            tx'.intervals[s].state # "none"
    BY <1>2, <1>6 DEF Effect
  <1>15. \A b : NeverOpens(tx', b) => NeverOpens(tx, b)'
    BY <1>4 DEF NeverOpens
  <1>16. \A p : /\ Started(tx, p)' <=> Started(tx', p)
                /\ Started(db, p)' <=> Started(db, p)
    BY <1>1 DEF Started
  <1>17. IntervalRows(tx)' /\ (lostReads = 0 => Splits(tx)')
    BY <1>7, <1>11, <1>16 DEF IntervalRows, Splits
  <1>18. lostReads = 0 => OpensBefore(tx, todo)'
    BY <1>1, <1>4, <1>12, <1>15, <1>16 DEF OpensBefore
  <1>19. (\A b \in work \ todo : Msg(b).kind = "open" => NeverOpens(tx, b))'
    BY <1>1, <1>4, <1>10, <1>15
  <1>20. (\A p \in 1 .. Len(Script) : Started(tx, p) =>
            Started(db, p) \/ \E a \in work \ todo : stream[a] = p)'
    BY <1>1, <1>13, <1>16
  <1>21. BootTx'
    BY <1>1, <1>6, <1>14, <1>17, <1>18, <1>19, <1>20 DEF BootTx
  <1> QED BY <1>5, <1>21 DEF BootInv

\* The transaction's tables become Postgres's: a system entry that was applied
\* leaves no earlier open behind it, pending or not.
LEMMA BootCommit ==
    ASSUME TypeInv, StreamSorted, OrderInv, BootInv, Commit \/ CommitReplyLost
    PROVE  BootInv'
  <1> USE DEF redisVars, batchVars, passVars, txVars, envVars, Throw, Forget
  <1>1. /\ pc = "apply" /\ todo = {} /\ db' = tx /\ pc' # "apply"
        /\ UNCHANGED <<stream, trimmed, last, pel, cameras, lostReads>>
        /\ \/ batch' = {} /\ blank' = {}
           \/ batch' = batch /\ blank' = blank
        /\ blank' \subseteq blank /\ Unacked' \subseteq Unacked
    BY DEF Commit, CommitReplyLost, Unacked, Working
  <1>2. /\ IntervalRows(tx)
        /\ \A s \in Keys : db.intervals[s].state # "none" =>
             tx.intervals[s].state # "none"
        /\ \A p \in 1 .. Len(Script) : Started(tx, p) =>
             Started(db, p) \/ \E a \in work : stream[a] = p
        /\ \A b \in work : Msg(b).kind = "open" => NeverOpens(tx, b)
        /\ lostReads = 0 => Splits(tx)
    BY <1>1 DEF BootInv, BootTx
  <1>3. /\ \A p \in 1 .. Len(Script) : Started(db, p) =>
             \E a \in 1 .. last : stream[a] = p
        /\ blank \subseteq 1 .. trimmed
        /\ lostReads = 0 => OpensBefore(db, pel \cup Unacked)
    BY DEF BootInv, BootRows
  <1>4. \A b \in pel \cup Unacked : b \in 1 .. Len(stream) /\ Msg(b).key \in Keys
    BY UnackedDelivered, MsgType DEF TypeInv
  <1>5. ASSUME lostReads = 0, NEW p \in 1 .. Len(Script), Started(tx, p),
               NEW b \in pel \cup Unacked, Msg(b).kind = "open", stream[b] < p
        PROVE  NeverOpens(tx, b)
    <2>1. CASE Started(db, p)
      <3>1. NeverOpens(db, b)
        BY <1>3, <1>5, <2>1 DEF OpensBefore
      <3> QED BY <1>2, <1>4, <3>1 DEF NeverOpens
    <2>2. ASSUME NEW a \in work, stream[a] = p
          PROVE  NeverOpens(tx, b)
      <3>1. a \in 1 .. Len(stream) /\ b \in 1 .. Len(stream)
        BY <1>4, InStream
      <3>2. b < a
        <4>1. stream[b] \in Nat
          BY <3>1, MsgType DEF TypeInv
        <4>2. a <= b => stream[a] <= stream[b]
          BY <3>1 DEF StreamSorted
        <4> QED BY <1>5, <2>2, <3>1, <4>1, <4>2
      <3>3. Lane(a) = NoCamera
        BY <1>5, <2>2, BootAssumption DEF Started, Msg, Lane
      <3>4. ComesFirst(b, a)
        BY <3>2, <3>3 DEF ComesFirst
      <3>5. b \notin rest /\ (b \in work \/ b \notin pel)
        BY <1>1, <1>5, <3>1, <3>4, TakesItsTurn DEF Working
      <3>6. b \in work
        BY <3>5 DEF Unacked
      <3> QED BY <1>2, <1>5, <3>6
    <2> QED BY <1>2, <1>5, <2>1, <2>2
  <1>6. \A p : Started(db, p)' <=> Started(tx, p)
    BY <1>1 DEF Started
  <1>7. IntervalRows(db)' /\ (lostReads' = 0 => Splits(db)')
    BY <1>1, <1>2, <1>6 DEF IntervalRows, Splits
  <1>8. \A p \in 1 .. Len(Script) : Started(tx, p) =>
           \E a \in 1 .. last : stream[a] = p
    BY <1>2, <1>3, InStream
  <1>9. \A b \in pel \cup Unacked : NeverOpens(tx, b) => NeverOpens(db, b)'
    <2>1. TAKE b \in pel \cup Unacked
    <2>2. Shut(b) => Shut(b)'
      BY <1>1, <1>3, <1>4, ShutStays, InStream
    <2>3. Msg(b)' = Msg(b)
      BY <1>1 DEF Msg
    <2> QED BY <1>1, <2>2, <2>3 DEF NeverOpens
  <1>10. lostReads' = 0 => OpensBefore(db, pel \cup Unacked)'
    <2>1. \A b : Msg(b)' = Msg(b)
      BY <1>1 DEF Msg
    <2> QED BY <1>1, <1>5, <1>6, <1>9, <2>1 DEF OpensBefore
  <1>11. BootRows'
    BY <1>1, <1>3, <1>6, <1>7, <1>8, <1>10 DEF BootRows
  <1>12. BootTx'
    BY <1>1 DEF BootTx
  <1> QED BY <1>11, <1>12 DEF BootInv

\* The steps outside the transaction's own tables.
LEMMA BootIdle ==
    ASSUME TypeInv, StreamSorted, BootInv, pc' # "apply",
           db'.intervals = db.intervals, db'.events = db.events,
           stream' = stream \/ Xadd, last' \in Nat, last <= last',
           trimmed' \in Nat, trimmed <= trimmed', cameras' \subseteq cameras,
           lostReads' = 0 => lostReads = 0,
           \/ batch' = {} /\ blank' = {}
           \/ batch' = batch /\ blank' = blank
           \/ batch = {} /\ blank' = {e \in batch' : e <= trimmed'}
              /\ batch' \subseteq 1 .. last',
           \A b \in pel' \cup Unacked' :
              b \in pel \cup Unacked \/ (b \in 1 .. Len(stream) /\ b > last)
    PROVE  BootInv'
  <1>1. blank \subseteq 1 .. trimmed
    BY DEF BootInv, BootRows
  <1>2. blank' \subseteq 1 .. trimmed'
    <2>1. SUFFICES ASSUME NEW e \in blank' PROVE e \in 1 .. trimmed'
      OBVIOUS
    <2>2. CASE e \in blank
      <3>1. e \in 1 .. trimmed
        BY <1>1, <2>2
      <3> QED BY <3>1, InStream
    <2>3. CASE blank' = {f \in batch' : f <= trimmed'} /\ batch' \subseteq 1 .. last'
      <3>1. e \in 1 .. last' /\ e <= trimmed'
        BY <2>1, <2>3
      <3> QED BY <3>1
    <2> QED BY <2>1, <2>2, <2>3
  <1>3. \A b \in pel \cup Unacked : Shut(b) => Shut(b)'
    BY <1>1, UnackedDelivered, ShutStays, InStream
  <1>4. BootRows'
    BY <1>2, <1>3, RowsIdle DEF BootInv
  <1>5. BootTx'
    BY DEF BootTx
  <1> QED BY <1>4, <1>5 DEF BootInv

LEMMA BootStep ==
    TypeInv /\ SettledInv /\ OrderInv /\ MetricInv /\ BootInv /\ [Next]_vars
        => BootInv'
  <1> SUFFICES ASSUME TypeInv, SettledInv, OrderInv, MetricInv, BootInv,
                      [Next]_vars
               PROVE  BootInv'
    OBVIOUS
  <1> USE DEF redisVars, dbVars, batchVars, passVars, txVars, envVars,
              historyVars, Throw, Forget, Process
  <1>0. /\ StreamSorted /\ blank \subseteq 1 .. trimmed /\ lostReads \in Nat
        /\ last \in Nat /\ trimmed \in Nat /\ trimmed <= Len(stream)
        /\ last <= Len(stream) /\ Len(stream) \in Nat
    BY InStream DEF MetricInv, BootInv, BootRows, TypeInv, TypeOK, HistoryType
  <1>00. \A e : DeadLetter(db, e).intervals = db.intervals
                /\ DeadLetter(db, e).events = db.events
    BY DEF DeadLetter, TypeInv, TypeOK, RowsType, Tables
  <1>1. CASE ApplyMessage
    BY <1>0, <1>1, ApplyBoot
  <1>2. CASE Commit \/ CommitReplyLost
    BY <1>0, <1>2, BootCommit
  <1>3. CASE BeginTx \/ RemoveCamera \/ UNCHANGED vars
    <2>1. /\ UNCHANGED <<stream, trimmed, batch, blank, work, db, lostReads,
                         last, pel, rest>>
          /\ cameras' \subseteq cameras
          /\ \/ /\ pc = "begin" /\ pc' = "apply" /\ tx' = db /\ known' = cameras
                /\ todo' = work /\ cameras' = cameras
             \/ UNCHANGED <<pc, tx, todo, known>>
      BY <1>3 DEF BeginTx, RemoveCamera, vars
    <2>2. BootTx'
      BY <1>0, <2>1, TxIdle DEF BootInv
    <2>3. Unacked' = Unacked
      BY <2>1 DEF Unacked, Working
    <2>4. \A b \in pel \cup Unacked : Shut(b) => Shut(b)'
      BY <1>0, <2>1, UnackedDelivered, ShutStays
    <2>5. BootRows'
      BY <1>0, <2>1, <2>3, <2>4, RowsIdle DEF BootInv
    <2> QED BY <2>2, <2>5 DEF BootInv
  <1>4. CASE ReadNew \/ ResentRead \/ ReadReplyLost
    <2> DEFINE S == FirstOf(Undelivered, Count)
    <2>1. /\ Deliver(S) /\ UNCHANGED <<db, cameras, rest>> /\ Reading
          /\ pc' \in {"begin", "resent"}
          /\ lostReads' = 0 => lostReads = 0
          /\ \/ pc' = "begin" /\ batch' = S /\ work' = S
                /\ blank' = {e \in S : e <= trimmed}
             \/ pc' = "resent" /\ UNCHANGED <<batch, blank>>
      BY <1>0, <1>4 DEF ReadNew, ResentRead, ReadReplyLost, Reading
    <2>2. /\ pel' = pel \cup S /\ UNCHANGED <<stream, trimmed>>
      BY <2>1 DEF Deliver
    <2>3. /\ last' \in Nat /\ last' > last /\ last' <= Len(stream)
          /\ \A b \in S : b \in (last + 1) .. last'
      <3>1. last' \in last .. Len(stream)
        BY <2>1, DeliverType DEF TypeInv
      <3> QED BY <1>0, <2>1, <3>1, NonePassedOver DEF SettledInv
    <2> HIDE DEF S
    <2>4. batch = {} /\ rest = {}
      BY <2>1 DEF TypeInv, Phases
    <2>5. \A b \in pel' \cup Unacked' :
             b \in pel \cup Unacked \/ (b \in 1 .. Len(stream) /\ b > last)
      <3>1. Unacked' \subseteq S
        BY <2>1, <2>4 DEF Unacked, Working
      <3>2. \A b \in S : b \in 1 .. Len(stream) /\ b > last
        BY <1>0, <2>3
      <3> QED BY <2>2, <3>1, <3>2
    <2>6. S \subseteq 1 .. last'
      BY <1>0, <2>3
    <2>7. \/ batch' = batch /\ blank' = blank
          \/ batch = {} /\ blank' = {e \in batch' : e <= trimmed'}
             /\ batch' \subseteq 1 .. last'
      <3>1. CASE pc' = "resent"
        BY <2>1, <3>1
      <3>2. CASE pc' = "begin"
        <4>1. batch' = S /\ blank' = {e \in S : e <= trimmed}
          BY <2>1, <3>2
        <4>2. trimmed' = trimmed
          BY <2>2
        <4>3. blank' = {e \in batch' : e <= trimmed'}
          BY <4>1, <4>2
        <4> QED BY <2>4, <2>6, <4>1, <4>3
      <3> QED BY <2>1, <3>1, <3>2
    <2>8. pc' # "apply" /\ last <= last' /\ trimmed' = trimmed
      BY <1>0, <2>1, <2>2, <2>3
    <2> QED BY <1>0, <2>1, <2>2, <2>3, <2>5, <2>7, <2>8, BootIdle
  <1>5. CASE ReadPending
    <2>1. /\ UNCHANGED <<stream, last, pel, trimmed, db, cameras, lostReads>>
          /\ pc' = "begin" /\ Reading
          /\ batch' = FirstOf(pel, Count) /\ work' = batch' /\ rest' = rest
          /\ blank' = {e \in batch' : e <= trimmed}
      BY <1>5 DEF ReadPending, Reading
    <2>2. batch = {} /\ rest = {} /\ batch' \subseteq pel /\ pel \subseteq 1 .. last
      BY <2>1 DEF FirstOf, TypeInv, Phases, TypeOK, RedisType
    <2>3. Unacked' \subseteq pel
      BY <2>1, <2>2 DEF Unacked
    <2>4. blank' = {e \in batch' : e <= trimmed'} /\ batch' \subseteq 1 .. last'
      <3>1. trimmed' = trimmed /\ last' = last
        BY <2>1
      <3> QED BY <2>1, <2>2, <3>1
    <2>5. pc' # "apply" /\ db'.intervals = db.intervals /\ db'.events = db.events
          /\ stream' = stream /\ last' = last /\ trimmed' = trimmed
          /\ cameras' = cameras /\ lostReads' = lostReads
      BY <2>1
    <2>6. \A b \in pel' \cup Unacked' : b \in pel \cup Unacked
      BY <2>1, <2>3
    <2> QED BY <1>0, <2>2, <2>4, <2>5, <2>6, BootIdle
  <1>6. CASE CreateGroup \/ NoGroup \/ ResentEmpty \/ Xadd \/ Trim
    <2>1. /\ UNCHANGED <<last, pel, db, cameras, batch, blank, lostReads, rest>>
          /\ stream' = stream \/ Xadd
          /\ trimmed' \in Nat /\ trimmed <= trimmed'
          /\ pc' \in {"group", "read", "resent"}
      BY <1>0, <1>6
      DEF CreateGroup, NoGroup, ResentEmpty, Xadd, Trim, Reading
    <2>2. Unacked' \subseteq Unacked
      BY <2>1 DEF Unacked, Working
    <2> QED BY <1>0, <2>1, <2>2, BootIdle
  <1>7. CASE RedisLosesData
    <2>1. /\ UNCHANGED <<stream, db, cameras, batch, blank, lostReads, rest, work,
                         pc>>
          /\ trimmed' = Len(stream) /\ last' = Len(stream) /\ pel' = {}
          /\ pc # "apply"
      BY <1>7 DEF RedisLosesData, Reading
    <2>2. Unacked' = Unacked
      BY <2>1 DEF Unacked, Working
    <2> QED BY <1>0, <2>1, <2>2, BootIdle
  <1>8. CASE TxFault
    <2>1. /\ UNCHANGED <<stream, trimmed, last, pel, db, cameras, batch, blank,
                         lostReads>>
          /\ pc = "apply" /\ pc' \in {"each", "count"}
          /\ \/ mode = "batch" /\ rest' = batch /\ work' = {}
             \/ UNCHANGED <<rest, work>>
      BY <1>8 DEF TxFault, Current
    <2>2. mode = "batch" => batch \subseteq rest \cup work
      BY DEF OrderInv, InTurn, Tried
    <2>3. Unacked' \subseteq Unacked
      BY <2>1, <2>2 DEF Unacked, Working
    <2> QED BY <1>0, <2>1, <2>3, BootIdle
  <1>9. CASE \/ Xack \/ Hdel \/ TryEntry \/ SkipEntry \/ CountFailure \/ Bury
             \/ PassDone \/ TxTransient \/ XackFails \/ HdelFails
             \/ CountFails \/ BuryFails \/ Crash
    <2>1. /\ UNCHANGED <<stream, trimmed, last, cameras, lostReads>>
          /\ pel' \subseteq pel /\ pc' # "apply"
          /\ db' = db \/ \E e \in work : db' = DeadLetter(db, e)
          /\ \/ batch' = {} /\ blank' = {}
             \/ batch' = batch /\ blank' = blank
          /\ rest' \subseteq rest
          /\ \/ work' = {}
             \/ work' = work /\ (pc' \in {"each", "hdel"} \/ Working)
             \/ work' \subseteq rest
      BY <1>9
      DEF Xack, Hdel, TryEntry, SkipEntry, Each, CountFailure, Bury, PassDone,
          TxTransient, XackFails, HdelFails, CountFails, BuryFails, Crash,
          Working
    <2>2. Unacked' \subseteq Unacked
      BY <2>1 DEF Unacked, Working
    <2> QED BY <1>0, <1>00, <2>1, <2>2, BootIdle
  <1> QED
    BY <1>1, <1>2, <1>3, <1>4, <1>5, <1>6, <1>7, <1>8, <1>9
    DEF Next, Consumer, Failing, Environment

LEMMA BootInit == Init => BootInv
  <1> SUFFICES ASSUME Init PROVE BootInv
    OBVIOUS
  <1>1. /\ db = NoRows /\ pel = {} /\ rest = {} /\ blank = {} /\ pc = "group"
    BY DEF Init
  <1>2. /\ \A s \in Keys : db.intervals[s].state = "none"
        /\ \A p : ~Started(db, p)
    BY <1>1 DEF NoRows, Started
  <1>3. IntervalRows(db)
    BY <1>2 DEF IntervalRows
  <1>4. Splits(db) /\ OpensBefore(db, pel \cup Unacked)
    BY <1>2 DEF Splits, OpensBefore
  <1> QED BY <1>1, <1>2, <1>3, <1>4 DEF BootInv, BootRows, BootTx

\* A stored engine_started has ended every interval the boot before it left
\* open and none of the boot it starts, for every script, batch size and
\* sequence of failures, redeliveries and retries.
THEOREM RestartEndsOldBoot == Spec => []RestartSplitsBoots
  <1>1. BootInv => RestartSplitsBoots
    <2> SUFFICES ASSUME BootInv, lostReads = 0, NEW p \in 1 .. Len(Script)
                 PROVE  /\ /\ Script[p].kind = "engine_started"
                           /\ Script[p].key \in db.events
                           => \A s \in GroupSessions :
                                db.intervals[s].state = "open" =>
                                    db.intervals[s].start > p
                        /\ /\ Script[p].kind = "open"
                           /\ db.intervals[Script[p].key].state = "restarted"
                           => \E q \in p .. Len(Script) :
                                /\ Script[q].kind = "engine_started"
                                /\ Script[q].key \in db.events
      BY DEF RestartSplitsBoots
    <2>1. ASSUME Script[p].kind = "engine_started", Script[p].key \in db.events,
                 NEW s \in GroupSessions, db.intervals[s].state = "open"
          PROVE  db.intervals[s].start > p
      BY <2>1 DEF BootInv, BootRows, Splits, Started
    <2>2. ASSUME Script[p].kind = "open",
                 db.intervals[Script[p].key].state = "restarted"
          PROVE  \E q \in p .. Len(Script) : Started(db, q)
      <3> DEFINE start == db.intervals[Script[p].key].start
      <3>1. Script[p].key \in Keys
        <4>1. Script[p] \in Message
          BY ScriptAssumption
        <4> QED BY <4>1 DEF Message
      <3>2. /\ start \in 1 .. Len(Script)
            /\ Script[start].kind = "open" /\ Script[start].key = Script[p].key
            /\ \E q \in start .. Len(Script) : Started(db, q)
        BY <2>2, <3>1 DEF BootInv, BootRows, IntervalRows
      <3> HIDE DEF start
      <3>3. start = p
        BY <2>2, <3>2, IdAssumption
      <3> QED BY <3>2, <3>3
    <2> QED BY <2>1, <2>2 DEF Started
  <1> QED
    BY <1>1, SettledInit, OrderInit, MetricInit, BootInit, TypeInit, TypeStep,
       SettledStep, OrderStep, MetricStep, BootStep, PTL DEF Spec

=============================================================================
