--------------------------- MODULE ModelPoolProofs ---------------------------
(***************************************************************************)
(* Proofs about the model pool: the types, that a handle can be used, that *)
(* every call is served, that no loaded model is lost, and that the pool   *)
(* implements ModelHandles.                                                *)
(***************************************************************************)
EXTENDS ModelPool, FiniteSetTheorems, SequenceTheorems, WellFoundedInduction, TLAPS

Somebody == Callers \cup {Main}
Creates == {"load", "start", "publish", "drop", "report"}
Has     == {"holds", "calls"}
Stops   == {"stop", "join"}

EntryRecord == [refs : Nat, ready : BOOLEAN, failed : BOOLEAN,
                model : BOOLEAN, stopping : BOOLEAN]

-----------------------------------------------------------------------------
(* The entries *)

\* Who is out has no entry, and nobody has one that was not made yet.
Places ==
    /\ made <= acquires
    /\ at[Main] \in {"out"} \cup Stops
    /\ \A s \in Somebody : mine[s] <= made /\ (mine[s] = 0 <=> at[s] = "out")
    /\ \A k \in Keys : entries[k] <= made

\* An entry that was not made yet is as it was made.
Fresh ==
    \A i \in Entries : i > made =>
        /\ entry[i].refs = 0 /\ thread[i] = "none"
        /\ ~entry[i].ready /\ ~entry[i].failed
        /\ ~entry[i].model /\ ~entry[i].stopping

\* The map has an entry under one key, and none once the pool is closed.
Keyed ==
    /\ \A k, l \in Keys : entries[k] = entries[l] /\ entries[k] # 0 => k = l
    /\ closed => \A k \in Keys : entries[k] = 0

\* Main only stops entries of a closed pool, and the one it stops is in its list.
MainCloses ==
    /\ ~closed => toStop = {}
    /\ at[Main] # "out" => mine[Main] \in toStop

\* An entry has one creator, that nobody overtakes.
OneCreator ==
    \A c \in Callers : at[c] \in Creates =>
        LET i == mine[c] IN
        /\ \A d \in Callers \ {c} : mine[d] = i => at[d] \notin Creates
        /\ ~entry[i].ready /\ ~entry[i].failed
        /\ at[c] = "load" => ~entry[i].model
        /\ at[c] = "start" => entry[i].model
        /\ at[c] = "publish" => thread[i] # "none" /\ (~closed => entry[i].model)
        /\ at[c] # "publish" => thread[i] = "none"
        /\ at[c] = "report" => ~Mapped(i)
        /\ at[c] # "report" /\ ~closed => Mapped(i)

\* refs counts those who use the entry, exactly as long as it is in the map.
Counted ==
    \A i \in Entries :
        /\ Cardinality(Using(i)) <= entry[i].refs
        /\ Mapped(i) => entry[i].refs = Cardinality(Using(i))

\* An entry in the map is loaded and runs, or its creator is at it.
MappedLives ==
    \A i \in Entries : Mapped(i) =>
        /\ ~entry[i].stopping /\ ~entry[i].failed
        /\ IF entry[i].ready
             THEN entry[i].model /\ thread[i] # "none"
             ELSE \E c \in Callers : mine[c] = i /\ at[c] \in Creates

\* What is stopped has left the map and was started.
StopsUnmapped ==
    /\ \A s \in Somebody : at[s] \in Stops =>
         /\ ~Mapped(mine[s]) /\ thread[mine[s]] # "none"
         /\ at[s] = "join" => entry[mine[s]].stopping
    /\ \A i \in toStop : ~Mapped(i) /\ thread[i] # "none"

\* A load that is over ended with a thread or failed without one.
LoadsEnd ==
    \A i \in Entries :
        /\ entry[i].ready /\ ~entry[i].failed => thread[i] # "none"
        /\ entry[i].failed => entry[i].ready /\ thread[i] = "none"

\* Who uses an entry has one in the map, or one that is lost for a reason.
UsersKnow ==
    \A c \in Callers :
        /\ at[c] \in Has => entry[mine[c]].ready /\ ~entry[mine[c]].failed
        /\ at[c] \in Has \cup {"await"} =>
             \/ Mapped(mine[c]) \/ entry[mine[c]].failed \/ closed
             \/ \E d \in Callers : mine[d] = mine[c] /\ at[d] = "report"

\* Who frees a loaded model: also, who stops it is told apart from who saw that
\* another one stops it.
Freed ==
    \A i \in Entries : entry[i].model =>
        \/ Mapped(i)
        \/ \E c \in Callers : mine[c] = i /\ at[c] \in {"start", "drop", "report"}
        \/ ~entry[i].stopping /\ (i \in toStop \/ \E s \in Somebody : mine[s] = i /\ at[s] = "stop")
        \/ entry[i].stopping /\ \E s \in Somebody : mine[s] = i /\ at[s] = "join"

EntryInv ==
    /\ Places /\ Fresh /\ Keyed /\ MainCloses /\ OneCreator /\ Counted
    /\ MappedLives /\ StopsUnmapped /\ LoadsEnd /\ UsersKnow /\ Freed

-----------------------------------------------------------------------------
(* The calls *)

ElementsOf(s) == {s[j] : j \in 1 .. Len(s)}

\* A caller waits for a request of its own exactly while it calls.
Asking ==
    \A c \in Callers :
        /\ asked[c] # NoRequest <=> at[c] = "calls"
        /\ asked[c] # NoRequest => asked[c].by = c
        /\ at[c] # "calls" => answer[c] = "none"

\* What nobody answered yet is in the batch, carried or queued.
InLine ==
    \A c \in Callers : at[c] = "calls" /\ answer[c] = "none" =>
        asked[c] \in batch[mine[c]] \cup ElementsOf(carry[mine[c]])
                                    \cup ElementsOf(queue[mine[c]])

\* An answer is an error or was computed with the caller's arguments.
Answers ==
    \A c \in Callers : at[c] = "calls" /\ answer[c] # "none" =>
        answer[c] \in {"error", asked[c].kwargs}

\* The sentinel is the last item there ever is.
SentinelLast ==
    \A i \in Entries :
        /\ \A j \in 1 .. Len(queue[i]) : queue[i][j] = Stop =>
             entry[i].stopping /\ j = Len(queue[i])
        /\ thread[i] = "ended" \/ last[i] =>
             entry[i].stopping /\ carry[i] = <<>> /\ queue[i] = <<>>

\* A batch is there while the model is called, and it is all alike.
Batches ==
    \A i \in Entries :
        /\ thread[i] \notin {"calling", "hung"} => batch[i] = {}
        /\ thread[i] \in {"none", "idle"} => ~last[i]
        /\ \A r, q \in batch[i] : r.kwargs = q.kwargs

CallInv == Asking /\ InLine /\ Answers /\ SentinelLast /\ Batches

IInv == TypeOK /\ EntryInv /\ CallInv

-----------------------------------------------------------------------------
(* Sequences and sets of numbers *)

\* A set of numbers has a least one.
LEMMA Least ==
    ASSUME NEW T \in SUBSET Nat, T # {}
    PROVE  \E m \in T : \A n \in T : m <= n
<1>1. PICK m \in T : \A n \in T : ~(<<n, m>> \in OpToRel(<, Nat))
  BY NatLessThanWellFounded, WFMin
<1>2. \A n \in T : n \in Nat /\ m \in Nat /\ (<<n, m>> \in OpToRel(<, Nat) <=> n < m)
  BY DEF OpToRel
<1>3. ASSUME NEW n \in T
      PROVE  m <= n
  <2>1. n \in Nat /\ m \in Nat /\ ~(n < m)
    BY <1>1, <1>2
  <2> QED  BY <2>1
<1> QED  BY <1>1, <1>3, Zenon

\* What an appended sequence has: what was there, and the new item.
LEMMA AppendElements ==
    ASSUME NEW S, NEW s \in Seq(S), NEW e \in S
    PROVE  ElementsOf(Append(s, e)) = ElementsOf(s) \cup {e}
<1>1. /\ Len(Append(s, e)) = Len(s) + 1
      /\ \A j \in 1 .. Len(s) : Append(s, e)[j] = s[j]
      /\ Append(s, e)[Len(s) + 1] = e
  BY AppendProperties
<1>2. Len(s) \in Nat
  BY LenProperties
<1>3. 1 .. Len(s) + 1 = (1 .. Len(s)) \cup {Len(s) + 1}
  BY <1>2
<1> QED  BY <1>1, <1>2, <1>3 DEF ElementsOf

\* A batch is taken from what a thread has before it, if the sentinel is not
\* the first: BatchLength is what its definition says.
LEMMA BatchLengthWorks ==
    ASSUME NEW s \in Seq(Requests \cup {Stop}), s # <<>>, s[1] # Stop
    PROVE  LET n == BatchLength(s)
           IN  /\ n \in 1 .. MaxBatch /\ n <= Len(s) /\ Alike(s, n)
               /\ n < MaxBatch /\ n < Len(s) => ~Alike(s, n + 1)
<1> DEFINE Good(n) == n <= Len(s) /\ Alike(s, n)
           Room == {m \in 0 .. MaxBatch - 1 : Good(MaxBatch - m)}
<1>1. Len(s) \in Nat \ {0} /\ MaxBatch \in Nat \ {0}
  BY EmptySeq, PoolAssumption
<1>2. Good(1)
  BY <1>1 DEF Alike
<1>3. MaxBatch - 1 \in Room
  BY <1>1, <1>2
<1> HIDE DEF Good
<1>4. PICK m \in Room : \A l \in Room : m <= l
  <2>1. Room \subseteq 0 .. MaxBatch - 1
    OBVIOUS
  <2>2. Room # {}
    BY <1>3
  <2> HIDE DEF Room
  <2>3. Room \in SUBSET Nat
    BY <1>1, <2>1
  <2> QED  BY <2>2, <2>3, Least
<1>5. MaxBatch - m \in 1 .. MaxBatch /\ Good(MaxBatch - m)
  BY <1>1, <1>4
<1>6. ASSUME MaxBatch - m < MaxBatch, MaxBatch - m < Len(s)
      PROVE  ~Alike(s, MaxBatch - m + 1)
  <2>1. m \in Nat /\ m # 0 /\ m <= MaxBatch - 1
    BY <1>1, <1>4, <1>6
  <2>3. m - 1 \in 0 .. MaxBatch - 1 /\ ~(m <= m - 1)
    BY <1>1, <2>1
  <2>4. m - 1 \notin Room
    BY <1>4, <2>3
  <2>2. MaxBatch - (m - 1) = MaxBatch - m + 1 /\ MaxBatch - m + 1 <= Len(s)
    BY <1>1, <1>4, <1>6
  <2>5. ~Good(MaxBatch - (m - 1))
    BY <2>3, <2>4
  <2> QED  BY <2>2, <2>5 DEF Good
<1> QED  BY <1>5, <1>6 DEF BatchLength, Good

-----------------------------------------------------------------------------
(* The types *)

LEMMA InitTypes == Init => TypeOK
<1> SUFFICES ASSUME Init PROVE TypeOK
  OBVIOUS
<1>1. entry \in [Entries -> EntryRecord]
  BY DEF Init, EntryRecord
<1>2. /\ queue \in [Entries -> Seq(Requests \cup {Stop})]
      /\ carry \in [Entries -> Seq(Requests)]
  BY EmptySeq DEF Init
<1>3. /\ closed \in BOOLEAN
      /\ last \in [Entries -> BOOLEAN] /\ able \in [Entries -> BOOLEAN]
  BY Zenon DEF Init
<1> QED  BY <1>1, <1>2, <1>3, PoolAssumption DEF Init, TypeOK, EntryRecord

\* The one that is stopped next is in the list.
LEMMA Next1Works ==
    ASSUME NEW S \in SUBSET Entries
    PROVE  IF S = {} THEN Next1(S) = 0 ELSE Next1(S) \in S
<1>1. CASE S = {}
  BY <1>1 DEF Next1
<1>2. CASE S # {}
  <2>1. S \in SUBSET Nat
    BY DEF Entries
  <2>2. \E i \in S : \A j \in S : i <= j
    BY <1>2, <2>1, Least
  <2>3. Next1(S) = CHOOSE i \in S : \A j \in S : i <= j
    BY <1>2, Zenon DEF Next1
  <2>4. Next1(S) \in S
    BY <2>2, <2>3, Zenon
  <2> QED  BY <1>2, <2>4
<1> QED  BY <1>1, <1>2

\* Setting a field of an entry keeps the types.
LEMMA FieldTypes ==
    ASSUME TypeOK, NEW i \in Entries, NEW n \in Nat
    PROVE  /\ [entry EXCEPT ![i].refs = n] \in [Entries -> EntryRecord]
           /\ [entry EXCEPT ![i].stopping = TRUE] \in [Entries -> EntryRecord]
           /\ [entry EXCEPT ![i].model = FALSE] \in [Entries -> EntryRecord]
<1>1. \A x \in EntryRecord : /\ [x EXCEPT !.refs = n] \in EntryRecord
                             /\ [x EXCEPT !.stopping = TRUE] \in EntryRecord
                             /\ [x EXCEPT !.model = FALSE] \in EntryRecord
  BY DEF EntryRecord
<1>2. entry \in [Entries -> EntryRecord]
  BY DEF TypeOK, EntryRecord
<1> QED  BY <1>1, <1>2

LEMMA AcquireTypes ==
    ASSUME TypeOK, Places, NEW c \in Callers, NEW k \in Keys, Acquire(c, k)
    PROVE  TypeOK'
<1> DEFINE i == IF entries[k] = 0 THEN made + 1 ELSE entries[k]
<1>1. i \in Entries /\ i \in 0 .. MaxAcquires
  BY PoolAssumption DEF TypeOK, Places, Acquire, Entries
<1>2. /\ entry' = [entry EXCEPT ![i].refs = @ + 1]
      /\ entries' = [entries EXCEPT ![k] = i]
      /\ mine' = [mine EXCEPT ![c] = i]
      /\ made' \in {made, i}
      /\ at' = [at EXCEPT ![c] = IF entries[k] = 0 THEN "load" ELSE "await"]
      /\ acquires' \in 0 .. MaxAcquires
  BY PoolAssumption DEF Acquire, Go, TypeOK
<1> HIDE DEF i
<1>3. entry' \in [Entries -> EntryRecord]
  <2>1. entry \in [Entries -> EntryRecord] /\ entry[i].refs + 1 \in Nat
    BY <1>1 DEF TypeOK, EntryRecord
  <2> QED  BY <1>2, <2>1 DEF EntryRecord
<1>4. /\ entries' \in [Keys -> 0 .. MaxAcquires]
      /\ mine' \in [Somebody -> 0 .. MaxAcquires]
      /\ made' \in 0 .. MaxAcquires
      /\ at' \in [Somebody -> {"out", "load", "start", "publish", "drop", "report", "await",
                              "holds", "calls", "stop", "join"}]
  BY <1>1, <1>2 DEF TypeOK, Somebody
<1>5. UNCHANGED <<closed, queue, threadVars, callVars, toStop>>
  BY DEF Acquire
<1> QED  BY <1>2, <1>3, <1>4, <1>5 DEF TypeOK, threadVars, callVars, Somebody, EntryRecord

\* The steps of the creator and of those who wait for it.
LEMMA LoadTypes ==
    ASSUME TypeOK, Places, NEW c \in Callers,
           Loaded(c) \/ LoadRaises(c) \/ StartThread(c) \/ Publish(c) \/ Drop(c)
             \/ Report(c) \/ Ready(c)
    PROVE  TypeOK'
<1>1. CASE Loaded(c)
  BY <1>1 DEF TypeOK, Loaded, Go, poolVars, threadVars, callVars
<1>2. CASE LoadRaises(c)
  BY <1>2 DEF TypeOK, LoadRaises, Go, poolVars, threadVars, callVars
<1>3. CASE StartThread(c)
  BY <1>3 DEF TypeOK, StartThread, Go, poolVars, callVars
<1>4. CASE Publish(c)
  BY <1>4 DEF TypeOK, Publish, Go, poolVars, threadVars, callVars
<1>5. CASE Drop(c)
  BY <1>5, PoolAssumption DEF TypeOK, Drop, Go, Forget, threadVars, callVars
<1>6. CASE Report(c)
  <2>1. entry' \in [Entries -> EntryRecord]
    <3> DEFINE e(i) == [entry[i] EXCEPT !.ready = TRUE, !.failed = TRUE, !.model = FALSE]
    <3>1. entry' = [entry EXCEPT ![mine[c]] = e(mine[c])]
      BY <1>6 DEF Report, TypeOK
    <3>2. ASSUME NEW i \in Entries PROVE e(i) \in EntryRecord
      <4>1. \A x \in EntryRecord : [x EXCEPT !.ready = TRUE, !.failed = TRUE, !.model = FALSE] \in EntryRecord
        BY DEF EntryRecord
      <4>2. entry[i] \in EntryRecord
        BY DEF TypeOK, EntryRecord
      <4> QED  BY <4>1, <4>2
    <3> HIDE DEF e
    <3> QED  BY <3>1, <3>2 DEF TypeOK, EntryRecord
  <2>2. mine' \in [Somebody -> 0 .. MaxAcquires]
    BY <1>6, PoolAssumption DEF TypeOK, Report, Somebody
  <2> QED  BY <1>6, <2>1, <2>2 DEF TypeOK, Report, Go, poolVars, threadVars, callVars, Somebody, EntryRecord
<1>7. CASE Ready(c)
  BY <1>7, PoolAssumption DEF TypeOK, Ready, Go, poolVars, threadVars, callVars
<1> QED  BY <1>1, <1>2, <1>3, <1>4, <1>5, <1>6, <1>7

\* A caller that has a handle, or creates or waits for an entry, has an entry.
LEMMA MineIsEntry ==
    ASSUME TypeOK, Places, NEW s \in Somebody, at[s] # "out"
    PROVE  mine[s] \in Entries
  BY PoolAssumption DEF TypeOK, Places, Entries, Somebody

LEMMA SubmitTypes ==
    ASSUME TypeOK, Places, NEW c \in Callers, NEW kwargs \in Args[c], Submit(c, kwargs)
    PROVE  TypeOK'
<1> DEFINE r == [by |-> c, no |-> calls + 1, kwargs |-> kwargs]
<1>1. r \in Requests /\ calls' \in 0 .. MaxCalls
  BY PoolAssumption DEF TypeOK, Submit, Requests
<1>2. /\ asked' = [asked EXCEPT ![c] = r]
      /\ queue' = [queue EXCEPT ![mine[c]] = Append(@, r)]
  BY DEF Submit
<1>3. mine[c] \in Entries
  BY MineIsEntry DEF Submit, Go, Somebody
<1> HIDE DEF r
<1>4. Append(queue[mine[c]], r) \in Seq(Requests \cup {Stop})
  BY <1>1, <1>3, AppendProperties DEF TypeOK
<1>5. queue' \in [Entries -> Seq(Requests \cup {Stop})]
  BY <1>2, <1>4 DEF TypeOK
<1> QED  BY <1>1, <1>2, <1>5 DEF TypeOK, Submit, Go, poolVars, threadVars

LEMMA CallEndsTypes ==
    ASSUME TypeOK, NEW c \in Callers, CallEnds(c)
    PROVE  TypeOK'
  BY DEF TypeOK, CallEnds, Go, poolVars, threadVars

\* What a thread takes: a batch of what is before it, what it carries, and what
\* it leaves in the queue.
LEMMA TakeParts ==
    ASSUME TypeOK, NEW i \in Entries, Take(i)
    PROVE  LET s == carry[i] \o queue[i]
               n == BatchLength(s)
           IN  /\ s \in Seq(Requests \cup {Stop})
               /\ n \in 1 .. MaxBatch /\ n <= Len(s) /\ Alike(s, n)
               /\ \A j \in 1 .. n : s[j] \in Requests
               /\ After(s, n) \in Seq(Requests \cup {Stop})
               /\ Carried(s, n) \in Seq(Requests)
               /\ SubSeq(s, n + 1 + Len(After(s, n)), Len(s)) \in Seq(Requests \cup {Stop})
<1> DEFINE s == carry[i] \o queue[i]
           n == BatchLength(s)
<1>1. s \in Seq(Requests \cup {Stop})
  <2>1. carry[i] \in Seq(Requests \cup {Stop})
    BY SeqMonotonic DEF TypeOK
  <2>2. queue[i] \in Seq(Requests \cup {Stop})
    BY DEF TypeOK
  <2> QED  BY <2>1, <2>2, ConcatProperties
<1>2. s # <<>> /\ s[1] # Stop
  BY DEF Take
<1> HIDE DEF s
<1>3. n \in 1 .. MaxBatch /\ n <= Len(s) /\ Alike(s, n)
  BY <1>1, <1>2, BatchLengthWorks
<1> HIDE DEF n
<1>4. Len(s) \in Nat /\ \A j \in 1 .. Len(s) : s[j] \in Requests \cup {Stop}
  BY <1>1, LenProperties, ElementOfSeq
<1>5. \A j \in 1 .. n : s[j] \in Requests
  BY <1>3, <1>4 DEF Alike
<1>6. /\ After(s, n) \in Seq(Requests \cup {Stop})
      /\ Carried(s, n) \in Seq(Requests)
      /\ Len(After(s, n)) \in {0, 1}
  <2>1. CASE n < MaxBatch /\ n < Len(s)
    <3>1. s[n + 1] \in Requests \cup {Stop} /\ After(s, n) = <<s[n + 1]>>
      BY <1>3, <1>4, <2>1 DEF After
    <3> QED  BY <3>1, EmptySeq DEF Carried
  <2>2. CASE ~(n < MaxBatch /\ n < Len(s))
    BY <2>2, EmptySeq DEF After, Carried
  <2> QED  BY <2>1, <2>2
<1>7. SubSeq(s, n + 1 + Len(After(s, n)), Len(s)) \in Seq(Requests \cup {Stop})
  <2>1. n + 1 + Len(After(s, n)) \in Nat \ {0}
    BY <1>3, <1>6
  <2>2. \A j \in n + 1 + Len(After(s, n)) .. Len(s) : s[j] \in Requests \cup {Stop}
    BY <1>4, <2>1
  <2> QED  BY <1>4, <2>1, <2>2, SubSeqProperties
<1> QED  BY <1>1, <1>3, <1>5, <1>6, <1>7 DEF s, n

LEMMA TakeTypes ==
    ASSUME TypeOK, NEW i \in Entries, Take(i)
    PROVE  TypeOK'
<1> DEFINE s == carry[i] \o queue[i]
           n == BatchLength(s)
           alive == {r \in {s[j] : j \in 1 .. n} : asked[r.by] = r}
           stop == After(s, n) = <<Stop>>
<1>1. /\ \A j \in 1 .. n : s[j] \in Requests
      /\ Carried(s, n) \in Seq(Requests)
      /\ SubSeq(s, n + 1 + Len(After(s, n)), Len(s)) \in Seq(Requests \cup {Stop})
  BY TakeParts
<1>2. /\ batch' = [batch EXCEPT ![i] = alive]
      /\ carry' = [carry EXCEPT ![i] = Carried(s, n)]
      /\ queue' = [queue EXCEPT ![i] = SubSeq(s, n + 1 + Len(After(s, n)), Len(s))]
      /\ last' = [last EXCEPT ![i] = stop]
      /\ able' = [able EXCEPT ![i] = entry[i].model]
      /\ thread' = [thread EXCEPT ![i] = IF alive # {} THEN "calling"
                                         ELSE IF stop THEN "ended" ELSE "idle"]
      /\ UNCHANGED <<poolVars, entry, hangs, at, mine, callVars, toStop>>
  BY Zenon DEF Take
<1>3. alive \subseteq Requests /\ stop \in BOOLEAN
  BY <1>1
<1> HIDE DEF s, n, alive, stop
<1>4. /\ batch' \in [Entries -> SUBSET Requests]
      /\ carry' \in [Entries -> Seq(Requests)]
      /\ queue' \in [Entries -> Seq(Requests \cup {Stop})]
      /\ thread' \in [Entries -> {"none", "idle", "calling", "hung", "ended"}]
  BY <1>1, <1>2, <1>3 DEF TypeOK
<1>5. last' \in [Entries -> BOOLEAN] /\ able' \in [Entries -> BOOLEAN]
  <2>1. entry[i].model \in BOOLEAN
    BY DEF TypeOK
  <2> QED  BY <1>2, <1>3, <2>1 DEF TypeOK
<1> QED  BY <1>2, <1>4, <1>5 DEF TypeOK, poolVars, callVars

LEMMA ThreadEndsTypes ==
    ASSUME TypeOK, NEW i \in Entries, ThreadEnds(i)
    PROVE  TypeOK'
<1>1. Tail(queue[i]) \in Seq(Requests \cup {Stop})
  BY HeadTailProperties DEF TypeOK, ThreadEnds
<1> QED  BY <1>1 DEF TypeOK, ThreadEnds, poolVars, callVars

LEMMA FinishTypes ==
    ASSUME TypeOK, NEW i \in Entries, NEW outcome \in Kwargs \cup {"error"},
           Finish(i, outcome)
    PROVE  TypeOK'
<1>1. able' \in [Entries -> BOOLEAN]
  BY Zenon DEF TypeOK, Finish
<1> QED  BY <1>1 DEF TypeOK, Finish, poolVars

\* What finish() gives the callers, whether the call returned or raised.
LEMMA OutcomeTypes ==
    ASSUME TypeOK, NEW i \in Entries, Returns(i) \/ ReturnsLate(i)
    PROVE  \E outcome \in Kwargs \cup {"error"} :
             /\ Finish(i, outcome)
             /\ outcome = "error" \/ \E r \in batch[i] : outcome = r.kwargs
<1>1. batch[i] \subseteq Requests
  BY DEF TypeOK
<1>2. \A r \in batch[i] : r.kwargs \in Kwargs
  BY <1>1 DEF Requests
<1> QED  BY <1>2, Zenon DEF Returns, ReturnsLate, Results

LEMMA HangTypes ==
    ASSUME TypeOK, NEW i \in Entries, Hang(i)
    PROVE  TypeOK'
  BY PoolAssumption DEF TypeOK, Hang, poolVars, callVars

\* There are finitely many who use an entry.
LEMMA UsingFinite ==
    ASSUME NEW i
    PROVE  IsFiniteSet(Using(i)) /\ Cardinality(Using(i)) \in Nat
  BY FS_Subset, FS_CardinalityType, PoolAssumption DEF Using

\* Who uses an entry is counted.
LEMMA UserIsCounted ==
    ASSUME TypeOK, Places, Counted, NEW c \in Callers, NEW i \in Entries, c \in Using(i)
    PROVE  entry[i].refs \in Nat \ {0}
<1>1. Cardinality(Using(i)) # 0
  BY UsingFinite, FS_EmptySet
<1> QED  BY <1>1, UsingFinite DEF Counted, TypeOK

\* One who leaves is not counted any more; the other entries are used as before.
LEMMA UserLeaves ==
    ASSUME TypeOK, NEW c \in Callers,
           \A j \in Entries : Using(j)' = Using(j) \ {c}
    PROVE  /\ \A j \in Entries : entry[j].refs \in Nat /\ Cardinality(Using(j)) \in Nat
           /\ \A j \in Entries : Cardinality(Using(j)') \in Nat
           /\ \A j \in Entries : Cardinality(Using(j)') <= Cardinality(Using(j))
           /\ \A j \in Entries \ {mine[c]} : Using(j)' = Using(j)
           /\ \A j \in Entries : c \in Using(j) =>
                Cardinality(Using(j)') = Cardinality(Using(j)) - 1
<1>1. \A j \in Entries : entry[j].refs \in Nat /\ Cardinality(Using(j)) \in Nat
  BY UsingFinite DEF TypeOK
<1>2. ASSUME NEW j \in Entries
      PROVE  /\ Cardinality(Using(j)') \in Nat
             /\ Cardinality(Using(j)') <= Cardinality(Using(j))
             /\ c \in Using(j) => Cardinality(Using(j)') = Cardinality(Using(j)) - 1
  <2>1. /\ IsFiniteSet(Using(j) \ {c})
        /\ Cardinality(Using(j) \ {c}) =
             IF c \in Using(j) THEN Cardinality(Using(j)) - 1 ELSE Cardinality(Using(j))
    BY UsingFinite, FS_RemoveElement
  <2>2. Cardinality(Using(j) \ {c}) \in Nat
    BY <2>1, FS_CardinalityType
  <2> QED  BY <1>1, <2>1, <2>2
<1>3. ASSUME NEW j \in Entries \ {mine[c]} PROVE Using(j)' = Using(j)
  <2>1. c \notin Using(j)
    BY DEF Using
  <2> QED  BY <2>1
<1> QED  BY <1>1, <1>2, <1>3

\* One who joins is counted.
LEMMA UserJoins ==
    ASSUME TypeOK, NEW c \in Callers, NEW i \in Entries, at[c] = "out",
           Using(i)' = Using(i) \cup {c},
           \A j \in Entries \ {i} : Using(j)' = Using(j)
    PROVE  /\ \A j \in Entries : entry[j].refs \in Nat /\ Cardinality(Using(j)) \in Nat
           /\ \A j \in Entries : Cardinality(Using(j)') =
                IF j = i THEN Cardinality(Using(j)) + 1 ELSE Cardinality(Using(j))
<1>1. \A j \in Entries : entry[j].refs \in Nat /\ Cardinality(Using(j)) \in Nat
  BY UsingFinite DEF TypeOK
<1>2. c \notin Using(i)
  BY DEF Using
<1>3. Cardinality(Using(i) \cup {c}) = Cardinality(Using(i)) + 1
  BY <1>2, UsingFinite, FS_AddElement
<1> QED  BY <1>1, <1>3

LEMMA ReleaseTypes ==
    ASSUME TypeOK, Places, Counted, NEW c \in Callers, Release(c)
    PROVE  TypeOK'
<1> DEFINE i == mine[c]
           final == entry[i].refs = 1 /\ Mapped(i)
<1>1. i \in Entries /\ c \in Using(i)
  BY MineIsEntry DEF Release, Go, Somebody, Using
<1>2. entry[i].refs - 1 \in Nat
  BY <1>1, UserIsCounted
<1>3. /\ at' = [at EXCEPT ![c] = IF final THEN "stop" ELSE "out"]
      /\ entry' = [entry EXCEPT ![i].refs = @ - 1]
      /\ entries' = IF final THEN Forget(i) ELSE entries
      /\ mine' = IF final THEN mine ELSE [mine EXCEPT ![c] = 0]
      /\ UNCHANGED <<closed, made, acquires, queue, threadVars, callVars, toStop>>
  BY Zenon DEF Release, Go
<1> HIDE DEF final
<1>4. entry' \in [Entries -> EntryRecord]
  BY <1>1, <1>2, <1>3, FieldTypes
<1>5. entries' \in [Keys -> 0 .. MaxAcquires]
  BY <1>3, PoolAssumption DEF TypeOK, Forget
<1>6. mine' \in [Somebody -> 0 .. MaxAcquires]
  BY <1>3, PoolAssumption DEF TypeOK, Somebody
<1> QED  BY <1>3, <1>4, <1>5, <1>6 DEF TypeOK, EntryRecord, threadVars, callVars, Somebody

LEMMA StoppedTypes ==
    ASSUME TypeOK, NEW s \in Somebody, Stopped(s)
    PROVE  /\ toStop' \subseteq Entries
           /\ mine' \in [Somebody -> 0 .. MaxAcquires]
           /\ at' = [at EXCEPT ![s] = "out"] \/ at' = [at EXCEPT ![s] = "stop"]
<1>1. toStop \ {mine[s]} \in SUBSET Entries
  BY DEF TypeOK
<1>2. Next1(toStop \ {mine[s]}) \in 0 .. MaxAcquires
  BY <1>1, Next1Works, PoolAssumption DEF Entries
<1>3. mine' = [mine EXCEPT ![s] = IF s = Main THEN Next1(toStop \ {mine[s]}) ELSE 0]
  BY DEF Stopped
<1>4. mine' \in [Somebody -> 0 .. MaxAcquires]
  <2>1. 0 \in 0 .. MaxAcquires
    BY PoolAssumption
  <2> QED  BY <1>2, <1>3, <2>1 DEF TypeOK, Somebody
<1>5. toStop' \subseteq Entries
  BY <1>1, Zenon DEF Stopped, TypeOK
<1>6. at' = [at EXCEPT ![s] = "out"] \/ at' = [at EXCEPT ![s] = "stop"]
  BY Zenon DEF Stopped
<1> QED  BY <1>4, <1>5, <1>6

\* Whoever stopped an entry is out, or Main goes on with another in its list.
LEMMA StoppedParts ==
    ASSUME TypeOK, NEW s \in Somebody, Stopped(s)
    PROVE  /\ \A r \in Somebody \ {s} : at'[r] = at[r] /\ mine'[r] = mine[r]
           /\ s # Main => at'[s] = "out" /\ mine'[s] = 0 /\ toStop' = toStop
           /\ s = Main => toStop' = toStop \ {mine[Main]}
           /\ s = Main => \/ at'[s] = "out" /\ mine'[s] = 0
                          \/ at'[s] = "stop" /\ mine'[s] \in toStop'
<1>1. toStop \ {mine[s]} \in SUBSET Entries
  BY DEF TypeOK
<1>2. 0 \notin Entries
  BY DEF Entries
<1>3. /\ at' = [at EXCEPT ![s] = IF mine'[s] = 0 THEN "out" ELSE "stop"]
      /\ mine' = [mine EXCEPT ![s] = IF s = Main THEN Next1(toStop \ {mine[s]}) ELSE 0]
      /\ toStop' = IF s = Main THEN toStop \ {mine[s]} ELSE toStop
  BY Zenon DEF Stopped
<1>4. /\ \A r \in Somebody \ {s} : at'[r] = at[r] /\ mine'[r] = mine[r]
      /\ at'[s] = IF mine'[s] = 0 THEN "out" ELSE "stop"
      /\ mine'[s] = IF s = Main THEN Next1(toStop \ {mine[s]}) ELSE 0
  BY <1>3 DEF TypeOK, Somebody
<1>5. Next1(toStop \ {mine[s]}) = 0 \/ Next1(toStop \ {mine[s]}) \in toStop \ {mine[s]}
  BY <1>1, Next1Works
<1> QED  BY <1>2, <1>3, <1>4, <1>5, <1>1

LEMMA CloseTypes ==
    ASSUME TypeOK, Close
    PROVE  TypeOK'
<1> DEFINE stops == {i \in Entries : Mapped(i) /\ thread[i] # "none"}
<1>1. Next1(stops) \in 0 .. MaxAcquires
  BY Next1Works, PoolAssumption DEF Entries
<1>2. /\ closed' = TRUE /\ entries' = [k \in Keys |-> 0]
      /\ toStop' = stops /\ mine' = [mine EXCEPT ![Main] = Next1(stops)]
      /\ at' = [at EXCEPT ![Main] = IF stops = {} THEN "out" ELSE "stop"]
      /\ UNCHANGED <<made, acquires, entry, queue, threadVars, callVars>>
  BY Zenon DEF Close
<1>3. stops \subseteq Entries
  OBVIOUS
<1> HIDE DEF stops
<1> QED  BY <1>1, <1>2, <1>3, PoolAssumption DEF TypeOK, threadVars, callVars

LEMMA StopTypes ==
    ASSUME TypeOK, Places, NEW s \in Somebody, StopStep(s)
    PROVE  TypeOK'
<1>1. mine[s] \in Entries
  BY MineIsEntry DEF StopStep, MarkStopping, Joined
<1>2. CASE MarkStopping(s)
  <2>1. CASE entry[mine[s]].stopping
    <3>1. Stopped(s) /\ UNCHANGED <<entry, queue, poolVars, threadVars, callVars>>
      BY <1>2, <2>1 DEF MarkStopping
    <3>2. /\ toStop' \subseteq Entries
          /\ mine' \in [Somebody -> 0 .. MaxAcquires]
          /\ at' = [at EXCEPT ![s] = "out"] \/ at' = [at EXCEPT ![s] = "stop"]
      BY <3>1, StoppedTypes
    <3> QED  BY <3>1, <3>2 DEF TypeOK, poolVars, threadVars, callVars, Somebody
  <2>2. CASE ~entry[mine[s]].stopping
    <3>1. /\ entry' = [entry EXCEPT ![mine[s]].stopping = TRUE]
          /\ queue' = [queue EXCEPT ![mine[s]] = Append(@, Stop)]
          /\ at' = [at EXCEPT ![s] = "join"]
          /\ UNCHANGED <<mine, toStop, poolVars, threadVars, callVars>>
      BY <1>2, <2>2 DEF MarkStopping
    <3>2. Append(queue[mine[s]], Stop) \in Seq(Requests \cup {Stop})
      BY <1>1, AppendProperties DEF TypeOK
    <3>3. queue' \in [Entries -> Seq(Requests \cup {Stop})]
      BY <3>1, <3>2 DEF TypeOK
    <3>4. entry' \in [Entries -> EntryRecord]
      BY <1>1, <3>1, FieldTypes
    <3>5. at' \in [Somebody -> {"out", "load", "start", "publish", "drop", "report", "await",
                                "holds", "calls", "stop", "join"}]
      BY <3>1 DEF TypeOK, Somebody
    <3> QED  BY <3>1, <3>3, <3>4, <3>5 DEF TypeOK, EntryRecord, poolVars, threadVars, callVars, Somebody
  <2> QED  BY <2>1, <2>2
<1>3. CASE Joined(s)
  <2>1. entry' = [entry EXCEPT ![mine[s]].model = FALSE] /\ Stopped(s)
        /\ UNCHANGED <<poolVars, queue, threadVars, callVars>>
    BY <1>3 DEF Joined
  <2>2. /\ toStop' \subseteq Entries
        /\ mine' \in [Somebody -> 0 .. MaxAcquires]
        /\ at' = [at EXCEPT ![s] = "out"] \/ at' = [at EXCEPT ![s] = "stop"]
    BY <2>1, StoppedTypes
  <2>3. entry' \in [Entries -> EntryRecord]
    BY <1>1, <2>1, FieldTypes
  <2> QED  BY <2>1, <2>2, <2>3 DEF TypeOK, EntryRecord, poolVars, threadVars, callVars, Somebody
<1> QED  BY <1>2, <1>3 DEF StopStep

LEMMA TypeStep ==
    ASSUME TypeOK, Places, Counted, [Next]_vars
    PROVE  TypeOK'
<1>1. ASSUME NEW c \in Callers, CallerStep(c) \/ GiveUp(c) PROVE TypeOK'
  BY <1>1, LoadTypes, CallEndsTypes, StopTypes DEF CallerStep, GiveUp, Answered, Somebody
<1>2. ASSUME NEW i \in Entries, ThreadStep(i) \/ Hang(i) \/ ReturnsLate(i) PROVE TypeOK'
  BY <1>2, TakeTypes, ThreadEndsTypes, FinishTypes, OutcomeTypes, HangTypes DEF ThreadStep
<1>3. CASE StopStep(Main)
  BY <1>3, StopTypes DEF Somebody
<1>4. CASE UNCHANGED vars
  BY <1>4 DEF TypeOK, vars, poolVars, threadVars, callVars
<1> QED  BY <1>1, <1>2, <1>3, <1>4, AcquireTypes, SubmitTypes, ReleaseTypes, CloseTypes DEF Next

-----------------------------------------------------------------------------
(* A step keeps what is said of the entries *)

\* A step of a running thread leaves the entries alone.
LEMMA ThreadGoesOn ==
    ASSUME TypeOK, EntryInv, NEW i \in Entries, NEW t,
           thread' = [thread EXCEPT ![i] = t], thread[i] # "none", t # "none",
           UNCHANGED <<poolVars, entry, at, mine, toStop>>
    PROVE  EntryInv'
<1>1. /\ Places /\ Fresh /\ Keyed /\ MainCloses /\ OneCreator /\ Counted
      /\ MappedLives /\ StopsUnmapped /\ LoadsEnd /\ UsersKnow /\ Freed
  BY DEF EntryInv
<1>2. \A p \in Somebody : at[p] # "out" => mine[p] \in Entries
  BY <1>1, MineIsEntry
<1>3. /\ made \in Nat /\ acquires \in Nat /\ toStop \subseteq Entries /\ Entries \subseteq Nat
      /\ made <= acquires /\ \A p \in Somebody : mine[p] \in Nat /\ mine[p] <= made
      /\ \A l \in Keys : entries[l] \in Nat /\ entries[l] <= made
  BY <1>1 DEF TypeOK, Places, Somebody, Entries
<1>4. \A j \in Entries : thread'[j] = "none" <=> thread[j] = "none"
  BY DEF TypeOK
<1>5. UNCHANGED <<entries, closed, made, acquires, entry, at, mine, toStop>>
  BY DEF poolVars
<1>6. \A j : (Using(j)' = Using(j)) /\ (Mapped(j)' <=> Mapped(j))
  BY <1>5 DEF Using, Mapped
<1>7. Places'
  BY <1>1, <1>3, <1>5 DEF Places, Somebody, Stops
<1>8. Fresh'
  BY <1>1, <1>2, <1>3, <1>4, <1>5 DEF Fresh, Somebody
<1>9. Keyed'
  BY <1>1, <1>3, <1>5, <1>6 DEF Keyed
<1>10. MainCloses'
  BY <1>1, <1>5 DEF MainCloses, Somebody
<1>11. OneCreator'
  BY <1>1, <1>2, <1>4, <1>5, <1>6 DEF OneCreator, Somebody, Creates
<1>12. Counted'
  BY <1>1, <1>5, <1>6 DEF Counted
<1>13. MappedLives'
  BY <1>1, <1>2, <1>4, <1>5, <1>6 DEF MappedLives, Somebody, Creates
<1>14. StopsUnmapped'
  BY <1>1, <1>2, <1>3, <1>4, <1>5, <1>6 DEF StopsUnmapped, Somebody, Stops
<1>15. LoadsEnd'
  BY <1>1, <1>4, <1>5 DEF LoadsEnd
<1>16. UsersKnow'
  BY <1>1, <1>2, <1>5, <1>6 DEF UsersKnow, Somebody, Has, Creates
<1>17. Freed'
  BY <1>1, <1>2, <1>3, <1>5, <1>6 DEF Freed, Somebody
<1> QED  BY <1>7, <1>8, <1>9, <1>10, <1>11, <1>12, <1>13, <1>14, <1>15, <1>16, <1>17 DEF EntryInv

\* The loader returned: the model is there.
LEMMA LoadedEntries ==
    ASSUME TypeOK, EntryInv, NEW c \in Callers, Loaded(c)
    PROVE  EntryInv'
<1>1. /\ Places /\ Fresh /\ Keyed /\ MainCloses /\ OneCreator /\ Counted
      /\ MappedLives /\ StopsUnmapped /\ LoadsEnd /\ UsersKnow /\ Freed
  BY DEF EntryInv
<1>2. \A p \in Somebody : at[p] # "out" => mine[p] \in Entries
  BY <1>1, MineIsEntry
<1>3. /\ made \in Nat /\ acquires \in Nat /\ toStop \subseteq Entries /\ Entries \subseteq Nat
      /\ made <= acquires /\ \A p \in Somebody : mine[p] \in Nat /\ mine[p] <= made
      /\ \A l \in Keys : entries[l] \in Nat /\ entries[l] <= made
  BY <1>1 DEF TypeOK, Places, Somebody, Entries
<1>4. at[c] = "load"
  BY DEF Loaded, Go
<1>5. \A s \in Somebody : at'[s] = IF s = c THEN "start" ELSE at[s]
  BY DEF Loaded, Go, TypeOK, Somebody
<1>6. \A j \in Entries :
        /\ entry'[j].refs = entry[j].refs
        /\ entry'[j].ready <=> entry[j].ready
        /\ entry'[j].failed <=> entry[j].failed
        /\ entry'[j].stopping <=> entry[j].stopping
        /\ entry'[j].model <=> entry[j].model \/ j = mine[c]
  BY DEF Loaded, TypeOK
<1>7. UNCHANGED <<closed, entries, made, acquires, thread, mine, toStop>>
  BY DEF Loaded, poolVars, threadVars
<1>8. \A j : (Using(j)' = Using(j)) /\ (Mapped(j)' <=> Mapped(j))
  BY <1>4, <1>5, <1>7 DEF Using, Mapped, Somebody
<1>9. Places'
  BY <1>1, <1>3, <1>4, <1>5, <1>7 DEF Places, Somebody, Stops
<1>10. Fresh'
  BY <1>1, <1>2, <1>3, <1>4, <1>6, <1>7 DEF Fresh, Somebody
<1>11. Keyed'
  BY <1>1, <1>3, <1>4, <1>7, <1>8 DEF Keyed
<1>12. MainCloses'
  BY <1>1, <1>4, <1>5, <1>7 DEF MainCloses, Somebody
<1>13. OneCreator'
  BY <1>1, <1>2, <1>4, <1>5, <1>6, <1>7, <1>8 DEF OneCreator, Somebody, Creates
<1>14. Counted'
  BY <1>1, <1>4, <1>6, <1>7, <1>8 DEF Counted
<1>15. MappedLives'
  BY <1>1, <1>2, <1>4, <1>5, <1>6, <1>7, <1>8 DEF MappedLives, Somebody, Creates
<1>16. StopsUnmapped'
  BY <1>1, <1>2, <1>3, <1>4, <1>5, <1>6, <1>7, <1>8 DEF StopsUnmapped, Somebody, Stops
<1>17. LoadsEnd'
  BY <1>1, <1>4, <1>6, <1>7 DEF LoadsEnd
<1>18. UsersKnow'
  BY <1>1, <1>2, <1>4, <1>5, <1>6, <1>7, <1>8 DEF UsersKnow, Somebody, Has, Creates
<1>19. Freed'
  BY <1>1, <1>2, <1>3, <1>4, <1>5, <1>6, <1>7, <1>8 DEF Freed, Somebody
<1> QED  BY <1>9, <1>10, <1>11, <1>12, <1>13, <1>14, <1>15, <1>16, <1>17, <1>18, <1>19 DEF EntryInv

\* The loader raised: there is no model, and the creator drops the entry.
LEMMA LoadRaisesEntries ==
    ASSUME TypeOK, EntryInv, NEW c \in Callers, LoadRaises(c)
    PROVE  EntryInv'
<1>1. /\ Places /\ Fresh /\ Keyed /\ MainCloses /\ OneCreator /\ Counted
      /\ MappedLives /\ StopsUnmapped /\ LoadsEnd /\ UsersKnow /\ Freed
  BY DEF EntryInv
<1>2. \A p \in Somebody : at[p] # "out" => mine[p] \in Entries
  BY <1>1, MineIsEntry
<1>3. /\ made \in Nat /\ acquires \in Nat /\ toStop \subseteq Entries /\ Entries \subseteq Nat
      /\ made <= acquires /\ \A p \in Somebody : mine[p] \in Nat /\ mine[p] <= made
      /\ \A l \in Keys : entries[l] \in Nat /\ entries[l] <= made
  BY <1>1 DEF TypeOK, Places, Somebody, Entries
<1>4. at[c] = "load"
  BY DEF LoadRaises, Go
<1>5. \A s \in Somebody : at'[s] = IF s = c THEN "drop" ELSE at[s]
  BY DEF LoadRaises, Go, TypeOK, Somebody
<1>6. UNCHANGED <<closed, entries, made, acquires, thread, mine, toStop, entry>>
  BY DEF LoadRaises, poolVars, threadVars
<1>7. \A j : (Using(j)' = Using(j)) /\ (Mapped(j)' <=> Mapped(j))
  BY <1>4, <1>5, <1>6 DEF Using, Mapped, Somebody
<1>8. Places'
  BY <1>1, <1>3, <1>4, <1>5, <1>6 DEF Places, Somebody, Stops
<1>9. Fresh'
  BY <1>1, <1>2, <1>3, <1>4, <1>6 DEF Fresh, Somebody
<1>10. Keyed'
  BY <1>1, <1>3, <1>4, <1>6, <1>7 DEF Keyed
<1>11. MainCloses'
  BY <1>1, <1>4, <1>5, <1>6 DEF MainCloses, Somebody
<1>12. OneCreator'
  BY <1>1, <1>2, <1>4, <1>5, <1>6, <1>7 DEF OneCreator, Somebody, Creates
<1>13. Counted'
  BY <1>1, <1>4, <1>6, <1>7 DEF Counted
<1>14. MappedLives'
  BY <1>1, <1>2, <1>4, <1>5, <1>6, <1>7 DEF MappedLives, Somebody, Creates
<1>15. StopsUnmapped'
  BY <1>1, <1>2, <1>3, <1>4, <1>5, <1>6, <1>7 DEF StopsUnmapped, Somebody, Stops
<1>16. LoadsEnd'
  BY <1>1, <1>4, <1>6 DEF LoadsEnd
<1>17. UsersKnow'
  BY <1>1, <1>2, <1>4, <1>5, <1>6, <1>7 DEF UsersKnow, Somebody, Has, Creates
<1>18. Freed'
  BY <1>1, <1>2, <1>3, <1>4, <1>5, <1>6, <1>7 DEF Freed, Somebody
<1> QED  BY <1>8, <1>9, <1>10, <1>11, <1>12, <1>13, <1>14, <1>15, <1>16, <1>17, <1>18 DEF EntryInv

\* The pool closed while the model loaded.
LEMMA ClosedEntries ==
    ASSUME TypeOK, EntryInv, NEW c \in Callers, StartThread(c), closed
    PROVE  EntryInv'
<1>1. /\ Places /\ Fresh /\ Keyed /\ MainCloses /\ OneCreator /\ Counted
      /\ MappedLives /\ StopsUnmapped /\ LoadsEnd /\ UsersKnow /\ Freed
  BY DEF EntryInv
<1>2. \A p \in Somebody : at[p] # "out" => mine[p] \in Entries
  BY <1>1, MineIsEntry
<1>3. /\ made \in Nat /\ acquires \in Nat /\ toStop \subseteq Entries /\ Entries \subseteq Nat
      /\ made <= acquires /\ \A p \in Somebody : mine[p] \in Nat /\ mine[p] <= made
      /\ \A l \in Keys : entries[l] \in Nat /\ entries[l] <= made
  BY <1>1 DEF TypeOK, Places, Somebody, Entries
<1>4. at[c] = "start"
  BY DEF StartThread, Go
<1>5. \A s \in Somebody : at'[s] = IF s = c THEN "drop" ELSE at[s]
  BY DEF StartThread, Go, TypeOK, Somebody
<1>6. UNCHANGED <<closed, entries, made, acquires, thread, mine, toStop, entry>>
  BY DEF StartThread, poolVars
<1>7. \A j : (Using(j)' = Using(j)) /\ (Mapped(j)' <=> Mapped(j))
  BY <1>4, <1>5, <1>6 DEF Using, Mapped, Somebody
<1>8. Places'
  BY <1>1, <1>3, <1>4, <1>5, <1>6 DEF Places, Somebody, Stops
<1>9. Fresh'
  BY <1>1, <1>2, <1>3, <1>4, <1>6 DEF Fresh, Somebody
<1>10. Keyed'
  BY <1>1, <1>3, <1>4, <1>6, <1>7 DEF Keyed
<1>11. MainCloses'
  BY <1>1, <1>4, <1>5, <1>6 DEF MainCloses, Somebody
<1>12. OneCreator'
  BY <1>1, <1>2, <1>4, <1>5, <1>6, <1>7 DEF OneCreator, Somebody, Creates
<1>13. Counted'
  BY <1>1, <1>4, <1>6, <1>7 DEF Counted
<1>14. MappedLives'
  BY <1>1, <1>2, <1>4, <1>5, <1>6, <1>7 DEF MappedLives, Somebody, Creates
<1>15. StopsUnmapped'
  BY <1>1, <1>2, <1>3, <1>4, <1>5, <1>6, <1>7 DEF StopsUnmapped, Somebody, Stops
<1>16. LoadsEnd'
  BY <1>1, <1>4, <1>6 DEF LoadsEnd
<1>17. UsersKnow'
  BY <1>1, <1>2, <1>4, <1>5, <1>6, <1>7 DEF UsersKnow, Somebody, Has, Creates
<1>18. Freed'
  BY <1>1, <1>2, <1>3, <1>4, <1>5, <1>6, <1>7 DEF Freed, Somebody
<1> QED  BY <1>8, <1>9, <1>10, <1>11, <1>12, <1>13, <1>14, <1>15, <1>16, <1>17, <1>18 DEF EntryInv

\* The thread starts; from then on the entry can be stopped.
LEMMA StartThreadEntries ==
    ASSUME TypeOK, EntryInv, NEW c \in Callers, StartThread(c), ~closed
    PROVE  EntryInv'
<1>1. /\ Places /\ Fresh /\ Keyed /\ MainCloses /\ OneCreator /\ Counted
      /\ MappedLives /\ StopsUnmapped /\ LoadsEnd /\ UsersKnow /\ Freed
  BY DEF EntryInv
<1>2. \A p \in Somebody : at[p] # "out" => mine[p] \in Entries
  BY <1>1, MineIsEntry
<1>3. /\ made \in Nat /\ acquires \in Nat /\ toStop \subseteq Entries /\ Entries \subseteq Nat
      /\ made <= acquires /\ \A p \in Somebody : mine[p] \in Nat /\ mine[p] <= made
      /\ \A l \in Keys : entries[l] \in Nat /\ entries[l] <= made
  BY <1>1 DEF TypeOK, Places, Somebody, Entries
<1>4. at[c] = "start"
  BY DEF StartThread, Go
<1>5. \A s \in Somebody : at'[s] = IF s = c THEN "publish" ELSE at[s]
  BY DEF StartThread, Go, TypeOK, Somebody
<1>6. \A j \in Entries : thread'[j] = IF j = mine[c] THEN "idle" ELSE thread[j]
  BY DEF StartThread, TypeOK
<1>7. UNCHANGED <<closed, entries, made, acquires, mine, toStop, entry>>
  BY DEF StartThread, poolVars
<1>8. \A j : (Using(j)' = Using(j)) /\ (Mapped(j)' <=> Mapped(j))
  BY <1>4, <1>5, <1>7 DEF Using, Mapped, Somebody
<1>9. /\ mine[c] \in Entries /\ ~entry[mine[c]].ready /\ ~entry[mine[c]].failed
      /\ \A d \in Callers \ {c} : mine[d] = mine[c] => at[d] \notin Creates
      /\ entry[mine[c]].model /\ Mapped(mine[c])
  BY <1>1, <1>2, <1>4 DEF OneCreator, Creates, Somebody
<1>10. Places'
  BY <1>1, <1>3, <1>4, <1>5, <1>7, <1>9 DEF Places, Somebody, Stops
<1>11. Fresh'
  BY <1>1, <1>2, <1>3, <1>4, <1>6, <1>7, <1>9 DEF Fresh, Somebody
<1>12. Keyed'
  BY <1>1, <1>3, <1>4, <1>7, <1>8, <1>9 DEF Keyed
<1>13. MainCloses'
  BY <1>1, <1>4, <1>5, <1>7, <1>9 DEF MainCloses, Somebody
<1>14. OneCreator'
  BY <1>1, <1>2, <1>4, <1>5, <1>6, <1>7, <1>8, <1>9 DEF OneCreator, Somebody, Creates
<1>15. Counted'
  BY <1>1, <1>4, <1>7, <1>8, <1>9 DEF Counted
<1>16. MappedLives'
  BY <1>1, <1>2, <1>4, <1>5, <1>6, <1>7, <1>8, <1>9 DEF MappedLives, Somebody, Creates
<1>17. StopsUnmapped'
  BY <1>1, <1>2, <1>3, <1>4, <1>5, <1>6, <1>7, <1>8, <1>9 DEF StopsUnmapped, Somebody, Stops
<1>18. LoadsEnd'
  BY <1>1, <1>4, <1>6, <1>7, <1>9 DEF LoadsEnd
<1>19. UsersKnow'
  BY <1>1, <1>2, <1>4, <1>5, <1>7, <1>8, <1>9 DEF UsersKnow, Somebody, Has, Creates
<1>20. Freed'
  BY <1>1, <1>2, <1>3, <1>4, <1>5, <1>7, <1>8, <1>9 DEF Freed, Somebody
<1> QED  BY <1>10, <1>11, <1>12, <1>13, <1>14, <1>15, <1>16, <1>17, <1>18, <1>19, <1>20 DEF EntryInv

\* The creator has the handle, and who waits for it sees that it is ready.
LEMMA PublishEntries ==
    ASSUME TypeOK, EntryInv, NEW c \in Callers, Publish(c)
    PROVE  EntryInv'
<1>1. /\ Places /\ Fresh /\ Keyed /\ MainCloses /\ OneCreator /\ Counted
      /\ MappedLives /\ StopsUnmapped /\ LoadsEnd /\ UsersKnow /\ Freed
  BY DEF EntryInv
<1>2. \A p \in Somebody : at[p] # "out" => mine[p] \in Entries
  BY <1>1, MineIsEntry
<1>3. /\ made \in Nat /\ acquires \in Nat /\ toStop \subseteq Entries /\ Entries \subseteq Nat
      /\ made <= acquires /\ \A p \in Somebody : mine[p] \in Nat /\ mine[p] <= made
      /\ \A l \in Keys : entries[l] \in Nat /\ entries[l] <= made
  BY <1>1 DEF TypeOK, Places, Somebody, Entries
<1>4. at[c] = "publish"
  BY DEF Publish, Go
<1>5. \A s \in Somebody : at'[s] = IF s = c THEN "holds" ELSE at[s]
  BY DEF Publish, Go, TypeOK, Somebody
<1>6. \A j \in Entries :
        /\ entry'[j].refs = entry[j].refs
        /\ entry'[j].ready <=> entry[j].ready \/ j = mine[c]
        /\ entry'[j].failed <=> entry[j].failed
        /\ entry'[j].stopping <=> entry[j].stopping
        /\ entry'[j].model <=> entry[j].model
  BY DEF Publish, TypeOK
<1>7. UNCHANGED <<closed, entries, made, acquires, thread, mine, toStop>>
  BY DEF Publish, poolVars, threadVars
<1>8. \A j : (Using(j)' = Using(j)) /\ (Mapped(j)' <=> Mapped(j))
  BY <1>4, <1>5, <1>7 DEF Using, Mapped, Somebody
<1>9. /\ mine[c] \in Entries /\ ~entry[mine[c]].ready /\ ~entry[mine[c]].failed
      /\ \A d \in Callers \ {c} : mine[d] = mine[c] => at[d] \notin Creates
      /\ thread[mine[c]] # "none" /\ (~closed => entry[mine[c]].model /\ Mapped(mine[c]))
  BY <1>1, <1>2, <1>4 DEF OneCreator, Creates, Somebody
<1>10. \A j \in Entries : Mapped(j) => ~closed
  BY <1>1 DEF Keyed, Mapped, Entries
<1>11. Places'
  BY <1>1, <1>3, <1>4, <1>5, <1>7, <1>9, <1>10 DEF Places, Somebody, Stops
<1>12. Fresh'
  BY <1>1, <1>2, <1>3, <1>4, <1>6, <1>7, <1>9, <1>10 DEF Fresh, Somebody
<1>13. Keyed'
  BY <1>1, <1>3, <1>4, <1>7, <1>8, <1>9, <1>10 DEF Keyed
<1>14. MainCloses'
  BY <1>1, <1>4, <1>5, <1>7, <1>9, <1>10 DEF MainCloses, Somebody
<1>15. OneCreator'
  BY <1>1, <1>2, <1>4, <1>5, <1>6, <1>7, <1>8, <1>9, <1>10 DEF OneCreator, Somebody, Creates
<1>16. Counted'
  BY <1>1, <1>4, <1>6, <1>7, <1>8, <1>9, <1>10 DEF Counted
<1>17. MappedLives'
  BY <1>1, <1>2, <1>4, <1>5, <1>6, <1>7, <1>8, <1>9, <1>10 DEF MappedLives, Somebody, Creates
<1>18. StopsUnmapped'
  BY <1>1, <1>2, <1>3, <1>4, <1>5, <1>6, <1>7, <1>8, <1>9, <1>10 DEF StopsUnmapped, Somebody, Stops
<1>19. LoadsEnd'
  BY <1>1, <1>4, <1>6, <1>7, <1>9, <1>10 DEF LoadsEnd
<1>20. UsersKnow'
  BY <1>1, <1>2, <1>4, <1>5, <1>6, <1>7, <1>8, <1>9, <1>10 DEF UsersKnow, Somebody, Has, Creates
<1>21. Freed'
  BY <1>1, <1>2, <1>3, <1>4, <1>5, <1>6, <1>7, <1>8, <1>9, <1>10 DEF Freed, Somebody
<1> QED  BY <1>11, <1>12, <1>13, <1>14, <1>15, <1>16, <1>17, <1>18, <1>19, <1>20, <1>21 DEF EntryInv

\* The entry leaves the map before anybody learns that it failed.
LEMMA DropEntries ==
    ASSUME TypeOK, EntryInv, NEW c \in Callers, Drop(c)
    PROVE  EntryInv'
<1>1. /\ Places /\ Fresh /\ Keyed /\ MainCloses /\ OneCreator /\ Counted
      /\ MappedLives /\ StopsUnmapped /\ LoadsEnd /\ UsersKnow /\ Freed
  BY DEF EntryInv
<1>2. \A p \in Somebody : at[p] # "out" => mine[p] \in Entries
  BY <1>1, MineIsEntry
<1>3. /\ made \in Nat /\ acquires \in Nat /\ toStop \subseteq Entries /\ Entries \subseteq Nat
      /\ made <= acquires /\ \A p \in Somebody : mine[p] \in Nat /\ mine[p] <= made
      /\ \A l \in Keys : entries[l] \in Nat /\ entries[l] <= made
  BY <1>1 DEF TypeOK, Places, Somebody, Entries
<1>4. at[c] = "drop"
  BY DEF Drop, Go
<1>5. \A s \in Somebody : at'[s] = IF s = c THEN "report" ELSE at[s]
  BY DEF Drop, Go, TypeOK, Somebody
<1>6. UNCHANGED <<closed, made, acquires, thread, mine, toStop, entry>>
  BY DEF Drop, threadVars
<1>7. \A k \in Keys : entries'[k] = IF entries[k] = mine[c] THEN 0 ELSE entries[k]
  BY DEF Drop, Forget
<1>8. \A j \in Entries : Mapped(j)' <=> Mapped(j) /\ j # mine[c]
  BY <1>3, <1>7 DEF Mapped, Entries
<1>9. \A j : Using(j)' = Using(j)
  BY <1>4, <1>5, <1>6 DEF Using, Somebody
<1>10. Places'
  BY <1>1, <1>3, <1>4, <1>5, <1>6, <1>7 DEF Places, Somebody, Stops
<1>11. Fresh'
  BY <1>1, <1>2, <1>3, <1>4, <1>6, <1>7 DEF Fresh, Somebody
<1>12. Keyed'
  BY <1>1, <1>3, <1>4, <1>6, <1>7, <1>8 DEF Keyed
<1>13. MainCloses'
  BY <1>1, <1>4, <1>5, <1>6, <1>7 DEF MainCloses, Somebody
<1>14. OneCreator'
  BY <1>1, <1>2, <1>4, <1>5, <1>6, <1>7, <1>8 DEF OneCreator, Somebody, Creates
<1>15. Counted'
  BY <1>1, <1>4, <1>6, <1>7, <1>8, <1>9 DEF Counted
<1>16. MappedLives'
  BY <1>1, <1>2, <1>4, <1>5, <1>6, <1>7, <1>8 DEF MappedLives, Somebody, Creates
<1>17. StopsUnmapped'
  BY <1>1, <1>2, <1>3, <1>4, <1>5, <1>6, <1>7, <1>8 DEF StopsUnmapped, Somebody, Stops
<1>18. LoadsEnd'
  BY <1>1, <1>4, <1>6, <1>7 DEF LoadsEnd
<1>19. UsersKnow'
  BY <1>1, <1>2, <1>4, <1>5, <1>6, <1>7, <1>8 DEF UsersKnow, Somebody, Has, Creates
<1>20. Freed'
  BY <1>1, <1>2, <1>3, <1>4, <1>5, <1>6, <1>7, <1>8 DEF Freed, Somebody
<1> QED  BY <1>10, <1>11, <1>12, <1>13, <1>14, <1>15, <1>16, <1>17, <1>18, <1>19, <1>20 DEF EntryInv

\* The creator tells those who wait that the load failed, and is out.
LEMMA ReportEntries ==
    ASSUME TypeOK, EntryInv, NEW c \in Callers, Report(c)
    PROVE  EntryInv'
<1>1. /\ Places /\ Fresh /\ Keyed /\ MainCloses /\ OneCreator /\ Counted
      /\ MappedLives /\ StopsUnmapped /\ LoadsEnd /\ UsersKnow /\ Freed
  BY DEF EntryInv
<1>2. \A p \in Somebody : at[p] # "out" => mine[p] \in Entries
  BY <1>1, MineIsEntry
<1>3. /\ made \in Nat /\ acquires \in Nat /\ toStop \subseteq Entries /\ Entries \subseteq Nat
      /\ made <= acquires /\ \A p \in Somebody : mine[p] \in Nat /\ mine[p] <= made
      /\ \A l \in Keys : entries[l] \in Nat /\ entries[l] <= made
  BY <1>1 DEF TypeOK, Places, Somebody, Entries
<1>4. at[c] = "report"
  BY DEF Report, Go
<1>5. \A s \in Somebody : at'[s] = IF s = c THEN "out" ELSE at[s]
  BY DEF Report, Go, TypeOK, Somebody
<1>6. \A s \in Somebody : mine'[s] = IF s = c THEN 0 ELSE mine[s]
  BY DEF Report, TypeOK, Somebody
<1>7. \A j \in Entries :
        /\ entry'[j].refs = entry[j].refs
        /\ entry'[j].ready <=> entry[j].ready \/ j = mine[c]
        /\ entry'[j].failed <=> entry[j].failed \/ j = mine[c]
        /\ entry'[j].stopping <=> entry[j].stopping
        /\ entry'[j].model <=> entry[j].model /\ j # mine[c]
  BY DEF Report, TypeOK
<1>8. UNCHANGED <<closed, entries, made, acquires, thread, toStop>>
  BY DEF Report, poolVars, threadVars
<1>9. \A j : Mapped(j)' <=> Mapped(j)
  BY <1>8 DEF Mapped
<1>10. \A j \in Entries : Using(j)' = Using(j) \ {c}
  BY <1>5, <1>6 DEF Using, Somebody, Entries
<1>11. /\ \A j \in Entries : entry[j].refs \in Nat /\ Cardinality(Using(j)) \in Nat
       /\ \A j \in Entries : Cardinality(Using(j)') \in Nat
       /\ \A j \in Entries : Cardinality(Using(j)') <= Cardinality(Using(j))
       /\ \A j \in Entries \ {mine[c]} : Using(j)' = Using(j)
  BY <1>10, UserLeaves
<1>12. /\ mine[c] \in Entries /\ ~entry[mine[c]].ready /\ ~entry[mine[c]].failed
       /\ \A d \in Callers \ {c} : mine[d] = mine[c] => at[d] \notin Creates
       /\ ~Mapped(mine[c]) /\ thread[mine[c]] = "none"
  BY <1>1, <1>2, <1>4 DEF OneCreator, Creates, Somebody
<1>13. Places'
  BY <1>1, <1>3, <1>4, <1>5, <1>6, <1>8, <1>12 DEF Places, Somebody, Stops
<1>14. Fresh'
  <2> SUFFICES ASSUME NEW j \in Entries, j > made
               PROVE  /\ entry'[j].refs = 0 /\ thread'[j] = "none"
                      /\ ~entry'[j].ready /\ ~entry'[j].failed
                      /\ ~entry'[j].model /\ ~entry'[j].stopping
    BY <1>8 DEF Fresh
  <2>1. j # mine[c]
    BY <1>3 DEF Somebody
  <2> QED  BY <1>1, <1>7, <1>8, <2>1 DEF Fresh
<1>15. Keyed'
  BY <1>1, <1>3, <1>4, <1>8, <1>9, <1>12 DEF Keyed
<1>16. MainCloses'
  BY <1>1, <1>4, <1>5, <1>6, <1>8, <1>12 DEF MainCloses, Somebody
<1>17. OneCreator'
  BY <1>1, <1>2, <1>4, <1>5, <1>6, <1>7, <1>8, <1>9, <1>12 DEF OneCreator, Somebody, Creates
<1>18. Counted'
  BY <1>1, <1>4, <1>7, <1>8, <1>9, <1>10, <1>11, <1>12 DEF Counted
<1>19. MappedLives'
  BY <1>1, <1>2, <1>4, <1>5, <1>6, <1>7, <1>8, <1>9, <1>12 DEF MappedLives, Somebody, Creates
<1>20. StopsUnmapped'
  BY <1>1, <1>2, <1>3, <1>4, <1>5, <1>6, <1>7, <1>8, <1>9, <1>12 DEF StopsUnmapped, Somebody, Stops
<1>21. LoadsEnd'
  BY <1>1, <1>4, <1>7, <1>8, <1>12 DEF LoadsEnd
<1>22. UsersKnow'
  BY <1>1, <1>2, <1>4, <1>5, <1>6, <1>7, <1>8, <1>9, <1>12 DEF UsersKnow, Somebody, Has, Creates
<1>23. Freed'
  BY <1>1, <1>2, <1>3, <1>4, <1>5, <1>6, <1>7, <1>8, <1>9, <1>12 DEF Freed, Somebody
<1> QED  BY <1>13, <1>14, <1>15, <1>16, <1>17, <1>18, <1>19, <1>20, <1>21, <1>22, <1>23 DEF EntryInv

\* The load failed, and the one who waited leaves.
LEMMA RefusedEntries ==
    ASSUME TypeOK, EntryInv, NEW c \in Callers, Ready(c), entry[mine[c]].failed
    PROVE  EntryInv'
<1>1. /\ Places /\ Fresh /\ Keyed /\ MainCloses /\ OneCreator /\ Counted
      /\ MappedLives /\ StopsUnmapped /\ LoadsEnd /\ UsersKnow /\ Freed
  BY DEF EntryInv
<1>2. \A p \in Somebody : at[p] # "out" => mine[p] \in Entries
  BY <1>1, MineIsEntry
<1>3. /\ made \in Nat /\ acquires \in Nat /\ toStop \subseteq Entries /\ Entries \subseteq Nat
      /\ made <= acquires /\ \A p \in Somebody : mine[p] \in Nat /\ mine[p] <= made
      /\ \A l \in Keys : entries[l] \in Nat /\ entries[l] <= made
  BY <1>1 DEF TypeOK, Places, Somebody, Entries
<1>4. at[c] = "await"
  BY DEF Ready, Go
<1>5. \A s \in Somebody : at'[s] = IF s = c THEN "out" ELSE at[s]
  BY DEF Ready, Go, TypeOK, Somebody
<1>6. \A s \in Somebody : mine'[s] = IF s = c THEN 0 ELSE mine[s]
  BY DEF Ready, TypeOK, Somebody
<1>7. UNCHANGED <<closed, entries, made, acquires, thread, toStop, entry>>
  BY DEF Ready, poolVars, threadVars
<1>8. \A j : Mapped(j)' <=> Mapped(j)
  BY <1>7 DEF Mapped
<1>9. \A j \in Entries : Using(j)' = Using(j) \ {c}
  BY <1>5, <1>6 DEF Using, Somebody, Entries
<1>10. /\ \A j \in Entries : entry[j].refs \in Nat /\ Cardinality(Using(j)) \in Nat
       /\ \A j \in Entries : Cardinality(Using(j)') \in Nat
       /\ \A j \in Entries : Cardinality(Using(j)') <= Cardinality(Using(j))
       /\ \A j \in Entries \ {mine[c]} : Using(j)' = Using(j)
  BY <1>9, UserLeaves
<1>11. ~Mapped(mine[c])
  BY <1>1, <1>2, <1>4 DEF MappedLives, Somebody
<1>12. Places'
  BY <1>1, <1>3, <1>4, <1>5, <1>6, <1>7, <1>11 DEF Places, Somebody, Stops
<1>13. Fresh'
  BY <1>1, <1>2, <1>3, <1>4, <1>7, <1>11 DEF Fresh, Somebody
<1>14. Keyed'
  BY <1>1, <1>3, <1>4, <1>7, <1>8, <1>11 DEF Keyed
<1>15. MainCloses'
  BY <1>1, <1>4, <1>5, <1>6, <1>7, <1>11 DEF MainCloses, Somebody
<1>16. OneCreator'
  BY <1>1, <1>2, <1>4, <1>5, <1>6, <1>7, <1>8, <1>11 DEF OneCreator, Somebody, Creates
<1>17. Counted'
  BY <1>1, <1>4, <1>7, <1>8, <1>9, <1>10, <1>11 DEF Counted
<1>18. MappedLives'
  BY <1>1, <1>2, <1>4, <1>5, <1>6, <1>7, <1>8, <1>11 DEF MappedLives, Somebody, Creates
<1>19. StopsUnmapped'
  BY <1>1, <1>2, <1>3, <1>4, <1>5, <1>6, <1>7, <1>8, <1>11 DEF StopsUnmapped, Somebody, Stops
<1>20. LoadsEnd'
  BY <1>1, <1>4, <1>7, <1>11 DEF LoadsEnd
<1>21. UsersKnow'
  BY <1>1, <1>2, <1>4, <1>5, <1>6, <1>7, <1>8, <1>11 DEF UsersKnow, Somebody, Has, Creates
<1>22. Freed'
  BY <1>1, <1>2, <1>3, <1>4, <1>5, <1>6, <1>7, <1>8, <1>11 DEF Freed, Somebody
<1> QED  BY <1>12, <1>13, <1>14, <1>15, <1>16, <1>17, <1>18, <1>19, <1>20, <1>21, <1>22 DEF EntryInv

\* The one who waited has a handle.
LEMMA ReadyEntries ==
    ASSUME TypeOK, EntryInv, NEW c \in Callers, Ready(c), ~entry[mine[c]].failed
    PROVE  EntryInv'
<1>1. /\ Places /\ Fresh /\ Keyed /\ MainCloses /\ OneCreator /\ Counted
      /\ MappedLives /\ StopsUnmapped /\ LoadsEnd /\ UsersKnow /\ Freed
  BY DEF EntryInv
<1>2. \A p \in Somebody : at[p] # "out" => mine[p] \in Entries
  BY <1>1, MineIsEntry
<1>3. /\ made \in Nat /\ acquires \in Nat /\ toStop \subseteq Entries /\ Entries \subseteq Nat
      /\ made <= acquires /\ \A p \in Somebody : mine[p] \in Nat /\ mine[p] <= made
      /\ \A l \in Keys : entries[l] \in Nat /\ entries[l] <= made
  BY <1>1 DEF TypeOK, Places, Somebody, Entries
<1>4. at[c] = "await" /\ entry[mine[c]].ready
  BY DEF Ready, Go
<1>5. \A s \in Somebody : at'[s] = IF s = c THEN "holds" ELSE at[s]
  BY DEF Ready, Go, TypeOK, Somebody
<1>6. UNCHANGED <<closed, entries, made, acquires, thread, mine, toStop, entry>>
  BY DEF Ready, poolVars, threadVars
<1>7. \A j : (Using(j)' = Using(j)) /\ (Mapped(j)' <=> Mapped(j))
  BY <1>4, <1>5, <1>6 DEF Using, Mapped, Somebody
<1>8. Places'
  BY <1>1, <1>3, <1>4, <1>5, <1>6 DEF Places, Somebody, Stops
<1>9. Fresh'
  BY <1>1, <1>2, <1>3, <1>4, <1>6 DEF Fresh, Somebody
<1>10. Keyed'
  BY <1>1, <1>3, <1>4, <1>6, <1>7 DEF Keyed
<1>11. MainCloses'
  BY <1>1, <1>4, <1>5, <1>6 DEF MainCloses, Somebody
<1>12. OneCreator'
  BY <1>1, <1>2, <1>4, <1>5, <1>6, <1>7 DEF OneCreator, Somebody, Creates
<1>13. Counted'
  BY <1>1, <1>4, <1>6, <1>7 DEF Counted
<1>14. MappedLives'
  BY <1>1, <1>2, <1>4, <1>5, <1>6, <1>7 DEF MappedLives, Somebody, Creates
<1>15. StopsUnmapped'
  BY <1>1, <1>2, <1>3, <1>4, <1>5, <1>6, <1>7 DEF StopsUnmapped, Somebody, Stops
<1>16. LoadsEnd'
  BY <1>1, <1>4, <1>6 DEF LoadsEnd
<1>17. UsersKnow'
  BY <1>1, <1>2, <1>4, <1>5, <1>6, <1>7 DEF UsersKnow, Somebody, Has, Creates
<1>18. Freed'
  BY <1>1, <1>2, <1>3, <1>4, <1>5, <1>6, <1>7 DEF Freed, Somebody
<1> QED  BY <1>8, <1>9, <1>10, <1>11, <1>12, <1>13, <1>14, <1>15, <1>16, <1>17, <1>18 DEF EntryInv

\* A caller that makes a call or ends one keeps its handle.
LEMMA CallEntries ==
    ASSUME TypeOK, EntryInv, NEW c \in Callers, NEW to \in Has,
           at[c] \in Has, at' = [at EXCEPT ![c] = to],
           UNCHANGED <<poolVars, entry, thread, mine, toStop>>
    PROVE  EntryInv'
<1>1. /\ Places /\ Fresh /\ Keyed /\ MainCloses /\ OneCreator /\ Counted
      /\ MappedLives /\ StopsUnmapped /\ LoadsEnd /\ UsersKnow /\ Freed
  BY DEF EntryInv
<1>2. \A p \in Somebody : at[p] # "out" => mine[p] \in Entries
  BY <1>1, MineIsEntry
<1>3. /\ made \in Nat /\ acquires \in Nat /\ toStop \subseteq Entries /\ Entries \subseteq Nat
      /\ made <= acquires /\ \A p \in Somebody : mine[p] \in Nat /\ mine[p] <= made
      /\ \A l \in Keys : entries[l] \in Nat /\ entries[l] <= made
  BY <1>1 DEF TypeOK, Places, Somebody, Entries
<1>4. /\ c # Main /\ c \in Somebody /\ Main \in Somebody
      /\ at[c] \in {"holds", "calls"} /\ to \in {"holds", "calls"}
  BY PoolAssumption DEF Has, Somebody
<1>5. \A s \in Somebody : at'[s] = IF s = c THEN to ELSE at[s]
  BY DEF TypeOK, Somebody
<1>6. UNCHANGED <<closed, entries, made, acquires, thread, mine, toStop, entry>>
  BY DEF poolVars
<1>7. \A j : (Using(j)' = Using(j)) /\ (Mapped(j)' <=> Mapped(j))
  BY <1>4, <1>5, <1>6 DEF Using, Mapped, Somebody
<1>8. Places'
  BY <1>1, <1>3, <1>4, <1>5, <1>6 DEF Places, Somebody, Stops
<1>9. Fresh'
  BY <1>1, <1>2, <1>3, <1>4, <1>6 DEF Fresh, Somebody
<1>10. Keyed'
  BY <1>1, <1>3, <1>4, <1>6, <1>7 DEF Keyed
<1>11. MainCloses'
  BY <1>1, <1>4, <1>5, <1>6 DEF MainCloses, Somebody
<1>12. OneCreator'
  BY <1>1, <1>2, <1>4, <1>5, <1>6, <1>7 DEF OneCreator, Somebody, Creates
<1>13. Counted'
  BY <1>1, <1>4, <1>6, <1>7 DEF Counted
<1>14. MappedLives'
  BY <1>1, <1>2, <1>4, <1>5, <1>6, <1>7 DEF MappedLives, Somebody, Creates
<1>15. StopsUnmapped'
  BY <1>1, <1>2, <1>3, <1>4, <1>5, <1>6, <1>7 DEF StopsUnmapped, Somebody, Stops
<1>16. LoadsEnd'
  BY <1>1, <1>4, <1>6 DEF LoadsEnd
<1>17. UsersKnow'
  BY <1>1, <1>2, <1>4, <1>5, <1>6, <1>7 DEF UsersKnow, Somebody, Has, Creates
<1>18. Freed'
  BY <1>1, <1>2, <1>3, <1>4, <1>5, <1>6, <1>7 DEF Freed, Somebody
<1> QED  BY <1>8, <1>9, <1>10, <1>11, <1>12, <1>13, <1>14, <1>15, <1>16, <1>17, <1>18 DEF EntryInv

\* A caller joins the entry that is in the map.
LEMMA JoinEntries ==
    ASSUME TypeOK, EntryInv, NEW c \in Callers, NEW k \in Keys, Acquire(c, k), NEW i \in Entries, i = entries[k]
    PROVE  EntryInv'
<1>1. /\ Places /\ Fresh /\ Keyed /\ MainCloses /\ OneCreator /\ Counted
      /\ MappedLives /\ StopsUnmapped /\ LoadsEnd /\ UsersKnow /\ Freed
  BY DEF EntryInv
<1>2. \A p \in Somebody : at[p] # "out" => mine[p] \in Entries
  BY <1>1, MineIsEntry
<1>3. /\ made \in Nat /\ acquires \in Nat /\ toStop \subseteq Entries /\ Entries \subseteq Nat
      /\ made <= acquires /\ \A p \in Somebody : mine[p] \in Nat /\ mine[p] <= made
      /\ \A l \in Keys : entries[l] \in Nat /\ entries[l] <= made
  BY <1>1 DEF TypeOK, Places, Somebody, Entries
<1>4. /\ at[c] = "out" /\ ~closed /\ i # 0 /\ i <= made /\ Mapped(i)
      /\ c \in Somebody /\ Main \in Somebody /\ c # Main
  BY <1>1, <1>3, PoolAssumption DEF Acquire, Go, Places, TypeOK, Entries, Mapped, Somebody
<1>5. \A s \in Somebody : at'[s] = IF s = c THEN "await" ELSE at[s]
  <2>1. entries[k] # 0
    BY <1>4
  <2> QED  BY <2>1 DEF Acquire, Go, TypeOK, Somebody
<1>6. \A s \in Somebody : mine'[s] = IF s = c THEN i ELSE mine[s]
  BY <1>4 DEF Acquire, TypeOK, Somebody
<1>7. \A j \in Entries :
        /\ entry'[j].refs = IF j = i THEN entry[j].refs + 1 ELSE entry[j].refs
        /\ entry'[j].ready <=> entry[j].ready
        /\ entry'[j].failed <=> entry[j].failed
        /\ entry'[j].stopping <=> entry[j].stopping
        /\ entry'[j].model <=> entry[j].model
  BY <1>4 DEF Acquire, TypeOK
<1>8. /\ UNCHANGED <<closed, made, thread, toStop>>
      /\ acquires' = acquires + 1 /\ \A l \in Keys : entries'[l] = entries[l]
  BY <1>4 DEF Acquire, TypeOK, threadVars
<1>9. \A j : Mapped(j)' <=> Mapped(j)
  BY <1>8 DEF Mapped
<1>10. /\ Using(i)' = Using(i) \cup {c}
       /\ \A j \in Entries \ {i} : Using(j)' = Using(j)
  BY <1>4, <1>5, <1>6, <1>3 DEF Using, Somebody, Entries
<1>11. /\ \A j \in Entries : entry[j].refs \in Nat /\ Cardinality(Using(j)) \in Nat
       /\ \A j \in Entries : Cardinality(Using(j)') =
            IF j = i THEN Cardinality(Using(j)) + 1 ELSE Cardinality(Using(j))
  BY <1>4, <1>10, UserJoins
<1>12. Places'
  BY <1>1, <1>3, <1>4, <1>5, <1>6, <1>8 DEF Places, Somebody, Stops
<1>13. Fresh'
  BY <1>1, <1>2, <1>3, <1>4, <1>7, <1>8 DEF Fresh, Somebody
<1>14. Keyed'
  BY <1>1, <1>3, <1>4, <1>8, <1>9 DEF Keyed
<1>15. MainCloses'
  BY <1>1, <1>4, <1>5, <1>6, <1>8 DEF MainCloses, Somebody
<1>16. OneCreator'
  BY <1>1, <1>2, <1>4, <1>5, <1>6, <1>7, <1>8, <1>9 DEF OneCreator, Somebody, Creates
<1>17. Counted'
  BY <1>1, <1>4, <1>7, <1>8, <1>9, <1>10, <1>11 DEF Counted
<1>18. MappedLives'
  BY <1>1, <1>2, <1>4, <1>5, <1>6, <1>7, <1>8, <1>9 DEF MappedLives, Somebody, Creates
<1>19. StopsUnmapped'
  BY <1>1, <1>2, <1>3, <1>4, <1>5, <1>6, <1>7, <1>8, <1>9 DEF StopsUnmapped, Somebody, Stops
<1>20. LoadsEnd'
  BY <1>1, <1>4, <1>7, <1>8 DEF LoadsEnd
<1>21. UsersKnow'
  BY <1>1, <1>2, <1>4, <1>5, <1>6, <1>7, <1>8, <1>9 DEF UsersKnow, Somebody, Has, Creates
<1>22. Freed'
  BY <1>1, <1>2, <1>3, <1>4, <1>5, <1>6, <1>7, <1>8, <1>9 DEF Freed, Somebody
<1> QED  BY <1>12, <1>13, <1>14, <1>15, <1>16, <1>17, <1>18, <1>19, <1>20, <1>21, <1>22 DEF EntryInv

\* A caller creates the entry of its key.
LEMMA CreateEntries ==
    ASSUME TypeOK, EntryInv, NEW c \in Callers, NEW k \in Keys, Acquire(c, k), entries[k] = 0,
           NEW i \in Entries, i = made + 1
    PROVE  EntryInv'
<1>1. /\ Places /\ Fresh /\ Keyed /\ MainCloses /\ OneCreator /\ Counted
      /\ MappedLives /\ StopsUnmapped /\ LoadsEnd /\ UsersKnow /\ Freed
  BY DEF EntryInv
<1>2. \A p \in Somebody : at[p] # "out" => mine[p] \in Entries
  BY <1>1, MineIsEntry
<1>3. /\ made \in Nat /\ acquires \in Nat /\ toStop \subseteq Entries /\ Entries \subseteq Nat
      /\ made <= acquires /\ \A p \in Somebody : mine[p] \in Nat /\ mine[p] <= made
      /\ \A l \in Keys : entries[l] \in Nat /\ entries[l] <= made
  BY <1>1 DEF TypeOK, Places, Somebody, Entries
<1>4. /\ at[c] = "out" /\ ~closed /\ i # 0 /\ i > made /\ ~(i <= made)
      /\ c \in Somebody /\ Main \in Somebody /\ c # Main
  BY <1>1, <1>3, PoolAssumption DEF Acquire, Go, Entries, Somebody
<1>5. \A s \in Somebody : at'[s] = IF s = c THEN "load" ELSE at[s]
  BY DEF Acquire, Go, TypeOK, Somebody
<1>6. \A s \in Somebody : mine'[s] = IF s = c THEN i ELSE mine[s]
  BY DEF Acquire, TypeOK, Somebody
<1>7. \A j \in Entries :
        /\ entry'[j].refs = IF j = i THEN entry[j].refs + 1 ELSE entry[j].refs
        /\ entry'[j].ready <=> entry[j].ready
        /\ entry'[j].failed <=> entry[j].failed
        /\ entry'[j].stopping <=> entry[j].stopping
        /\ entry'[j].model <=> entry[j].model
  BY DEF Acquire, TypeOK
<1>8. /\ UNCHANGED <<closed, thread, toStop>> /\ made' = made + 1 /\ made' = i
      /\ acquires' = acquires + 1
      /\ \A l \in Keys : entries'[l] = IF l = k THEN i ELSE entries[l]
  BY DEF Acquire, TypeOK, threadVars
<1>9. /\ ~Mapped(i) /\ \A j \in Entries : Mapped(j)' <=> Mapped(j) \/ j = i
      /\ \A l \in Keys : entries[l] # i /\ entries[l] <= i
  BY <1>1, <1>3, <1>4, <1>8 DEF Mapped, Entries
<1>10. /\ Using(i)' = Using(i) \cup {c}
       /\ \A j \in Entries \ {i} : Using(j)' = Using(j)
  BY <1>4, <1>5, <1>6, <1>3 DEF Using, Somebody, Entries
<1>11. /\ \A j \in Entries : entry[j].refs \in Nat /\ Cardinality(Using(j)) \in Nat
       /\ \A j \in Entries : Cardinality(Using(j)') =
            IF j = i THEN Cardinality(Using(j)) + 1 ELSE Cardinality(Using(j))
  BY <1>4, <1>10, UserJoins
<1>12. /\ entry[i].refs = 0 /\ Cardinality(Using(i)) = 0
       /\ \A s \in Somebody : mine[s] # i /\ mine[s] <= i
  <2>1. \A s \in Somebody : mine[s] # i /\ mine[s] <= i
    BY <1>3, <1>4 DEF Entries
  <2>2. Using(i) = {}
    BY <2>1 DEF Using, Somebody
  <2> QED  BY <1>1, <1>3, <1>4, <2>1, <2>2, FS_EmptySet DEF Fresh
<1>13. /\ ~entry[i].ready /\ ~entry[i].failed /\ ~entry[i].model /\ ~entry[i].stopping
       /\ thread[i] = "none" /\ i \notin toStop
  BY <1>1, <1>4 DEF Fresh, StopsUnmapped
<1>14. \A j \in Entries : j > i => j > made
  BY <1>3 DEF Entries
<1>15. Places'
  BY <1>1, <1>3, <1>4, <1>5, <1>6, <1>8, <1>9, <1>12, <1>13, <1>14 DEF Places, Somebody, Stops
<1>16. Fresh'
  BY <1>1, <1>2, <1>3, <1>4, <1>7, <1>8, <1>9, <1>12, <1>13, <1>14 DEF Fresh, Somebody
<1>17. Keyed'
  BY <1>1, <1>3, <1>4, <1>8, <1>9, <1>12, <1>13, <1>14 DEF Keyed
<1>18. MainCloses'
  BY <1>1, <1>4, <1>5, <1>6, <1>8, <1>12, <1>13 DEF MainCloses, Somebody
<1>19. OneCreator'
  <2> SUFFICES ASSUME NEW d \in Callers, at'[d] \in Creates
               PROVE  /\ \A e \in Callers \ {d} : mine'[e] = mine'[d] => at'[e] \notin Creates
                      /\ ~entry'[mine'[d]].ready /\ ~entry'[mine'[d]].failed
                      /\ at'[d] = "load" => ~entry'[mine'[d]].model
                      /\ at'[d] = "start" => entry'[mine'[d]].model
                      /\ at'[d] = "publish" =>
                           thread'[mine'[d]] # "none" /\ (~closed' => entry'[mine'[d]].model)
                      /\ at'[d] # "publish" => thread'[mine'[d]] = "none"
                      /\ at'[d] = "report" => ~Mapped(mine[d])'
                      /\ at'[d] # "report" /\ ~closed' => Mapped(mine[d])'
    BY DEF OneCreator
  <2>1. CASE d = c
    BY <1>4, <1>5, <1>6, <1>7, <1>8, <1>9, <1>12, <1>13, <2>1 DEF Somebody, Creates
  <2>2. CASE d # c
    <3>1. /\ at'[d] = at[d] /\ mine'[d] = mine[d] /\ mine[d] \in Entries /\ mine[d] # i
          /\ at[d] \in Creates
      BY <1>2, <1>5, <1>6, <1>12, <2>2 DEF Somebody, Creates
    <3>2. \A e \in Callers \ {d} : mine'[e] = mine[d] => mine[e] = mine[d] /\ at'[e] = at[e]
      BY <1>5, <1>6, <3>1 DEF Somebody
    <3> QED  BY <1>1, <1>7, <1>8, <1>9, <2>2, <3>1, <3>2 DEF OneCreator
  <2> QED  BY <2>1, <2>2
<1>20. Counted'
  BY <1>1, <1>4, <1>7, <1>8, <1>9, <1>10, <1>11, <1>12, <1>13 DEF Counted
<1>21. MappedLives'
  BY <1>1, <1>2, <1>4, <1>5, <1>6, <1>7, <1>8, <1>9, <1>12, <1>13, <1>14 DEF MappedLives, Somebody, Creates
<1>22. StopsUnmapped'
  BY <1>1, <1>2, <1>3, <1>4, <1>5, <1>6, <1>7, <1>8, <1>9, <1>12, <1>13, <1>14 DEF StopsUnmapped, Somebody, Stops
<1>23. LoadsEnd'
  BY <1>1, <1>4, <1>7, <1>8, <1>12, <1>13, <1>14 DEF LoadsEnd
<1>24. UsersKnow'
  <2> SUFFICES ASSUME NEW d \in Callers, at'[d] \in Has \cup {"await"}
               PROVE  /\ at'[d] \in Has => entry'[mine'[d]].ready /\ ~entry'[mine'[d]].failed
                      /\ \/ Mapped(mine[d])' \/ entry'[mine'[d]].failed \/ closed'
                         \/ \E e \in Callers : mine'[e] = mine'[d] /\ at'[e] = "report"
    BY DEF UsersKnow
  <2>1. /\ d # c /\ at'[d] = at[d] /\ mine'[d] = mine[d] /\ mine[d] \in Entries
    BY <1>2, <1>5, <1>6 DEF Somebody, Has
  <2>2. \A e \in Callers : at[e] = "report" => mine'[e] = mine[e] /\ at'[e] = at[e]
    BY <1>4, <1>5, <1>6 DEF Somebody
  <2>3. /\ at[d] \in Has => entry[mine[d]].ready /\ ~entry[mine[d]].failed
        /\ \/ Mapped(mine[d]) \/ entry[mine[d]].failed \/ closed
           \/ \E e \in Callers : mine[e] = mine[d] /\ at[e] = "report"
    BY <1>1, <2>1 DEF UsersKnow
  <2>4. /\ entry'[mine[d]].ready <=> entry[mine[d]].ready
        /\ entry'[mine[d]].failed <=> entry[mine[d]].failed
    BY <1>7, <2>1
  <2>5. Mapped(mine[d]) => Mapped(mine[d])'
    BY <1>9, <2>1
  <2>6. /\ at'[d] \in Has => entry'[mine'[d]].ready /\ ~entry'[mine'[d]].failed
        /\ closed' <=> closed
    BY <1>8, <2>1, <2>3, <2>4
  <2>7. CASE \E e \in Callers : mine[e] = mine[d] /\ at[e] = "report"
    BY <2>1, <2>2, <2>6, <2>7
  <2>8. CASE Mapped(mine[d]) \/ entry[mine[d]].failed \/ closed
    BY <2>1, <2>4, <2>5, <2>6, <2>8
  <2> QED  BY <2>3, <2>7, <2>8
<1>25. Freed'
  BY <1>1, <1>2, <1>3, <1>4, <1>5, <1>6, <1>7, <1>8, <1>9, <1>12, <1>13, <1>14 DEF Freed, Somebody
<1> QED  BY <1>15, <1>16, <1>17, <1>18, <1>19, <1>20, <1>21, <1>22, <1>23, <1>24, <1>25 DEF EntryInv

\* The last one leaves, and stops the entry.
LEMMA FinalEntries ==
    ASSUME TypeOK, EntryInv, NEW c \in Callers, NEW i \in Entries, i = mine[c],
           Release(c), entry[i].refs = 1, Mapped(i)
    PROVE  EntryInv'
<1>1. /\ Places /\ Fresh /\ Keyed /\ MainCloses /\ OneCreator /\ Counted
      /\ MappedLives /\ StopsUnmapped /\ LoadsEnd /\ UsersKnow /\ Freed
  BY DEF EntryInv
<1>2. \A p \in Somebody : at[p] # "out" => mine[p] \in Entries
  BY <1>1, MineIsEntry
<1>3. /\ made \in Nat /\ acquires \in Nat /\ toStop \subseteq Entries /\ Entries \subseteq Nat
      /\ made <= acquires /\ \A p \in Somebody : mine[p] \in Nat /\ mine[p] <= made
      /\ \A l \in Keys : entries[l] \in Nat /\ entries[l] <= made
  BY <1>1 DEF TypeOK, Places, Somebody, Entries
<1>4. /\ at[c] = "holds" /\ mine[c] = i /\ i # 0 /\ i <= made
      /\ c \in Somebody /\ Main \in Somebody /\ c # Main
  BY <1>3, PoolAssumption DEF Release, Go, Somebody, Entries
<1>5. \A s \in Somebody : at'[s] = IF s = c THEN "stop" ELSE at[s]
  BY DEF Release, Go, TypeOK, Somebody
<1>6. /\ UNCHANGED <<closed, made, acquires, thread, mine, toStop>>
      /\ \A k \in Keys : entries'[k] = IF entries[k] = i THEN 0 ELSE entries[k]
  BY DEF Release, threadVars, Forget
<1>7. \A j \in Entries :
        /\ entry'[j].refs = IF j = i THEN entry[j].refs - 1 ELSE entry[j].refs
        /\ entry'[j].ready <=> entry[j].ready
        /\ entry'[j].failed <=> entry[j].failed
        /\ entry'[j].stopping <=> entry[j].stopping
        /\ entry'[j].model <=> entry[j].model
  BY DEF Release, TypeOK
<1>8. \A j \in Entries : Mapped(j)' <=> Mapped(j) /\ j # i
  BY <1>6 DEF Mapped, Entries
<1>9. \A j \in Entries : Using(j)' = Using(j) \ {c}
  BY <1>4, <1>5, <1>6 DEF Using, Somebody, Entries
<1>10. /\ \A j \in Entries : entry[j].refs \in Nat /\ Cardinality(Using(j)) \in Nat
       /\ \A j \in Entries : Cardinality(Using(j)') \in Nat
       /\ \A j \in Entries : Cardinality(Using(j)') <= Cardinality(Using(j))
       /\ \A j \in Entries \ {i} : Using(j)' = Using(j)
  BY <1>9, UserLeaves
<1>11. \A d \in Callers \ {c} : mine[d] = i => at[d] \in {"out"} \cup Stops
  <2>1. Cardinality(Using(i)) = 1
    BY <1>1, <1>4 DEF Counted
  <2>2. PICK x : Using(i) = {x}
    BY <2>1, UsingFinite, FS_Singleton
  <2>3. c \in Using(i)
    BY <1>4 DEF Using
  <2> QED  BY <2>2, <2>3 DEF Using, Stops
<1>12. /\ ~entry[i].stopping /\ thread[i] # "none"
       /\ entry[i].ready /\ ~entry[i].failed /\ ~closed
  BY <1>1, <1>4 DEF MappedLives, UsersKnow, Has, Keyed, Mapped, Entries
<1>13. /\ Cardinality(Using(i)') = Cardinality(Using(i)) - 1
        /\ Cardinality(Using(i)) <= entry[i].refs
  <2>1. c \in Using(i)
    BY <1>4 DEF Using
  <2>2. \A j \in Entries : c \in Using(j) => Cardinality(Using(j)') = Cardinality(Using(j)) - 1
    BY <1>9, UserLeaves
  <2> QED  BY <1>1, <1>4, <2>1, <2>2 DEF Counted
<1>14. Places'
  BY <1>1, <1>3, <1>4, <1>5, <1>6, <1>11, <1>12 DEF Places, Somebody, Stops
<1>15. Fresh'
  BY <1>1, <1>2, <1>3, <1>4, <1>6, <1>7, <1>11, <1>12 DEF Fresh, Somebody
<1>16. Keyed'
  BY <1>1, <1>3, <1>4, <1>6, <1>8, <1>11, <1>12 DEF Keyed
<1>17. MainCloses'
  BY <1>1, <1>4, <1>5, <1>6, <1>11, <1>12 DEF MainCloses, Somebody
<1>18. OneCreator'
  BY <1>1, <1>2, <1>4, <1>5, <1>6, <1>7, <1>8, <1>11, <1>12 DEF OneCreator, Somebody, Creates
<1>19. Counted'
  BY <1>1, <1>4, <1>6, <1>7, <1>8, <1>9, <1>10, <1>11, <1>12, <1>13 DEF Counted
<1>20. MappedLives'
  BY <1>1, <1>2, <1>4, <1>5, <1>6, <1>7, <1>8, <1>11, <1>12 DEF MappedLives, Somebody, Creates
<1>21. StopsUnmapped'
  BY <1>1, <1>2, <1>3, <1>4, <1>5, <1>6, <1>7, <1>8, <1>11, <1>12 DEF StopsUnmapped, Somebody, Stops
<1>22. LoadsEnd'
  BY <1>1, <1>4, <1>6, <1>7, <1>11, <1>12 DEF LoadsEnd
<1>23. UsersKnow'
  <2> SUFFICES ASSUME NEW d \in Callers, at'[d] \in Has \cup {"await"}
               PROVE  /\ at'[d] \in Has => entry'[mine'[d]].ready /\ ~entry'[mine'[d]].failed
                      /\ \/ Mapped(mine[d])' \/ entry'[mine'[d]].failed \/ closed'
                         \/ \E e \in Callers : mine'[e] = mine'[d] /\ at'[e] = "report"
    BY DEF UsersKnow
  <2>1. d # c /\ at'[d] = at[d] /\ mine'[d] = mine[d] /\ mine[d] \in Entries
    BY <1>2, <1>5, <1>6 DEF Somebody, Has
  <2>2. mine[d] # i
    BY <1>11, <2>1 DEF Has, Stops
  <2>3. \A e \in Callers : at[e] = "report" => mine'[e] = mine[e] /\ at'[e] = at[e]
    BY <1>4, <1>5, <1>6 DEF Somebody
  <2> QED  BY <1>1, <1>6, <1>7, <1>8, <2>1, <2>2, <2>3 DEF UsersKnow
<1>24. Freed'
  BY <1>1, <1>2, <1>3, <1>4, <1>5, <1>6, <1>7, <1>8, <1>11, <1>12 DEF Freed, Somebody
<1> QED  BY <1>14, <1>15, <1>16, <1>17, <1>18, <1>19, <1>20, <1>21, <1>22, <1>23, <1>24 DEF EntryInv

\* One of several leaves, or the pool is closed.
LEMMA LeaveEntries ==
    ASSUME TypeOK, EntryInv, NEW c \in Callers, NEW i \in Entries, i = mine[c],
           Release(c), ~(entry[i].refs = 1 /\ Mapped(i))
    PROVE  EntryInv'
<1>1. /\ Places /\ Fresh /\ Keyed /\ MainCloses /\ OneCreator /\ Counted
      /\ MappedLives /\ StopsUnmapped /\ LoadsEnd /\ UsersKnow /\ Freed
  BY DEF EntryInv
<1>2. \A p \in Somebody : at[p] # "out" => mine[p] \in Entries
  BY <1>1, MineIsEntry
<1>3. /\ made \in Nat /\ acquires \in Nat /\ toStop \subseteq Entries /\ Entries \subseteq Nat
      /\ made <= acquires /\ \A p \in Somebody : mine[p] \in Nat /\ mine[p] <= made
      /\ \A l \in Keys : entries[l] \in Nat /\ entries[l] <= made
  BY <1>1 DEF TypeOK, Places, Somebody, Entries
<1>4. /\ at[c] = "holds" /\ mine[c] = i /\ i # 0 /\ i <= made /\ ~(i > made)
      /\ c \in Somebody /\ Main \in Somebody /\ c # Main
  BY <1>3, PoolAssumption DEF Release, Go, Somebody, Entries
<1>5. \A s \in Somebody : at'[s] = IF s = c THEN "out" ELSE at[s]
  BY DEF Release, Go, TypeOK, Somebody
<1>6. \A s \in Somebody : mine'[s] = IF s = c THEN 0 ELSE mine[s]
  BY DEF Release, TypeOK, Somebody
<1>7. UNCHANGED <<closed, entries, made, acquires, thread, toStop>>
  BY DEF Release, threadVars
<1>8. \A j \in Entries :
        /\ entry'[j].refs = IF j = i THEN entry[j].refs - 1 ELSE entry[j].refs
        /\ entry'[j].ready <=> entry[j].ready
        /\ entry'[j].failed <=> entry[j].failed
        /\ entry'[j].stopping <=> entry[j].stopping
        /\ entry'[j].model <=> entry[j].model
  BY DEF Release, TypeOK
<1>9. \A j : Mapped(j)' <=> Mapped(j)
  BY <1>7 DEF Mapped
<1>10. \A j \in Entries : Using(j)' = Using(j) \ {c}
  BY <1>4, <1>5, <1>6 DEF Using, Somebody, Entries
<1>11. /\ \A j \in Entries : entry[j].refs \in Nat /\ Cardinality(Using(j)) \in Nat
       /\ \A j \in Entries : Cardinality(Using(j)') \in Nat
       /\ \A j \in Entries : Cardinality(Using(j)') <= Cardinality(Using(j))
       /\ \A j \in Entries \ {i} : Using(j)' = Using(j)
  BY <1>10, UserLeaves
<1>12. /\ Cardinality(Using(i)') = Cardinality(Using(i)) - 1
        /\ Cardinality(Using(i)) <= entry[i].refs
  <2>1. c \in Using(i)
    BY <1>4 DEF Using
  <2>2. \A j \in Entries : c \in Using(j) => Cardinality(Using(j)') = Cardinality(Using(j)) - 1
    BY <1>10, UserLeaves
  <2> QED  BY <1>1, <1>4, <2>1, <2>2 DEF Counted
<1>13. Places'
  BY <1>1, <1>3, <1>4, <1>5, <1>6, <1>7 DEF Places, Somebody, Stops
<1>14. Fresh'
  BY <1>1, <1>2, <1>3, <1>4, <1>7, <1>8 DEF Fresh, Somebody
<1>15. Keyed'
  BY <1>1, <1>3, <1>4, <1>7, <1>9 DEF Keyed
<1>16. MainCloses'
  BY <1>1, <1>4, <1>5, <1>6, <1>7 DEF MainCloses, Somebody
<1>17. OneCreator'
  BY <1>1, <1>2, <1>4, <1>5, <1>6, <1>7, <1>8, <1>9 DEF OneCreator, Somebody, Creates
<1>18. Counted'
  BY <1>1, <1>4, <1>7, <1>8, <1>9, <1>10, <1>11, <1>12 DEF Counted
<1>19. MappedLives'
  BY <1>1, <1>2, <1>4, <1>5, <1>6, <1>7, <1>8, <1>9 DEF MappedLives, Somebody, Creates
<1>20. StopsUnmapped'
  BY <1>1, <1>2, <1>3, <1>4, <1>5, <1>6, <1>7, <1>8, <1>9 DEF StopsUnmapped, Somebody, Stops
<1>21. LoadsEnd'
  BY <1>1, <1>4, <1>7, <1>8 DEF LoadsEnd
<1>22. UsersKnow'
  BY <1>1, <1>2, <1>4, <1>5, <1>6, <1>7, <1>8, <1>9 DEF UsersKnow, Somebody, Has, Creates
<1>23. Freed'
  BY <1>1, <1>2, <1>3, <1>4, <1>5, <1>6, <1>7, <1>8, <1>9 DEF Freed, Somebody
<1> QED  BY <1>13, <1>14, <1>15, <1>16, <1>17, <1>18, <1>19, <1>20, <1>21, <1>22, <1>23 DEF EntryInv

\* The map is emptied, and Main has the entries to stop that were started.
LEMMA CloseEntries ==
    ASSUME TypeOK, EntryInv, Close
    PROVE  EntryInv'
<1>1. /\ Places /\ Fresh /\ Keyed /\ MainCloses /\ OneCreator /\ Counted
      /\ MappedLives /\ StopsUnmapped /\ LoadsEnd /\ UsersKnow /\ Freed
  BY DEF EntryInv
<1>2. \A p \in Somebody : at[p] # "out" => mine[p] \in Entries
  BY <1>1, MineIsEntry
<1>3. /\ made \in Nat /\ acquires \in Nat /\ toStop \subseteq Entries /\ Entries \subseteq Nat
      /\ made <= acquires /\ \A p \in Somebody : mine[p] \in Nat /\ mine[p] <= made
      /\ \A l \in Keys : entries[l] \in Nat /\ entries[l] <= made
  BY <1>1 DEF TypeOK, Places, Somebody, Entries
<1>4. at[Main] = "out" /\ ~closed /\ toStop = {}
  BY <1>1 DEF Close, MainCloses
<1>5. /\ closed' = TRUE /\ \A k \in Keys : entries'[k] = 0
      /\ toStop' = {i \in Entries : Mapped(i) /\ thread[i] # "none"}
      /\ UNCHANGED <<made, acquires, entry, thread>>
  BY DEF Close, threadVars
<1>6. /\ \A s \in Somebody \ {Main} : at'[s] = at[s] /\ mine'[s] = mine[s]
      /\ \/ at'[Main] = "out" /\ mine'[Main] = 0
         \/ at'[Main] = "stop" /\ mine'[Main] \in toStop'
  <2> DEFINE stops == {i \in Entries : Mapped(i) /\ thread[i] # "none"}
  <2>1. /\ mine' = [mine EXCEPT ![Main] = Next1(stops)]
        /\ at' = [at EXCEPT ![Main] = IF stops = {} THEN "out" ELSE "stop"]
        /\ toStop' = stops
    BY Zenon DEF Close
  <2>2. IF stops = {} THEN Next1(stops) = 0 ELSE Next1(stops) \in stops
    BY Next1Works
  <2> HIDE DEF stops
  <2> QED  BY <2>1, <2>2 DEF TypeOK, Somebody
<1>7. \A j \in Entries : ~Mapped(j)'
  BY <1>5 DEF Mapped, Entries
<1>8. \A j : Using(j)' = Using(j)
  BY <1>6, PoolAssumption DEF Using, Somebody
<1>9. \A i \in Entries : Mapped(i) /\ thread[i] # "none" => i <= made
  <2>1. \A i \in Entries : i > made => thread[i] = "none"
    BY <1>1 DEF Fresh
  <2>2. \A i \in Entries : i > made \/ i <= made
    BY <1>3
  <2> QED  BY <2>1, <2>2, Zenon
<1>10. \A c \in Callers : c \in Somebody /\ c # Main
  BY PoolAssumption DEF Somebody
<1>11. \A i \in Entries : Mapped(i) /\ entry[i].model /\ thread[i] = "none" =>
         \E c \in Callers : mine[c] = i /\ at[c] \in {"start", "drop", "report"}
  <2> SUFFICES ASSUME NEW i \in Entries, Mapped(i), entry[i].model, thread[i] = "none"
               PROVE  \E c \in Callers : mine[c] = i /\ at[c] \in {"start", "drop", "report"}
    OBVIOUS
  <2>1. PICK c \in Callers : mine[c] = i /\ at[c] \in Creates
    BY <1>1 DEF MappedLives
  <2> QED  BY <1>1, <2>1 DEF OneCreator, Creates
<1>12. Places'
  <2>1. \/ at'[Main] = "out" /\ mine'[Main] = 0
        \/ at'[Main] = "stop" /\ mine'[Main] <= made /\ mine'[Main] # 0
    BY <1>5, <1>6, <1>9 DEF Entries
  <2> QED  BY <1>1, <1>3, <1>5, <1>6, <2>1 DEF Places, Somebody, Stops
<1>13. Fresh'
  BY <1>1, <1>2, <1>3, <1>4, <1>5, <1>9, <1>10, <1>11 DEF Fresh, Somebody
<1>14. Keyed'
  BY <1>1, <1>3, <1>4, <1>5, <1>7, <1>9, <1>10, <1>11 DEF Keyed
<1>15. MainCloses'
  BY <1>1, <1>4, <1>5, <1>6, <1>9, <1>10, <1>11 DEF MainCloses, Somebody
<1>16. OneCreator'
  BY <1>1, <1>2, <1>4, <1>5, <1>6, <1>7, <1>9, <1>10, <1>11 DEF OneCreator, Somebody, Creates
<1>17. Counted'
  BY <1>1, <1>4, <1>5, <1>7, <1>8, <1>9, <1>10, <1>11 DEF Counted
<1>18. MappedLives'
  BY <1>1, <1>2, <1>4, <1>5, <1>6, <1>7, <1>9, <1>10, <1>11 DEF MappedLives, Somebody, Creates
<1>19. StopsUnmapped'
  BY <1>1, <1>2, <1>3, <1>4, <1>5, <1>6, <1>7, <1>9, <1>10, <1>11 DEF StopsUnmapped, Somebody, Stops
<1>20. LoadsEnd'
  BY <1>1, <1>4, <1>5, <1>9, <1>10, <1>11 DEF LoadsEnd
<1>21. UsersKnow'
  BY <1>1, <1>2, <1>4, <1>5, <1>6, <1>7, <1>9, <1>10, <1>11 DEF UsersKnow, Somebody, Has, Creates
<1>22. Freed'
  <2> SUFFICES ASSUME NEW i \in Entries, entry'[i].model
               PROVE  \/ \E c \in Callers : mine'[c] = i /\ at'[c] \in {"start", "drop", "report"}
                      \/ ~entry'[i].stopping /\ (i \in toStop' \/ \E s \in Somebody : mine'[s] = i /\ at'[s] = "stop")
                      \/ entry'[i].stopping /\ \E s \in Somebody : mine'[s] = i /\ at'[s] = "join"
    BY DEF Freed
  <2>1. entry[i].model
    BY <1>5
  <2>2. CASE Mapped(i)
    <3>1. CASE thread[i] = "none"
      BY <1>6, <1>10, <1>11, <2>1, <2>2, <3>1
    <3>2. CASE thread[i] # "none"
      BY <1>1, <1>5, <2>2, <3>2 DEF MappedLives
    <3> QED  BY <3>1, <3>2
  <2>3. CASE ~Mapped(i)
    <3>1. \/ \E c \in Callers : mine[c] = i /\ at[c] \in {"start", "drop", "report"}
          \/ ~entry[i].stopping /\ \E s \in Somebody : mine[s] = i /\ at[s] = "stop"
          \/ entry[i].stopping /\ \E s \in Somebody : mine[s] = i /\ at[s] = "join"
      BY <1>1, <1>4, <2>1, <2>3 DEF Freed
    <3>2. \A s \in Somebody : at[s] # "out" => s \in Somebody \ {Main}
      BY <1>4
    <3> QED  BY <1>5, <1>6, <1>10, <3>1, <3>2
  <2> QED  BY <2>2, <2>3
<1> QED  BY <1>12, <1>13, <1>14, <1>15, <1>16, <1>17, <1>18, <1>19, <1>20, <1>21, <1>22 DEF EntryInv

\* Another one stops the entry.
LEMMA AlreadyEntries ==
    ASSUME TypeOK, EntryInv, NEW s \in Somebody, MarkStopping(s), entry[mine[s]].stopping
    PROVE  EntryInv'
<1>1. /\ Places /\ Fresh /\ Keyed /\ MainCloses /\ OneCreator /\ Counted
      /\ MappedLives /\ StopsUnmapped /\ LoadsEnd /\ UsersKnow /\ Freed
  BY DEF EntryInv
<1>2. \A p \in Somebody : at[p] # "out" => mine[p] \in Entries
  BY <1>1, MineIsEntry
<1>3. /\ made \in Nat /\ acquires \in Nat /\ toStop \subseteq Entries /\ Entries \subseteq Nat
      /\ made <= acquires /\ \A p \in Somebody : mine[p] \in Nat /\ mine[p] <= made
      /\ \A l \in Keys : entries[l] \in Nat /\ entries[l] <= made
  BY <1>1 DEF TypeOK, Places, Somebody, Entries
<1>4. at[s] = "stop" /\ mine[s] \in Entries /\ Main \in Somebody
  BY <1>2 DEF MarkStopping, Somebody
<1>5. /\ \A r \in Somebody \ {s} : at'[r] = at[r] /\ mine'[r] = mine[r]
      /\ s # Main => at'[s] = "out" /\ mine'[s] = 0 /\ toStop' = toStop
      /\ s = Main => toStop' = toStop \ {mine[Main]}
      /\ s = Main => \/ at'[s] = "out" /\ mine'[s] = 0
                     \/ at'[s] = "stop" /\ mine'[s] \in toStop'
  BY StoppedParts DEF MarkStopping
<1>6. UNCHANGED <<closed, entries, made, acquires, thread, entry>>
  BY DEF MarkStopping, poolVars, threadVars
<1>7. \A i \in toStop : i <= made /\ i # 0 /\ i \in Entries
  BY <1>1, <1>3 DEF StopsUnmapped, Fresh, Entries
<1>8. \A c \in Callers : c \in Somebody /\ c # Main
  BY PoolAssumption DEF Somebody
<1>9. \A j : (Using(j)' = Using(j)) /\ (Mapped(j)' <=> Mapped(j))
  BY <1>4, <1>5, <1>6, <1>8, PoolAssumption DEF Using, Mapped, Somebody
<1>10. Places'
  <2>1. \A r \in Somebody : mine'[r] <= made /\ (mine'[r] = 0 <=> at'[r] = "out")
    <3> SUFFICES ASSUME NEW r \in Somebody
                 PROVE  mine'[r] <= made /\ (mine'[r] = 0 <=> at'[r] = "out")
      OBVIOUS
    <3>1. CASE r # s
      BY <1>1, <1>5, <3>1 DEF Places
    <3>2. CASE r = s
      <4>1. 0 <= made
        BY <1>3
      <4>2. (mine'[s] = 0 /\ at'[s] = "out") \/ (mine'[s] \in toStop /\ at'[s] = "stop")
        BY <1>5
      <4> QED  BY <1>7, <3>2, <4>1, <4>2
    <3> QED  BY <3>1, <3>2
  <2>2. at'[Main] \in {"out"} \cup Stops
    BY <1>1, <1>4, <1>5 DEF Places, Stops
  <2> QED  BY <1>1, <1>3, <1>6, <2>1, <2>2 DEF Places
<1>11. Fresh'
  BY <1>1, <1>2, <1>3, <1>4, <1>6, <1>7, <1>8 DEF Fresh, Somebody
<1>12. Keyed'
  BY <1>1, <1>3, <1>4, <1>6, <1>7, <1>8, <1>9 DEF Keyed
<1>13. MainCloses'
  BY <1>1, <1>4, <1>5, <1>6, <1>7, <1>8 DEF MainCloses, Somebody
<1>14. OneCreator'
  BY <1>1, <1>2, <1>4, <1>5, <1>6, <1>7, <1>8, <1>9 DEF OneCreator, Somebody, Creates
<1>15. Counted'
  BY <1>1, <1>4, <1>6, <1>7, <1>8, <1>9 DEF Counted
<1>16. MappedLives'
  BY <1>1, <1>2, <1>4, <1>5, <1>6, <1>7, <1>8, <1>9 DEF MappedLives, Somebody, Creates
<1>17. StopsUnmapped'
  BY <1>1, <1>2, <1>3, <1>4, <1>5, <1>6, <1>7, <1>8, <1>9 DEF StopsUnmapped, Somebody, Stops
<1>18. LoadsEnd'
  BY <1>1, <1>4, <1>6, <1>7, <1>8 DEF LoadsEnd
<1>19. UsersKnow'
  BY <1>1, <1>2, <1>4, <1>5, <1>6, <1>7, <1>8, <1>9 DEF UsersKnow, Somebody, Has, Creates
<1>20. Freed'
  BY <1>1, <1>2, <1>3, <1>4, <1>5, <1>6, <1>7, <1>8, <1>9 DEF Freed, Somebody
<1> QED  BY <1>10, <1>11, <1>12, <1>13, <1>14, <1>15, <1>16, <1>17, <1>18, <1>19, <1>20 DEF EntryInv

\* The first to stop an entry marks it.
LEMMA MarkEntries ==
    ASSUME TypeOK, EntryInv, NEW s \in Somebody, MarkStopping(s), ~entry[mine[s]].stopping
    PROVE  EntryInv'
<1>1. /\ Places /\ Fresh /\ Keyed /\ MainCloses /\ OneCreator /\ Counted
      /\ MappedLives /\ StopsUnmapped /\ LoadsEnd /\ UsersKnow /\ Freed
  BY DEF EntryInv
<1>2. \A p \in Somebody : at[p] # "out" => mine[p] \in Entries
  BY <1>1, MineIsEntry
<1>3. /\ made \in Nat /\ acquires \in Nat /\ toStop \subseteq Entries /\ Entries \subseteq Nat
      /\ made <= acquires /\ \A p \in Somebody : mine[p] \in Nat /\ mine[p] <= made
      /\ \A l \in Keys : entries[l] \in Nat /\ entries[l] <= made
  BY <1>1 DEF TypeOK, Places, Somebody, Entries
<1>4. at[s] = "stop" /\ mine[s] \in Entries /\ Main \in Somebody
  BY <1>2 DEF MarkStopping, Somebody
<1>5. \A r \in Somebody : at'[r] = IF r = s THEN "join" ELSE at[r]
  BY DEF MarkStopping, TypeOK, Somebody
<1>6. UNCHANGED <<closed, entries, made, acquires, thread, mine, toStop>>
  BY DEF MarkStopping, poolVars, threadVars
<1>7. \A j \in Entries :
        /\ entry'[j].refs = entry[j].refs
        /\ entry'[j].ready <=> entry[j].ready
        /\ entry'[j].failed <=> entry[j].failed
        /\ entry'[j].stopping <=> entry[j].stopping \/ j = mine[s]
        /\ entry'[j].model <=> entry[j].model
  <2>1. entry' = [entry EXCEPT ![mine[s]].stopping = TRUE]
    BY DEF MarkStopping
  <2> QED  BY <2>1 DEF TypeOK
<1>8. ~Mapped(mine[s]) /\ thread[mine[s]] # "none" /\ mine[s] <= made
  BY <1>1, <1>3, <1>4 DEF StopsUnmapped, Stops
<1>9. \A c \in Callers : c \in Somebody /\ c # Main
  BY PoolAssumption DEF Somebody
<1>10. \A j : (Using(j)' = Using(j)) /\ (Mapped(j)' <=> Mapped(j))
  BY <1>4, <1>5, <1>6, <1>9, PoolAssumption DEF Using, Mapped, Somebody
<1>11. Places'
  BY <1>1, <1>3, <1>4, <1>5, <1>6, <1>8, <1>9 DEF Places, Somebody, Stops
<1>12. Fresh'
  BY <1>1, <1>2, <1>3, <1>4, <1>6, <1>7, <1>8, <1>9 DEF Fresh, Somebody
<1>13. Keyed'
  BY <1>1, <1>3, <1>4, <1>6, <1>8, <1>9, <1>10 DEF Keyed
<1>14. MainCloses'
  BY <1>1, <1>4, <1>5, <1>6, <1>8, <1>9 DEF MainCloses, Somebody
<1>15. OneCreator'
  BY <1>1, <1>2, <1>4, <1>5, <1>6, <1>7, <1>8, <1>9, <1>10 DEF OneCreator, Somebody, Creates
<1>16. Counted'
  BY <1>1, <1>4, <1>6, <1>7, <1>8, <1>9, <1>10 DEF Counted
<1>17. MappedLives'
  BY <1>1, <1>2, <1>4, <1>5, <1>6, <1>7, <1>8, <1>9, <1>10 DEF MappedLives, Somebody, Creates
<1>18. StopsUnmapped'
  BY <1>1, <1>2, <1>3, <1>4, <1>5, <1>6, <1>7, <1>8, <1>9, <1>10 DEF StopsUnmapped, Somebody, Stops
<1>19. LoadsEnd'
  BY <1>1, <1>4, <1>6, <1>7, <1>8, <1>9 DEF LoadsEnd
<1>20. UsersKnow'
  BY <1>1, <1>2, <1>4, <1>5, <1>6, <1>7, <1>8, <1>9, <1>10 DEF UsersKnow, Somebody, Has, Creates
<1>21. Freed'
  BY <1>1, <1>2, <1>3, <1>4, <1>5, <1>6, <1>7, <1>8, <1>9, <1>10 DEF Freed, Somebody
<1> QED  BY <1>11, <1>12, <1>13, <1>14, <1>15, <1>16, <1>17, <1>18, <1>19, <1>20, <1>21 DEF EntryInv

\* The join is over: the model is freed, Main takes the next.
LEMMA JoinedEntries ==
    ASSUME TypeOK, EntryInv, NEW s \in Somebody, Joined(s)
    PROVE  EntryInv'
<1>1. /\ Places /\ Fresh /\ Keyed /\ MainCloses /\ OneCreator /\ Counted
      /\ MappedLives /\ StopsUnmapped /\ LoadsEnd /\ UsersKnow /\ Freed
  BY DEF EntryInv
<1>2. \A p \in Somebody : at[p] # "out" => mine[p] \in Entries
  BY <1>1, MineIsEntry
<1>3. /\ made \in Nat /\ acquires \in Nat /\ toStop \subseteq Entries /\ Entries \subseteq Nat
      /\ made <= acquires /\ \A p \in Somebody : mine[p] \in Nat /\ mine[p] <= made
      /\ \A l \in Keys : entries[l] \in Nat /\ entries[l] <= made
  BY <1>1 DEF TypeOK, Places, Somebody, Entries
<1>4. at[s] = "join" /\ mine[s] \in Entries /\ Main \in Somebody
  BY <1>2 DEF Joined, Somebody
<1>5. /\ \A r \in Somebody \ {s} : at'[r] = at[r] /\ mine'[r] = mine[r]
      /\ s # Main => at'[s] = "out" /\ mine'[s] = 0 /\ toStop' = toStop
      /\ s = Main => toStop' = toStop \ {mine[Main]}
      /\ s = Main => \/ at'[s] = "out" /\ mine'[s] = 0
                     \/ at'[s] = "stop" /\ mine'[s] \in toStop'
  BY StoppedParts DEF Joined
<1>6. UNCHANGED <<closed, entries, made, acquires, thread>>
  BY DEF Joined, poolVars, threadVars
<1>7. \A j \in Entries :
        /\ entry'[j].refs = entry[j].refs
        /\ entry'[j].ready <=> entry[j].ready
        /\ entry'[j].failed <=> entry[j].failed
        /\ entry'[j].stopping <=> entry[j].stopping
        /\ entry'[j].model <=> entry[j].model /\ j # mine[s]
  BY DEF Joined, TypeOK
<1>8. ~Mapped(mine[s]) /\ thread[mine[s]] # "none" /\ mine[s] <= made
  BY <1>1, <1>3, <1>4 DEF StopsUnmapped, Stops
<1>9. \A i \in toStop : i <= made /\ i # 0 /\ i \in Entries
  BY <1>1, <1>3 DEF StopsUnmapped, Fresh, Entries
<1>10. \A c \in Callers : c \in Somebody /\ c # Main
  BY PoolAssumption DEF Somebody
<1>11. \A j : (Using(j)' = Using(j)) /\ (Mapped(j)' <=> Mapped(j))
  BY <1>4, <1>5, <1>6, <1>10, PoolAssumption DEF Using, Mapped, Somebody
<1>12. Places'
  <2>1. \A r \in Somebody : mine'[r] <= made /\ (mine'[r] = 0 <=> at'[r] = "out")
    <3> SUFFICES ASSUME NEW r \in Somebody
                 PROVE  mine'[r] <= made /\ (mine'[r] = 0 <=> at'[r] = "out")
      OBVIOUS
    <3>1. CASE r # s
      BY <1>1, <1>5, <3>1 DEF Places
    <3>2. CASE r = s
      <4>1. 0 <= made
        BY <1>3
      <4>2. (mine'[s] = 0 /\ at'[s] = "out") \/ (mine'[s] \in toStop /\ at'[s] = "stop")
        BY <1>5
      <4> QED  BY <1>9, <3>2, <4>1, <4>2
    <3> QED  BY <3>1, <3>2
  <2>2. at'[Main] \in {"out"} \cup Stops
    BY <1>1, <1>4, <1>5 DEF Places, Stops
  <2> QED  BY <1>1, <1>3, <1>6, <2>1, <2>2 DEF Places
<1>13. Fresh'
  BY <1>1, <1>2, <1>3, <1>4, <1>6, <1>7, <1>8, <1>9, <1>10 DEF Fresh, Somebody
<1>14. Keyed'
  BY <1>1, <1>3, <1>4, <1>6, <1>8, <1>9, <1>10, <1>11 DEF Keyed
<1>15. MainCloses'
  BY <1>1, <1>4, <1>5, <1>6, <1>8, <1>9, <1>10 DEF MainCloses, Somebody
<1>16. OneCreator'
  BY <1>1, <1>2, <1>4, <1>5, <1>6, <1>7, <1>8, <1>9, <1>10, <1>11 DEF OneCreator, Somebody, Creates
<1>17. Counted'
  BY <1>1, <1>4, <1>6, <1>7, <1>8, <1>9, <1>10, <1>11 DEF Counted
<1>18. MappedLives'
  BY <1>1, <1>2, <1>4, <1>5, <1>6, <1>7, <1>8, <1>9, <1>10, <1>11 DEF MappedLives, Somebody, Creates
<1>19. StopsUnmapped'
  BY <1>1, <1>2, <1>3, <1>4, <1>5, <1>6, <1>7, <1>8, <1>9, <1>10, <1>11 DEF StopsUnmapped, Somebody, Stops
<1>20. LoadsEnd'
  BY <1>1, <1>4, <1>6, <1>7, <1>8, <1>9, <1>10 DEF LoadsEnd
<1>21. UsersKnow'
  BY <1>1, <1>2, <1>4, <1>5, <1>6, <1>7, <1>8, <1>9, <1>10, <1>11 DEF UsersKnow, Somebody, Has, Creates
<1>22. Freed'
  BY <1>1, <1>2, <1>3, <1>4, <1>5, <1>6, <1>7, <1>8, <1>9, <1>10, <1>11 DEF Freed, Somebody
<1> QED  BY <1>12, <1>13, <1>14, <1>15, <1>16, <1>17, <1>18, <1>19, <1>20, <1>21, <1>22 DEF EntryInv

-----------------------------------------------------------------------------
(* All steps together *)

LEMMA EntryStep ==
    ASSUME TypeOK, EntryInv, [Next]_vars
    PROVE  EntryInv'
<1>1. ASSUME NEW c \in Callers, NEW k \in Keys, Acquire(c, k) PROVE EntryInv'
  <2>1. Places /\ made \in Nat /\ acquires \in Nat
    BY DEF EntryInv, TypeOK
  <2>2. CASE entries[k] = 0
    <3>1. PICK i \in Entries : i = made + 1
      BY <1>1, <2>1, PoolAssumption DEF Places, Acquire, Entries
    <3> QED  BY <1>1, <2>2, <3>1, CreateEntries
  <2>3. CASE entries[k] # 0
    <3>1. PICK i \in Entries : i = entries[k]
      BY <2>3 DEF TypeOK, Entries
    <3> QED  BY <1>1, <3>1, JoinEntries
  <2> QED  BY <2>2, <2>3
<1>2. ASSUME NEW c \in Callers, Release(c) PROVE EntryInv'
  <2>1. PICK i \in Entries : i = mine[c]
    BY <1>2, MineIsEntry DEF EntryInv, Release, Go, Somebody
  <2>2. CASE entry[i].refs = 1 /\ Mapped(i)
    BY <1>2, <2>1, <2>2, FinalEntries
  <2>3. CASE ~(entry[i].refs = 1 /\ Mapped(i))
    BY <1>2, <2>1, <2>3, LeaveEntries
  <2> QED  BY <2>2, <2>3
<1>3. ASSUME NEW c \in Callers, CallEnds(c) PROVE EntryInv'
  BY <1>3, CallEntries DEF CallEnds, Go, Has, threadVars
<1>4. ASSUME NEW c \in Callers, NEW kwargs \in Args[c], Submit(c, kwargs) PROVE EntryInv'
  BY <1>4, CallEntries DEF Submit, Go, Has, threadVars
<1>5. ASSUME NEW s \in Somebody, StopStep(s) PROVE EntryInv'
  BY <1>5, AlreadyEntries, MarkEntries, JoinedEntries DEF StopStep
<1>6. ASSUME NEW c \in Callers,
             Loaded(c) \/ LoadRaises(c) \/ StartThread(c) \/ Publish(c) \/ Drop(c)
               \/ Report(c) \/ Ready(c)
      PROVE  EntryInv'
  BY <1>6, LoadedEntries, LoadRaisesEntries, ClosedEntries, StartThreadEntries,
     PublishEntries, DropEntries, ReportEntries, RefusedEntries, ReadyEntries
<1>7. ASSUME NEW i \in Entries, Take(i) PROVE EntryInv'
  <2> DEFINE s == carry[i] \o queue[i]
             n == BatchLength(s)
             t == IF {r \in {s[j] : j \in 1 .. n} : asked[r.by] = r} # {} THEN "calling"
                  ELSE IF After(s, n) = <<Stop>> THEN "ended" ELSE "idle"
  <2>1. /\ thread[i] = "idle" /\ thread' = [thread EXCEPT ![i] = t]
        /\ UNCHANGED <<poolVars, entry, at, mine, toStop>>
    BY <1>7, Zenon DEF Take
  <2>2. t # "none"
    OBVIOUS
  <2> HIDE DEF t
  <2> QED  BY <2>1, <2>2, ThreadGoesOn
<1>8. ASSUME NEW i \in Entries, NEW outcome, Finish(i, outcome),
             thread[i] # "none"
      PROVE  EntryInv'
  <2>1. PICK t \in {"ended", "idle"} : thread' = [thread EXCEPT ![i] = t]
    BY <1>8 DEF Finish
  <2>2. UNCHANGED <<poolVars, entry, at, mine, toStop>> /\ t # "none"
    BY <1>8, <2>1 DEF Finish
  <2> QED  BY <1>8, <2>1, <2>2, ThreadGoesOn
<1>9. ASSUME NEW i \in Entries, ThreadEnds(i) \/ Hang(i) PROVE EntryInv'
  <2>1. PICK t \in {"ended", "hung"} : thread' = [thread EXCEPT ![i] = t] /\ t # "none"
    BY <1>9 DEF ThreadEnds, Hang
  <2>2. UNCHANGED <<poolVars, entry, at, mine, toStop>> /\ thread[i] # "none"
    BY <1>9 DEF ThreadEnds, Hang
  <2> QED  BY <2>1, <2>2, ThreadGoesOn
<1>10. ASSUME NEW i \in Entries, Returns(i) \/ ReturnsLate(i) PROVE EntryInv'
  <2>1. thread[i] # "none"
    BY <1>10 DEF Returns, ReturnsLate
  <2> QED  BY <1>8, <1>10, <2>1, OutcomeTypes
<1>11. CASE UNCHANGED vars
  <2>1. UNCHANGED <<closed, entries, made, acquires, entry, thread, at, mine, toStop>>
    BY <1>11 DEF vars, poolVars, threadVars
  <2>2. \A j : (Using(j)' = Using(j)) /\ (Mapped(j)' <=> Mapped(j))
    BY <2>1 DEF Using, Mapped
  <2>3. /\ Places' /\ Fresh' /\ Keyed' /\ MainCloses'
    BY <2>1 DEF EntryInv, Places, Fresh, Keyed, MainCloses
  <2>4. /\ OneCreator' /\ Counted' /\ MappedLives'
    BY <2>1, <2>2 DEF EntryInv, OneCreator, Counted, MappedLives
  <2>5. /\ StopsUnmapped' /\ LoadsEnd' /\ UsersKnow' /\ Freed'
    BY <2>1, <2>2 DEF EntryInv, StopsUnmapped, LoadsEnd, UsersKnow, Freed
  <2> QED  BY <2>3, <2>4, <2>5 DEF EntryInv
<1> QED
  BY <1>1, <1>2, <1>3, <1>4, <1>5, <1>6, <1>7, <1>9, <1>10, <1>11, CloseEntries
  DEF Next, CallerStep, ThreadStep, Answered, GiveUp, Somebody

-----------------------------------------------------------------------------
(* A step keeps what is said of the calls *)

\* A step that is not about a call: nothing is queued, taken or answered, and
\* who calls goes on calling the same model.
LEMMA QuietCalls ==
    ASSUME TypeOK, CallInv,
           UNCHANGED <<queue, batch, carry, last, asked, answer>>,
           \A j \in Entries : entry[j].stopping => entry'[j].stopping,
           \A c \in Callers : at'[c] = "calls" <=> at[c] = "calls",
           \A c \in Callers : at[c] = "calls" => mine'[c] = mine[c],
           \A j \in Entries : \/ thread'[j] = thread[j]
                              \/ thread[j] = "none" /\ thread'[j] = "idle"
                              \/ thread[j] = "calling" /\ thread'[j] = "hung"
    PROVE  CallInv'
<1>1. Asking' /\ InLine' /\ Answers'
  BY DEF CallInv, Asking, InLine, Answers
<1>2. SentinelLast'
  BY DEF CallInv, SentinelLast
<1>3. Batches'
  BY DEF CallInv, Batches
<1> QED  BY <1>1, <1>2, <1>3 DEF CallInv

\* A request is queued: its model does not stop, so no sentinel is ahead of it.
LEMMA SubmitCalls ==
    ASSUME TypeOK, EntryInv, CallInv, NEW c \in Callers, NEW kwargs \in Args[c],
           Submit(c, kwargs)
    PROVE  CallInv'
<1> DEFINE r == [by |-> c, no |-> calls + 1, kwargs |-> kwargs]
<1>1. r \in Requests /\ r.by = c /\ r # Stop /\ r # NoRequest
  <2>1. r \in Requests /\ r.by = c
    BY PoolAssumption DEF TypeOK, Submit, Requests
  <2> HIDE DEF r
  <2>2. {Stop, NoRequest} \cap Requests = {}
    BY PoolAssumption DEF Requests
  <2> QED  BY <2>1, <2>2
<1>2. /\ asked' = [asked EXCEPT ![c] = r]
      /\ queue' = [queue EXCEPT ![mine[c]] = Append(@, r)]
      /\ at' = [at EXCEPT ![c] = "calls"] /\ at[c] = "holds"
      /\ ~entry[mine[c]].stopping
      /\ UNCHANGED <<entry, thread, batch, carry, last, mine, answer>>
  BY DEF Submit, Go, threadVars
<1>3. mine[c] \in Entries
  BY <1>2, MineIsEntry DEF EntryInv, Somebody
<1> HIDE DEF r
<1>4. PICK i \in Entries : i = mine[c]
  BY <1>3
<1>5. /\ \A d \in Callers : at'[d] = IF d = c THEN "calls" ELSE at[d]
      /\ \A d \in Callers : asked'[d] = IF d = c THEN r ELSE asked[d]
      /\ \A j \in Entries : queue'[j] = IF j = i THEN Append(queue[i], r) ELSE queue[j]
  BY <1>2, <1>4 DEF TypeOK
<1>6. queue[i] \in Seq(Requests \cup {Stop}) /\ r \in Requests \cup {Stop}
  BY <1>1 DEF TypeOK
<1>7. ElementsOf(queue'[i]) = ElementsOf(queue[i]) \cup {r}
  BY <1>5, <1>6, AppendElements
<1>8. Asking'
  BY <1>1, <1>2, <1>5 DEF CallInv, Asking
<1>9. InLine'
  <2> SUFFICES ASSUME NEW d \in Callers, at'[d] = "calls", answer'[d] = "none"
               PROVE  asked'[d] \in batch'[mine'[d]] \cup ElementsOf(carry'[mine'[d]])
                                      \cup ElementsOf(queue'[mine'[d]])
    BY DEF InLine
  <2>1. CASE d = c
    BY <1>2, <1>4, <1>5, <1>7, <2>1
  <2>2. CASE d # c
    <3>1. asked[d] \in batch[mine[d]] \cup ElementsOf(carry[mine[d]]) \cup ElementsOf(queue[mine[d]])
      BY <1>2, <1>5, <2>2 DEF CallInv, InLine
    <3>2. mine[d] \in Entries
      BY <1>5, <2>2, MineIsEntry DEF EntryInv, Somebody
    <3> QED  BY <1>2, <1>5, <1>7, <2>2, <3>1, <3>2
  <2> QED  BY <2>1, <2>2
<1>10. Answers'
  <2>1. answer[c] = "none"
    BY <1>2 DEF CallInv, Asking
  <2> QED  BY <1>2, <1>5, <2>1 DEF CallInv, Answers
<1>11. SentinelLast'
  <2>1. /\ \A j \in 1 .. Len(queue[i]) : queue[i][j] # Stop
        /\ thread[i] # "ended" /\ ~last[i]
    BY <1>2, <1>4 DEF CallInv, SentinelLast
  <2>2. /\ Len(queue'[i]) = Len(queue[i]) + 1 /\ Len(queue[i]) \in Nat
        /\ \A j \in 1 .. Len(queue[i]) : queue'[i][j] = queue[i][j]
        /\ queue'[i][Len(queue[i]) + 1] = r
    <3>1. queue'[i] = Append(queue[i], r)
      BY <1>5
    <3>2. Len(queue[i]) \in Nat
      BY <1>6, LenProperties
    <3>3. /\ Len(Append(queue[i], r)) = Len(queue[i]) + 1
          /\ \A j \in 1 .. Len(queue[i]) : Append(queue[i], r)[j] = queue[i][j]
          /\ Append(queue[i], r)[Len(queue[i]) + 1] = r
      BY <1>6, AppendProperties
    <3> QED  BY <3>1, <3>2, <3>3
  <2>3. \A j \in 1 .. Len(queue'[i]) : queue'[i][j] # Stop
    BY <1>1, <2>1, <2>2
  <2> SUFFICES ASSUME NEW m \in Entries
               PROVE  /\ \A j \in 1 .. Len(queue'[m]) : queue'[m][j] = Stop =>
                           entry'[m].stopping /\ j = Len(queue'[m])
                      /\ thread'[m] = "ended" \/ last'[m] =>
                           entry'[m].stopping /\ carry'[m] = <<>> /\ queue'[m] = <<>>
    BY DEF SentinelLast
  <2>4. CASE m = i
    BY <1>2, <2>1, <2>3, <2>4
  <2>5. CASE m # i
    <3>1. queue'[m] = queue[m] /\ entry' = entry /\ thread' = thread /\ last' = last /\ carry' = carry
      BY <1>2, <1>5, <2>5
    <3> QED  BY <3>1 DEF CallInv, SentinelLast
  <2> QED  BY <2>4, <2>5
<1>12. Batches'
  BY <1>2 DEF CallInv, Batches
<1> QED  BY <1>8, <1>9, <1>10, <1>11, <1>12 DEF CallInv

\* The caller goes on, and nobody looks at its request any more.
LEMMA CallEndsCalls ==
    ASSUME TypeOK, CallInv, NEW c \in Callers, CallEnds(c)
    PROVE  CallInv'
<1>1. /\ \A d \in Callers : at'[d] = IF d = c THEN "holds" ELSE at[d]
      /\ \A d \in Callers : asked'[d] = IF d = c THEN NoRequest ELSE asked[d]
      /\ \A d \in Callers : answer'[d] = IF d = c THEN "none" ELSE answer[d]
      /\ UNCHANGED <<entry, queue, thread, batch, carry, last, mine>>
  BY DEF CallEnds, Go, TypeOK, threadVars
<1>2. Asking' /\ InLine' /\ Answers'
  BY <1>1 DEF CallInv, Asking, InLine, Answers
<1>3. SentinelLast' /\ Batches'
  BY <1>1 DEF CallInv, SentinelLast, Batches
<1> QED  BY <1>2, <1>3 DEF CallInv

\* What is said of the calls of one thread.
LineOf(m) ==
    /\ \A j \in 1 .. Len(queue[m]) : queue[m][j] = Stop =>
         entry[m].stopping /\ j = Len(queue[m])
    /\ thread[m] = "ended" \/ last[m] =>
         entry[m].stopping /\ carry[m] = <<>> /\ queue[m] = <<>>
    /\ thread[m] \notin {"calling", "hung"} => batch[m] = {}
    /\ thread[m] \in {"none", "idle"} => ~last[m]
    /\ \A r, q \in batch[m] : r.kwargs = q.kwargs

LEMMA LinesAreThat == SentinelLast /\ Batches <=> \A m \in Entries : LineOf(m)
  BY DEF SentinelLast, Batches, LineOf

\* stop() queues the sentinel behind all there is, once.
LEMMA MarkCalls ==
    ASSUME TypeOK, EntryInv, CallInv, NEW s \in Somebody, MarkStopping(s),
           ~entry[mine[s]].stopping
    PROVE  CallInv'
<1>1. PICK i \in Entries : i = mine[s]
  BY MineIsEntry DEF EntryInv, MarkStopping
<1>2. /\ at[s] = "stop" /\ at' = [at EXCEPT ![s] = "join"]
      /\ entry' = [entry EXCEPT ![i].stopping = TRUE]
      /\ queue' = [queue EXCEPT ![i] = Append(@, Stop)]
      /\ UNCHANGED <<mine, thread, batch, carry, last, asked, answer>>
  BY <1>1 DEF MarkStopping, threadVars, callVars
<1>3. /\ \A c \in Callers : at'[c] = "calls" <=> at[c] = "calls"
      /\ \A j \in Entries : queue'[j] = IF j = i THEN Append(queue[i], Stop) ELSE queue[j]
  BY <1>2 DEF TypeOK, Somebody
<1>4. \A j \in Entries : entry'[j].stopping <=> entry[j].stopping \/ j = i
  BY <1>2 DEF TypeOK
<1>5. queue[i] \in Seq(Requests \cup {Stop}) /\ Stop \in Requests \cup {Stop}
  BY DEF TypeOK
<1>6. ElementsOf(queue'[i]) = ElementsOf(queue[i]) \cup {Stop}
  BY <1>3, <1>5, AppendElements
<1>7. Asking' /\ Answers'
  BY <1>2, <1>3 DEF CallInv, Asking, Answers
<1>8. InLine'
  <2> SUFFICES ASSUME NEW d \in Callers, at'[d] = "calls", answer'[d] = "none"
               PROVE  asked'[d] \in batch'[mine'[d]] \cup ElementsOf(carry'[mine'[d]])
                                      \cup ElementsOf(queue'[mine'[d]])
    BY DEF InLine
  <2>1. at[d] = "calls" /\ mine[d] \in Entries
    BY <1>3, MineIsEntry DEF EntryInv, Somebody
  <2>2. asked[d] \in batch[mine[d]] \cup ElementsOf(carry[mine[d]]) \cup ElementsOf(queue[mine[d]])
    BY <1>2, <2>1 DEF CallInv, InLine
  <2> QED  BY <1>2, <1>3, <1>6, <2>1, <2>2
<1>9. ASSUME NEW m \in Entries PROVE LineOf(m)'
  <2>1. LineOf(m)
    BY LinesAreThat DEF CallInv
  <2>2. CASE m = i
    <3>1. ~entry[i].stopping
      BY <1>1
    <3>2. /\ \A j \in 1 .. Len(queue[i]) : queue[i][j] # Stop
          /\ thread[i] # "ended" /\ ~last[i]
      BY <2>1, <2>2, <3>1 DEF LineOf
    <3>3. Len(queue[i]) \in Nat
      BY <1>5, LenProperties
    <3>4. /\ Len(Append(queue[i], Stop)) = Len(queue[i]) + 1
          /\ \A j \in 1 .. Len(queue[i]) : Append(queue[i], Stop)[j] = queue[i][j]
      BY <1>5, AppendProperties
    <3>5. \A j \in 1 .. Len(queue'[i]) : queue'[i][j] = Stop => j = Len(queue'[i])
      <4>1. queue'[i] = Append(queue[i], Stop)
        BY <1>3
      <4>2. \A j \in 1 .. Len(queue[i]) + 1 : j \notin 1 .. Len(queue[i]) => j = Len(queue[i]) + 1
        BY <3>3
      <4> QED  BY <3>2, <3>4, <4>1, <4>2
    <3>6. entry'[i].stopping
      BY <1>4
    <3> QED  BY <1>2, <2>1, <2>2, <3>2, <3>5, <3>6 DEF LineOf
  <2>3. CASE m # i
    BY <1>2, <1>3, <1>4, <2>1, <2>3 DEF LineOf
  <2> QED  BY <2>2, <2>3
<1>10. SentinelLast' /\ Batches'
  BY <1>9 DEF SentinelLast, Batches, LineOf
<1> QED  BY <1>7, <1>8, <1>10 DEF CallInv

\* The sentinel was first, so it was all there was.
LEMMA ThreadEndsCalls ==
    ASSUME TypeOK, EntryInv, CallInv, NEW i \in Entries, ThreadEnds(i)
    PROVE  CallInv'
<1>1. /\ thread[i] = "idle" /\ carry[i] = <<>> /\ queue[i] # <<>> /\ Head(queue[i]) = Stop
      /\ \A j \in Entries : thread'[j] = IF j = i THEN "ended" ELSE thread[j]
      /\ \A j \in Entries : queue'[j] = IF j = i THEN Tail(queue[i]) ELSE queue[j]
      /\ UNCHANGED <<entry, at, mine, batch, carry, last, asked, answer>>
  BY DEF ThreadEnds, TypeOK, callVars
<1>2. LineOf(i)
  BY LinesAreThat DEF CallInv
<1>3. queue[i] \in Seq(Requests \cup {Stop})
  BY DEF TypeOK
<1>4. Len(queue[i]) \in Nat \ {0} /\ queue[i][1] = Stop
  BY <1>1, <1>3, EmptySeq
<1>5. entry[i].stopping /\ Len(queue[i]) = 1
  <2>1. 1 \in 1 .. Len(queue[i])
    BY <1>4
  <2> QED  BY <1>2, <1>4, <2>1 DEF LineOf
<1>6. queue'[i] = <<>>
  <2>1. Tail(queue[i]) \in Seq(Requests \cup {Stop}) /\ Len(Tail(queue[i])) = 0
    BY <1>1, <1>3, <1>5, HeadTailProperties
  <2>2. Tail(queue[i]) = <<>>
    BY <2>1, EmptySeq
  <2> QED  BY <1>1, <2>2
<1>7. Asking' /\ Answers'
  BY <1>1 DEF CallInv, Asking, Answers
<1>8. InLine'
  <2> SUFFICES ASSUME NEW d \in Callers, at'[d] = "calls", answer'[d] = "none"
               PROVE  asked'[d] \in batch'[mine'[d]] \cup ElementsOf(carry'[mine'[d]])
                                      \cup ElementsOf(queue'[mine'[d]])
    BY DEF InLine
  <2>1. mine[d] \in Entries
    BY <1>1, MineIsEntry DEF EntryInv, Somebody
  <2>2. asked[d] \in batch[mine[d]] \cup ElementsOf(carry[mine[d]]) \cup ElementsOf(queue[mine[d]])
    BY <1>1 DEF CallInv, InLine
  <2>3. CASE mine[d] = i
    <3>1. asked[d] # Stop
      <4>1. asked[d] # NoRequest
        BY <1>1 DEF CallInv, Asking
      <4>2. {Stop, NoRequest} \cap Requests = {}
        BY PoolAssumption DEF Requests
      <4>3. asked[d] \in Requests
        BY <4>1 DEF TypeOK
      <4> QED  BY <4>2, <4>3
    <3>2. ElementsOf(queue[i]) = {Stop}
      BY <1>4, <1>5 DEF ElementsOf
    <3> QED  BY <1>1, <2>2, <2>3, <3>1, <3>2
  <2>4. CASE mine[d] # i
    BY <1>1, <2>1, <2>2, <2>4
  <2> QED  BY <2>3, <2>4
<1>9. ASSUME NEW m \in Entries PROVE LineOf(m)'
  <2>1. LineOf(m)
    BY LinesAreThat DEF CallInv
  <2>2. CASE m = i
    <3>1. \A j \in 1 .. Len(queue'[i]) : FALSE
      BY <1>6, EmptySeq
    <3> QED  BY <1>1, <1>5, <1>6, <2>1, <2>2, <3>1 DEF LineOf
  <2>3. CASE m # i
    BY <1>1, <2>1, <2>3 DEF LineOf
  <2> QED  BY <2>2, <2>3
<1>10. SentinelLast' /\ Batches'
  BY <1>9 DEF SentinelLast, Batches, LineOf
<1> QED  BY <1>7, <1>8, <1>10 DEF CallInv

\* The callers of the batch are answered, with what was computed for all alike.
LEMMA FinishCalls ==
    ASSUME TypeOK, EntryInv, CallInv, NEW i \in Entries, NEW outcome,
           thread[i] \in {"calling", "hung"}, Finish(i, outcome),
           outcome = "error" \/ \E r \in batch[i] : outcome = r.kwargs
    PROVE  CallInv'
<1>1. /\ \A c \in Callers : answer'[c] = IF asked[c] \in batch[i] THEN outcome ELSE answer[c]
      /\ \A j \in Entries : batch'[j] = IF j = i THEN {} ELSE batch[j]
      /\ \A j \in Entries : thread'[j] = IF j = i THEN (IF last[i] THEN "ended" ELSE "idle")
                                                  ELSE thread[j]
      /\ UNCHANGED <<entry, queue, at, mine, carry, last, asked>>
  BY DEF Finish, TypeOK
<1>2. /\ batch[i] \subseteq Requests /\ NoRequest \notin batch[i]
      /\ outcome # "none"
  <2>1. batch[i] \subseteq Requests
    BY DEF TypeOK
  <2>2. {Stop, NoRequest} \cap Requests = {}
    BY PoolAssumption DEF Requests
  <2>3. \A r \in batch[i] : r.kwargs # "none"
    BY <2>1, PoolAssumption DEF Requests
  <2> QED  BY <2>1, <2>2, <2>3
<1>3. \A r, q \in batch[i] : r.kwargs = q.kwargs
  BY DEF CallInv, Batches
<1>4. Asking'
  BY <1>1, <1>2 DEF CallInv, Asking
<1>5. Answers'
  <2> SUFFICES ASSUME NEW d \in Callers, at'[d] = "calls", answer'[d] # "none"
               PROVE  answer'[d] \in {"error", asked'[d].kwargs}
    BY DEF Answers
  <2>1. CASE asked[d] \in batch[i]
    BY <1>1, <1>3, <2>1
  <2>2. CASE asked[d] \notin batch[i]
    BY <1>1, <2>2 DEF CallInv, Answers
  <2> QED  BY <2>1, <2>2
<1>6. InLine'
  <2> SUFFICES ASSUME NEW d \in Callers, at'[d] = "calls", answer'[d] = "none"
               PROVE  asked'[d] \in batch'[mine'[d]] \cup ElementsOf(carry'[mine'[d]])
                                      \cup ElementsOf(queue'[mine'[d]])
    BY DEF InLine
  <2>1. mine[d] \in Entries
    BY <1>1, MineIsEntry DEF EntryInv, Somebody
  <2>2. asked[d] \notin batch[i] /\ answer[d] = "none"
    BY <1>1, <1>2
  <2>3. asked[d] \in batch[mine[d]] \cup ElementsOf(carry[mine[d]]) \cup ElementsOf(queue[mine[d]])
    BY <1>1, <2>2 DEF CallInv, InLine
  <2> QED  BY <1>1, <2>1, <2>2, <2>3
<1>7. ASSUME NEW m \in Entries PROVE LineOf(m)'
  <2>1. LineOf(m)
    BY LinesAreThat DEF CallInv
  <2> QED  BY <1>1, <2>1 DEF LineOf
<1>8. SentinelLast' /\ Batches'
  BY <1>7 DEF SentinelLast, Batches, LineOf
<1> QED  BY <1>4, <1>5, <1>6, <1>8 DEF CallInv

\* A concatenation has what its parts have.
LEMMA ConcatElements ==
    ASSUME NEW S, NEW s \in Seq(S), NEW t \in Seq(S)
    PROVE  ElementsOf(s \o t) = ElementsOf(s) \cup ElementsOf(t)
<1>1. PICK m \in Nat, n \in Nat : m = Len(s) /\ n = Len(t)
  BY LenProperties
<1>2. /\ Len(s \o t) = m + n
      /\ \A j \in 1 .. m + n : (s \o t)[j] = IF j <= m THEN s[j] ELSE t[j - m]
  BY <1>1, ConcatProperties
<1>3. ASSUME NEW j \in 1 .. m PROVE j \in 1 .. m + n /\ j <= m
  OBVIOUS
<1>4. ASSUME NEW j \in 1 .. n
      PROVE  m + j \in 1 .. m + n /\ ~(m + j <= m) /\ (m + j) - m = j
  OBVIOUS
<1>5. ASSUME NEW j \in 1 .. m + n, ~(j <= m)
      PROVE  j - m \in 1 .. n
  BY <1>5
<1>6. ElementsOf(s) \subseteq ElementsOf(s \o t)
  BY <1>1, <1>2, <1>3 DEF ElementsOf
<1>7. ElementsOf(t) \subseteq ElementsOf(s \o t)
  <2> SUFFICES ASSUME NEW j \in 1 .. n PROVE t[j] \in ElementsOf(s \o t)
    BY <1>1 DEF ElementsOf
  <2>1. (s \o t)[m + j] = t[j]
    BY <1>2, <1>4
  <2> QED  BY <1>2, <1>4, <2>1 DEF ElementsOf
<1>8. ElementsOf(s \o t) \subseteq ElementsOf(s) \cup ElementsOf(t)
  <2> SUFFICES ASSUME NEW j \in 1 .. m + n PROVE (s \o t)[j] \in ElementsOf(s) \cup ElementsOf(t)
    BY <1>2 DEF ElementsOf
  <2>1. CASE j <= m
    BY <1>1, <1>2, <2>1 DEF ElementsOf
  <2>2. CASE ~(j <= m)
    <3>1. (s \o t)[j] = t[j - m]
      BY <1>2, <2>2
    <3> QED  BY <1>1, <1>5, <2>2, <3>1 DEF ElementsOf
  <2> QED  BY <2>1, <2>2
<1> QED  BY <1>6, <1>7, <1>8

\* What can only be the last item of the second part can only be the last item
\* of the concatenation.
LEMMA ConcatLast ==
    ASSUME NEW S, NEW s \in Seq(S), NEW t \in Seq(S), NEW e,
           \A j \in 1 .. Len(s) : s[j] # e,
           \A j \in 1 .. Len(t) : t[j] = e => j = Len(t)
    PROVE  \A j \in 1 .. Len(s \o t) : (s \o t)[j] = e =>
             j = Len(s \o t) /\ e \in ElementsOf(t)
<1>1. PICK m \in Nat, n \in Nat : m = Len(s) /\ n = Len(t)
  BY LenProperties
<1>2. /\ Len(s \o t) = m + n
      /\ \A j \in 1 .. m + n : (s \o t)[j] = IF j <= m THEN s[j] ELSE t[j - m]
  BY <1>1, ConcatProperties
<1> SUFFICES ASSUME NEW j \in 1 .. m + n, (s \o t)[j] = e
             PROVE  j = m + n /\ e \in ElementsOf(t)
  BY <1>2
<1>3. CASE j <= m
  <2>1. j \in 1 .. m /\ s[j] = e
    BY <1>2, <1>3
  <2> QED  BY <1>1, <2>1
<1>4. CASE ~(j <= m)
  <2>1. j - m \in 1 .. n
    BY <1>4
  <2>2. t[j - m] = e
    BY <1>2, <1>4
  <2>3. j - m = n
    BY <1>1, <2>1, <2>2
  <2>4. j = m + n
    BY <2>3
  <2> QED  BY <1>1, <2>1, <2>2, <2>4 DEF ElementsOf
<1> QED  BY <1>3, <1>4
\* What was in line is in the batch, carried or left in the queue, if it is a
\* request that somebody waits for.
LEMMA TakeKeeps ==
    ASSUME TypeOK, NEW i \in Entries, Take(i),
           NEW q \in Requests, asked[q.by] = q,
           q \in ElementsOf(carry[i]) \cup ElementsOf(queue[i])
    PROVE  q \in batch'[i] \cup ElementsOf(carry'[i]) \cup ElementsOf(queue'[i])
<1> DEFINE s == carry[i] \o queue[i]
           n == BatchLength(s)
           a == After(s, n)
           rest == SubSeq(s, n + 1 + Len(a), Len(s))
<1>1. /\ s \in Seq(Requests \cup {Stop})
      /\ n \in 1 .. MaxBatch /\ n <= Len(s)
  BY TakeParts
<1>2. /\ batch'[i] = {r \in {s[j] : j \in 1 .. n} : asked[r.by] = r}
      /\ carry'[i] = Carried(s, n) /\ queue'[i] = rest
  BY DEF Take, TypeOK
<1>3. \E j \in 1 .. Len(s) : s[j] = q
  <2>1. carry[i] \in Seq(Requests \cup {Stop})
    BY SeqMonotonic DEF TypeOK
  <2>2. queue[i] \in Seq(Requests \cup {Stop})
    BY DEF TypeOK
  <2>3. q \in ElementsOf(s)
    BY <2>1, <2>2, ConcatElements
  <2> QED  BY <2>3 DEF ElementsOf
<1>4. Len(s) \in Nat /\ \A j \in 1 .. Len(s) : s[j] \in Requests \cup {Stop}
  BY <1>1, LenProperties, ElementOfSeq
<1>5. q # Stop
  BY PoolAssumption DEF Requests
<1>6. IF n < MaxBatch /\ n < Len(s) THEN a = <<s[n + 1]>> ELSE a = <<>>
  BY DEF After
<1>7. Carried(s, n) = IF a = <<Stop>> THEN <<>> ELSE a
  BY DEF Carried
<1> HIDE DEF s, n, a
<1>8. PICK j \in 1 .. Len(s) : s[j] = q
  BY <1>3
<1>9. CASE j <= n
  <2>1. j \in 1 .. n
    BY <1>1, <1>9
  <2> QED  BY <1>2, <1>8, <2>1
<1>10. CASE j > n /\ a # <<>> /\ j = n + 1
  <2>1. a = <<q>> /\ a # <<Stop>>
    BY <1>5, <1>6, <1>8, <1>10
  <2>2. carry'[i] = <<q>>
    BY <1>2, <1>7, <2>1
  <2>3. q \in ElementsOf(carry'[i])
    BY <2>2 DEF ElementsOf
  <2> QED  BY <2>3
<1>11. CASE j > n /\ (a = <<>> \/ j > n + 1)
  <2>1. Len(a) \in {0, 1} /\ n + 1 + Len(a) \in Nat /\ n + 1 + Len(a) <= j /\ n + 1 + Len(a) > 0
    <3>1. a = <<>> => Len(a) = 0
      OBVIOUS
    <3>2. a # <<>> => Len(a) = 1
      BY <1>6
    <3>3. n \in Nat /\ j \in Nat
      BY <1>1, <1>4
    <3>4. \/ Len(a) = 0
          \/ Len(a) = 1 /\ j > n + 1
      BY <1>11, <3>1, <3>2
    <3>5. j >= n + 1
      BY <1>11, <3>3
    <3>6. PICK k \in {0, 1} : k = Len(a) /\ (k = 1 => j > n + 1)
      BY <3>4
    <3>7. n + 1 + k \in Nat /\ n + 1 + k <= j /\ n + 1 + k > 0
      BY <3>3, <3>5, <3>6
    <3> QED  BY <3>6, <3>7
  <2>2. PICK l \in Nat : l = n + 1 + Len(a)
    BY <2>1
  <2>3. \A m \in l .. Len(s) : s[m] \in Requests \cup {Stop}
    BY <1>4, <2>1, <2>2
  <2>4. /\ Len(SubSeq(s, l, Len(s))) = IF l <= Len(s) THEN Len(s) - l + 1 ELSE 0
        /\ \A m \in 1 .. Len(s) - l + 1 : SubSeq(s, l, Len(s))[m] = s[l + m - 1]
    BY <1>4, <2>3, SubSeqProperties
  <2>5. PICK m \in Int : m = j - l + 1
    BY <1>4, <2>2
  <2>6. m \in 1 .. Len(s) - l + 1 /\ l + m - 1 = j /\ l <= Len(s)
    BY <1>4, <2>1, <2>2, <2>5
  <2>7. SubSeq(s, l, Len(s))[m] = q /\ m \in 1 .. Len(SubSeq(s, l, Len(s)))
    BY <1>8, <2>4, <2>6
  <2>8. queue'[i] = SubSeq(s, l, Len(s))
    BY <1>2, <2>2
  <2> QED  BY <2>7, <2>8 DEF ElementsOf
<1> QED  BY <1>1, <1>9, <1>10, <1>11

\* A sentinel that is left is still the last item, and one that was taken left
\* nothing behind it.
LEMMA TakeLeaves ==
    ASSUME TypeOK, NEW i \in Entries, LineOf(i), Take(i)
    PROVE  LET s == carry[i] \o queue[i]
               n == BatchLength(s)
           IN  /\ \A j \in 1 .. Len(queue'[i]) : queue'[i][j] = Stop =>
                    entry[i].stopping /\ j = Len(queue'[i])
               /\ After(s, n) = <<Stop>> =>
                    entry[i].stopping /\ carry'[i] = <<>> /\ queue'[i] = <<>>
<1> DEFINE s == carry[i] \o queue[i]
           n == BatchLength(s)
           a == After(s, n)
           rest == SubSeq(s, n + 1 + Len(a), Len(s))
<1>1. /\ s \in Seq(Requests \cup {Stop})
      /\ n \in 1 .. MaxBatch /\ n <= Len(s)
  BY TakeParts
<1>2. carry'[i] = Carried(s, n) /\ queue'[i] = rest
  BY DEF Take, TypeOK
<1>3. \A j \in 1 .. Len(s) : s[j] = Stop => entry[i].stopping /\ j = Len(s)
  <2>1. carry[i] \in Seq(Requests \cup {Stop}) /\ carry[i] \in Seq(Requests)
    BY SeqMonotonic DEF TypeOK
  <2>2. queue[i] \in Seq(Requests \cup {Stop})
    BY DEF TypeOK
  <2>3. \A j \in 1 .. Len(carry[i]) : carry[i][j] # Stop
    <3>1. \A j \in 1 .. Len(carry[i]) : carry[i][j] \in Requests
      BY <2>1, ElementOfSeq
    <3>2. Stop \notin Requests
      BY PoolAssumption DEF Requests
    <3> QED  BY <3>1, <3>2
  <2>4. \A j \in 1 .. Len(queue[i]) : queue[i][j] = Stop => entry[i].stopping /\ j = Len(queue[i])
    BY DEF LineOf
  <2>5. \A j \in 1 .. Len(s) : s[j] = Stop => j = Len(s) /\ Stop \in ElementsOf(queue[i])
    BY <2>1, <2>2, <2>3, <2>4, ConcatLast
  <2>6. Stop \in ElementsOf(queue[i]) => entry[i].stopping
    BY <2>4 DEF ElementsOf
  <2> QED  BY <2>5, <2>6
<1>4. Len(s) \in Nat /\ \A j \in 1 .. Len(s) : s[j] \in Requests \cup {Stop}
  BY <1>1, LenProperties, ElementOfSeq
<1>6. IF n < MaxBatch /\ n < Len(s) THEN a = <<s[n + 1]>> ELSE a = <<>>
  BY DEF After
<1>7. Carried(s, n) = IF a = <<Stop>> THEN <<>> ELSE a
  BY DEF Carried
<1> HIDE DEF s, n, a
<1>8. Len(a) \in {0, 1} /\ n \in Nat
  BY <1>1, <1>6
<1>9. PICK l \in Nat : l = n + 1 + Len(a)
  BY <1>8
<1>10. l \in Nat \ {0}
  BY <1>8, <1>9
<1>11. \A m \in l .. Len(s) : s[m] \in Requests \cup {Stop}
  BY <1>4, <1>10
<1>12. /\ SubSeq(s, l, Len(s)) \in Seq(Requests \cup {Stop})
       /\ Len(SubSeq(s, l, Len(s))) = IF l <= Len(s) THEN Len(s) - l + 1 ELSE 0
       /\ \A m \in 1 .. Len(s) - l + 1 : SubSeq(s, l, Len(s))[m] = s[l + m - 1]
  BY <1>4, <1>11, SubSeqProperties
<1>13. queue'[i] = SubSeq(s, l, Len(s))
  BY <1>2, <1>9
<1>14. ASSUME NEW j \in 1 .. Len(queue'[i]), queue'[i][j] = Stop
       PROVE  entry[i].stopping /\ j = Len(queue'[i])
  <2>1. /\ j \in 1 .. Len(s) - l + 1 /\ l + j - 1 \in 1 .. Len(s)
        /\ Len(queue'[i]) = Len(s) - l + 1
    BY <1>4, <1>10, <1>12, <1>13
  <2>2. s[l + j - 1] = Stop
    BY <1>12, <1>13, <1>14, <2>1
  <2>3. entry[i].stopping /\ l + j - 1 = Len(s)
    BY <1>3, <2>1, <2>2
  <2> QED  BY <1>4, <1>10, <2>1, <2>3
<1>15. ASSUME a = <<Stop>>
       PROVE  entry[i].stopping /\ carry'[i] = <<>> /\ queue'[i] = <<>>
  <2>1. s[n + 1] = Stop /\ n < Len(s) /\ Len(a) = 1
    BY <1>6, <1>15
  <2>2. n + 1 \in 1 .. Len(s)
    BY <1>4, <1>8, <2>1
  <2>3. entry[i].stopping /\ n + 1 = Len(s)
    BY <1>3, <2>1, <2>2
  <2>4. ~(l <= Len(s))
    BY <1>4, <1>8, <1>9, <2>1, <2>3
  <2>5. queue'[i] = <<>>
    BY <1>12, <1>13, <2>4, EmptySeq
  <2> QED  BY <1>2, <1>7, <1>15, <2>3, <2>5
<1> QED  BY <1>14, <1>15 DEF s, n, a

\* The thread fills a batch.
LEMMA TakeCalls ==
    ASSUME TypeOK, EntryInv, CallInv, NEW i \in Entries, Take(i)
    PROVE  CallInv'
<1> DEFINE s == carry[i] \o queue[i]
           n == BatchLength(s)
           alive == {r \in {s[j] : j \in 1 .. n} : asked[r.by] = r}
           stop == After(s, n) = <<Stop>>
<1>1. LineOf(i)
  BY LinesAreThat DEF CallInv
<1>2. /\ \A j \in 1 .. Len(queue'[i]) : queue'[i][j] = Stop =>
           entry[i].stopping /\ j = Len(queue'[i])
      /\ stop => entry[i].stopping /\ carry'[i] = <<>> /\ queue'[i] = <<>>
  BY <1>1, TakeLeaves
<1>3. \A r, q \in alive : r.kwargs = q.kwargs
  <2>1. Alike(s, n)
    BY TakeParts
  <2> QED  BY <2>1 DEF Alike
<1>4. thread[i] = "idle" /\ stop \in BOOLEAN
  BY DEF Take
<1>5. /\ batch' = [batch EXCEPT ![i] = alive]
      /\ carry' = [carry EXCEPT ![i] = Carried(s, n)]
      /\ queue' = [queue EXCEPT ![i] = SubSeq(s, n + 1 + Len(After(s, n)), Len(s))]
      /\ last' = [last EXCEPT ![i] = stop]
      /\ thread' = [thread EXCEPT ![i] = IF alive # {} THEN "calling"
                                         ELSE IF stop THEN "ended" ELSE "idle"]
      /\ UNCHANGED <<entry, at, mine, asked, answer>>
  BY Zenon DEF Take, callVars
<1> HIDE DEF s, n, alive, stop
<1>6. /\ \A m \in Entries \ {i} : /\ batch'[m] = batch[m] /\ carry'[m] = carry[m]
                                  /\ queue'[m] = queue[m] /\ last'[m] = last[m]
                                  /\ thread'[m] = thread[m]
      /\ batch'[i] = alive /\ last'[i] = stop
      /\ thread'[i] = IF alive # {} THEN "calling" ELSE IF stop THEN "ended" ELSE "idle"
  BY <1>5 DEF TypeOK
<1>7. Asking' /\ Answers'
  BY <1>5 DEF CallInv, Asking, Answers
<1>8. InLine'
  <2> SUFFICES ASSUME NEW d \in Callers, at[d] = "calls", answer[d] = "none"
               PROVE  asked[d] \in batch'[mine[d]] \cup ElementsOf(carry'[mine[d]])
                                      \cup ElementsOf(queue'[mine[d]])
    BY <1>5 DEF InLine
  <2>1. mine[d] \in Entries
    BY MineIsEntry DEF EntryInv, Somebody
  <2>2. asked[d] \in batch[mine[d]] \cup ElementsOf(carry[mine[d]]) \cup ElementsOf(queue[mine[d]])
    BY DEF CallInv, InLine
  <2>3. CASE mine[d] = i
    <3>1. asked[d] # NoRequest /\ asked[d].by = d
      BY DEF CallInv, Asking
    <3>2. asked[d] \in Requests
      BY <3>1 DEF TypeOK
    <3>3. batch[i] = {}
      BY <1>1, <1>4 DEF LineOf
    <3>4. PICK q \in Requests : q = asked[d] /\ asked[q.by] = q
      BY <3>1, <3>2
    <3>5. q \in ElementsOf(carry[i]) \cup ElementsOf(queue[i])
      BY <2>2, <2>3, <3>3, <3>4
    <3>6. q \in batch'[i] \cup ElementsOf(carry'[i]) \cup ElementsOf(queue'[i])
      BY <3>4, <3>5, TakeKeeps
    <3> QED  BY <2>3, <3>4, <3>6
  <2>4. CASE mine[d] # i
    BY <1>6, <2>1, <2>2, <2>4
  <2> QED  BY <2>3, <2>4
<1>9. ASSUME NEW m \in Entries PROVE LineOf(m)'
  <2>1. CASE m = i
    <3>1. \A j \in 1 .. Len(queue'[m]) : queue'[m][j] = Stop =>
            entry'[m].stopping /\ j = Len(queue'[m])
      BY <1>2, <1>5, <2>1
    <3>2. thread'[m] = "ended" \/ last'[m] =>
            entry'[m].stopping /\ carry'[m] = <<>> /\ queue'[m] = <<>>
      BY <1>2, <1>5, <1>6, <2>1
    <3>3. /\ thread'[m] \notin {"calling", "hung"} => batch'[m] = {}
          /\ thread'[m] \in {"none", "idle"} => ~last'[m]
      BY <1>6, <2>1
    <3>4. \A r, q \in batch'[m] : r.kwargs = q.kwargs
      BY <1>3, <1>6, <2>1
    <3> QED  BY <3>1, <3>2, <3>3, <3>4 DEF LineOf
  <2>2. CASE m # i
    <3>1. LineOf(m)
      BY LinesAreThat DEF CallInv
    <3> QED  BY <1>5, <1>6, <2>2, <3>1 DEF LineOf
  <2> QED  BY <2>1, <2>2
<1>10. SentinelLast' /\ Batches'
  BY <1>9 DEF SentinelLast, Batches, LineOf
<1> QED  BY <1>7, <1>8, <1>10 DEF CallInv

LEMMA CallStep ==
    ASSUME TypeOK, EntryInv, CallInv, [Next]_vars
    PROVE  CallInv'
<1> DEFINE Quiet ==
             /\ UNCHANGED <<queue, batch, carry, last, asked, answer>>
             /\ \A j \in Entries : entry[j].stopping => entry'[j].stopping
             /\ \A c \in Callers : at'[c] = "calls" <=> at[c] = "calls"
             /\ \A c \in Callers : at[c] = "calls" => mine'[c] = mine[c]
             /\ \A j \in Entries : \/ thread'[j] = thread[j]
                                   \/ thread[j] = "none" /\ thread'[j] = "idle"
                                   \/ thread[j] = "calling" /\ thread'[j] = "hung"
<1>0. Quiet => CallInv'
  BY QuietCalls
<1>1. ASSUME NEW c \in Callers, NEW k \in Keys, Acquire(c, k) PROVE Quiet
  <2>1. at[c] = "out" /\ \A d \in Callers : at'[d] = at[d] \/ (d = c /\ at'[d] \in {"load", "await"})
    BY <1>1 DEF Acquire, Go, TypeOK
  <2>2. \A d \in Callers \ {c} : mine'[d] = mine[d]
    BY <1>1 DEF Acquire, TypeOK
  <2>3. \A j \in Entries : entry'[j].stopping <=> entry[j].stopping
    BY <1>1 DEF Acquire, TypeOK
  <2>4. UNCHANGED <<queue, batch, carry, last, asked, answer, thread>>
    BY <1>1 DEF Acquire, threadVars, callVars
  <2> QED  BY <2>1, <2>2, <2>3, <2>4
<1>2. ASSUME NEW c \in Callers, Release(c) PROVE Quiet
  <2>1. at[c] = "holds" /\ \A d \in Callers : at'[d] = at[d] \/ (d = c /\ at'[d] \in {"stop", "out"})
    BY <1>2 DEF Release, Go, TypeOK
  <2>2. \A d \in Callers \ {c} : mine'[d] = mine[d]
    BY <1>2 DEF Release, TypeOK
  <2>3. \A j \in Entries : entry'[j].stopping <=> entry[j].stopping
    BY <1>2 DEF Release, TypeOK
  <2>4. UNCHANGED <<queue, batch, carry, last, asked, answer, thread>>
    BY <1>2 DEF Release, threadVars, callVars
  <2> QED  BY <2>1, <2>2, <2>3, <2>4
<1>3. ASSUME NEW c \in Callers,
             Loaded(c) \/ LoadRaises(c) \/ Publish(c) \/ Drop(c) \/ Report(c) \/ Ready(c)
      PROVE  Quiet
  <2>1. /\ at[c] \notin {"calls"}
        /\ \A d \in Callers : at'[d] = at[d] \/ (d = c /\ at'[d] # "calls")
    BY <1>3 DEF Loaded, LoadRaises, Publish, Drop, Report, Ready, Go, TypeOK
  <2>2. \A d \in Callers \ {c} : mine'[d] = mine[d]
    BY <1>3 DEF Loaded, LoadRaises, Publish, Drop, Report, Ready, TypeOK
  <2>3. \A j \in Entries : entry'[j].stopping <=> entry[j].stopping
    <3>1. CASE LoadRaises(c) \/ Drop(c) \/ Ready(c)
      BY <3>1 DEF LoadRaises, Drop, Ready
    <3>2. CASE Loaded(c)
      BY <3>2 DEF Loaded, TypeOK
    <3>3. CASE Publish(c)
      BY <3>3 DEF Publish, TypeOK
    <3>4. CASE Report(c)
      BY <3>4 DEF Report, TypeOK
    <3> QED  BY <1>3, <3>1, <3>2, <3>3, <3>4
  <2>4. UNCHANGED <<queue, batch, carry, last, asked, answer, thread>>
    BY <1>3 DEF Loaded, LoadRaises, Publish, Drop, Report, Ready, threadVars, callVars
  <2> QED  BY <2>1, <2>2, <2>3, <2>4
<1>4. ASSUME NEW c \in Callers, StartThread(c) PROVE Quiet
  <2>1. /\ at[c] = "start"
        /\ \A d \in Callers : at'[d] = at[d] \/ (d = c /\ at'[d] # "calls")
    BY <1>4 DEF StartThread, Go, TypeOK
  <2>2. UNCHANGED <<queue, batch, carry, last, asked, answer, mine, entry>>
    BY <1>4 DEF StartThread, callVars
  <2>3. thread[mine[c]] = "none"
    BY <2>1 DEF EntryInv, OneCreator, Creates
  <2>4. \A j \in Entries : thread'[j] = thread[j] \/ (thread[j] = "none" /\ thread'[j] = "idle")
    BY <1>4, <2>3 DEF StartThread, TypeOK
  <2> QED  BY <2>1, <2>2, <2>4
<1>5. ASSUME NEW i \in Entries, Hang(i) PROVE Quiet
  BY <1>5 DEF Hang, TypeOK, callVars
<1>6. CASE Close
  <2>1. \A c \in Callers : at'[c] = at[c] /\ mine'[c] = mine[c]
    BY <1>6, PoolAssumption DEF Close, TypeOK
  <2>2. UNCHANGED <<queue, batch, carry, last, asked, answer, thread, entry>>
    BY <1>6 DEF Close, threadVars, callVars
  <2> QED  BY <1>0, <2>1, <2>2
<1>7. ASSUME NEW s \in Somebody, Stopped(s), at[s] \in Stops,
             \A j \in Entries : entry'[j].stopping <=> entry[j].stopping,
             UNCHANGED <<queue, threadVars, callVars>>
      PROVE  Quiet
  <2>1. \A c \in Callers : at'[c] = "calls" <=> at[c] = "calls"
    <3>1. \A r \in Somebody \ {s} : at'[r] = at[r]
      BY <1>7, StoppedParts
    <3>2. at'[s] \in {"out", "stop"}
      BY <1>7 DEF Stopped, TypeOK, Somebody
    <3> QED  BY <1>7, <3>1, <3>2 DEF Somebody, Stops
  <2>2. \A c \in Callers : at[c] = "calls" => mine'[c] = mine[c]
    BY <1>7, StoppedParts DEF Somebody, Stops
  <2> QED  BY <1>7, <2>1, <2>2 DEF threadVars, callVars
<1>8. ASSUME NEW s \in Somebody, StopStep(s) PROVE CallInv'
  <2>1. CASE MarkStopping(s) /\ ~entry[mine[s]].stopping
    BY <2>1, MarkCalls
  <2>2. CASE MarkStopping(s) /\ entry[mine[s]].stopping
    <3>1. Stopped(s) /\ at[s] \in Stops /\ UNCHANGED <<entry, queue, threadVars, callVars>>
      BY <2>2 DEF MarkStopping, Stops
    <3> QED  BY <1>0, <1>7, <3>1
  <2>3. CASE Joined(s)
    <3>1. Stopped(s) /\ at[s] \in Stops /\ UNCHANGED <<queue, threadVars, callVars>>
      BY <2>3 DEF Joined, Stops
    <3>2. \A j \in Entries : entry'[j].stopping <=> entry[j].stopping
      BY <2>3 DEF Joined, TypeOK
    <3> QED  BY <1>0, <1>7, <3>1, <3>2
  <2> QED  BY <1>8, <2>1, <2>2, <2>3 DEF StopStep
<1>9. ASSUME NEW i \in Entries, Returns(i) \/ ReturnsLate(i) PROVE CallInv'
  <2>1. thread[i] \in {"calling", "hung"}
    BY <1>9 DEF Returns, ReturnsLate
  <2> QED  BY <1>9, <2>1, OutcomeTypes, FinishCalls
<1>10. CASE UNCHANGED vars
  BY <1>0, <1>10 DEF vars, threadVars, callVars
<1> HIDE DEF Quiet
<1> QED
  BY <1>0, <1>1, <1>2, <1>3, <1>4, <1>5, <1>6, <1>8, <1>9, <1>10, SubmitCalls,
     CallEndsCalls, TakeCalls, ThreadEndsCalls
  DEF Next, CallerStep, ThreadStep, Answered, GiveUp, Somebody

-----------------------------------------------------------------------------
(* The inductive invariant *)

LEMMA InitIInv == Init => IInv
<1> SUFFICES ASSUME Init PROVE EntryInv /\ CallInv
  BY InitTypes DEF IInv
<1>1. /\ made = 0 /\ acquires = 0 /\ closed = FALSE /\ toStop = {}
      /\ \A k \in Keys : entries[k] = 0
      /\ \A s \in Somebody : at[s] = "out" /\ mine[s] = 0
      /\ \A i \in Entries : /\ entry[i].refs = 0 /\ ~entry[i].ready /\ ~entry[i].failed
                            /\ ~entry[i].model /\ ~entry[i].stopping
                            /\ thread[i] = "none" /\ batch[i] = {} /\ carry[i] = <<>>
                            /\ queue[i] = <<>> /\ last[i] = FALSE
      /\ \A c \in Callers : asked[c] = NoRequest /\ answer[c] = "none"
  BY DEF Init, Somebody
<1>2. \A i \in Entries : ~Mapped(i) /\ Using(i) = {} /\ i # 0
  BY <1>1 DEF Mapped, Using, Entries, Somebody
<1>3. Places /\ Fresh /\ Keyed /\ MainCloses
  BY <1>1 DEF Places, Fresh, Keyed, MainCloses, Somebody
<1>4. OneCreator /\ MappedLives /\ StopsUnmapped /\ LoadsEnd /\ UsersKnow /\ Freed
  BY <1>1, <1>2
  DEF OneCreator, MappedLives, StopsUnmapped, LoadsEnd, UsersKnow, Freed, Somebody,
      Creates, Stops, Has
<1>5. Counted
  BY <1>1, <1>2, FS_EmptySet DEF Counted
<1>6. CallInv
  <2>1. Len(<<>>) = 0
    BY EmptySeq
  <2> QED  BY <1>1, <2>1 DEF CallInv, Asking, InLine, Answers, SentinelLast, Batches, Somebody
<1> QED  BY <1>3, <1>4, <1>5, <1>6 DEF EntryInv

LEMMA IInvStep == IInv /\ [Next]_vars => IInv'
  BY TypeStep, EntryStep, CallStep DEF IInv, EntryInv

LEMMA Inductive == Spec => []IInv
  BY InitIInv, IInvStep, PTL DEF Spec

-----------------------------------------------------------------------------
(* What it implies *)

\* The state has the types that TypeOK gives it (model_pool.py).
THEOREM TypeCorrect == Spec => []TypeOK
<1>1. IInv => TypeOK
  BY DEF IInv
<1> QED  BY <1>1, Inductive, PTL

\* A caller that has a handle can use it until the pool closes: nobody takes the
\* entry out of the map, frees its model or stops its thread meanwhile (acquire
\* and release, model_pool.py:162-211).
THEOREM HandlesUsable == Spec => []HeldIsUsable
<1>1. ASSUME IInv, NEW c \in Callers, at[c] \in Has, ~closed
      PROVE  LET i == mine[c] IN
             /\ Mapped(i) /\ entry[i].ready /\ entry[i].model
             /\ ~entry[i].stopping /\ thread[i] \notin {"none", "ended"}
  <2>1. mine[c] \in Entries
    BY <1>1, MineIsEntry DEF IInv, EntryInv, Has, Somebody
  <2>2. entry[mine[c]].ready /\ ~entry[mine[c]].failed
    BY <1>1 DEF IInv, EntryInv, UsersKnow
  <2>3. Mapped(mine[c])
    <3>1. \A d \in Callers : mine[d] = mine[c] => at[d] # "report"
      BY <1>1, <2>2 DEF IInv, EntryInv, OneCreator, Creates
    <3> QED  BY <1>1, <2>2, <3>1 DEF IInv, EntryInv, UsersKnow
  <2>4. ~entry[mine[c]].stopping /\ entry[mine[c]].model /\ thread[mine[c]] # "none"
    BY <1>1, <2>1, <2>2, <2>3 DEF IInv, EntryInv, MappedLives
  <2>5. thread[mine[c]] # "ended"
    BY <1>1, <2>1, <2>4 DEF IInv, CallInv, SentinelLast
  <2> QED  BY <2>2, <2>3, <2>4, <2>5
<1>2. IInv => HeldIsUsable
  BY <1>1 DEF HeldIsUsable, Has
<1> QED  BY <1>2, Inductive, PTL

\* A loaded model always has somebody who will free it: no load is leaked when
\* the pool closes, or the last caller leaves, meanwhile (_load, release and
\* close, model_pool.py:180-223).
THEOREM ModelsFreed == Spec => []NoModelLost
<1>1. IInv => NoModelLost
  BY DEF IInv, EntryInv, Freed, NoModelLost, Somebody
<1> QED  BY <1>1, Inductive, PTL

\* A request that is in line is ahead of the sentinel, which can only be last.
LEMMA InLineIsAhead ==
    ASSUME IInv, NEW c \in Callers, at[c] = "calls", answer[c] = "none"
    PROVE  asked[c] \in Ahead(mine[c]) /\ thread[mine[c]] # "ended"
<1>1. PICK i \in Entries : i = mine[c]
  BY MineIsEntry DEF IInv, EntryInv, Somebody
<1>2. PICK q \in Requests : q = asked[c]
  BY DEF IInv, CallInv, Asking, TypeOK
<1>3. q \in batch[i] \cup ElementsOf(carry[i]) \cup ElementsOf(queue[i])
  BY <1>1, <1>2 DEF IInv, CallInv, InLine
<1>4. LineOf(i)
  BY LinesAreThat DEF IInv, CallInv
<1>5. Stop \notin Requests
  BY PoolAssumption DEF Requests
<1>6. thread[i] # "ended"
  <2>1. ElementsOf(<<>>) = {}
    BY EmptySeq DEF ElementsOf
  <2> QED  BY <1>3, <1>4, <2>1 DEF LineOf
<1>7. q \in Ahead(i)
  <2> DEFINE s == carry[i] \o queue[i]
  <2>1. CASE q \in batch[i]
    BY <2>1 DEF Ahead
  <2>2. CASE q \notin batch[i]
    <3>1. carry[i] \in Seq(Requests \cup {Stop}) /\ carry[i] \in Seq(Requests)
      BY SeqMonotonic DEF IInv, TypeOK
    <3>2. queue[i] \in Seq(Requests \cup {Stop})
      BY DEF IInv, TypeOK
    <3>3. \A j \in 1 .. Len(carry[i]) : carry[i][j] # Stop
      BY <1>5, <3>1, ElementOfSeq
    <3>4. \A j \in 1 .. Len(queue[i]) : queue[i][j] = Stop => j = Len(queue[i])
      BY <1>4 DEF LineOf
    <3>5. \A j \in 1 .. Len(s) : s[j] = Stop => j = Len(s) /\ Stop \in ElementsOf(queue[i])
      BY <3>1, <3>2, <3>3, <3>4, ConcatLast
    <3>6. q \in ElementsOf(s)
      BY <1>3, <2>2, <3>1, <3>2, ConcatElements
    <3>7. Len(s) \in Nat
      BY <3>1, <3>2, ConcatProperties, LenProperties
    <3> HIDE DEF s
    <3>8. PICK j \in 1 .. Len(s) : s[j] = q
      BY <3>6 DEF ElementsOf
    <3>9. \A b \in 1 .. j : s[b] # Stop
      <4> SUFFICES ASSUME NEW b \in 1 .. j, s[b] = Stop PROVE FALSE
        OBVIOUS
      <4>1. b \in 1 .. Len(s) /\ b <= j /\ j <= Len(s)
        BY <3>7
      <4>2. b = Len(s)
        BY <3>5, <4>1
      <4>3. b = j
        BY <3>7, <4>1, <4>2
      <4> QED  BY <1>5, <3>8, <4>3
    <3> QED  BY <3>8, <3>9 DEF Ahead, s
  <2> QED  BY <2>1, <2>2
<1> QED  BY <1>1, <1>2, <1>6, <1>7

\* Whoever waits for an answer is in line ahead of the sentinel, with a thread
\* that has not ended; and an answer was computed with the caller's own arguments
\* (submit, stop and _run, model_pool.py:67-122).
THEOREM CallsAreServed == Spec => []CallsServed
<1>1. ASSUME IInv, NEW c \in Callers, at[c] = "calls"
      PROVE  IF answer[c] = "none"
               THEN asked[c] \in Ahead(mine[c]) /\ thread[mine[c]] # "ended"
               ELSE answer[c] \in {"error", asked[c].kwargs}
  <2>1. CASE answer[c] = "none"
    BY <1>1, <2>1, InLineIsAhead
  <2>2. CASE answer[c] # "none"
    BY <1>1, <2>2 DEF IInv, CallInv, Answers
  <2> QED  BY <2>1, <2>2
<1>2. IInv => CallsServed
  BY <1>1 DEF CallsServed
<1> QED  BY <1>2, Inductive, PTL

-----------------------------------------------------------------------------
(* The pool implements ModelHandles *)

Granted(i) == {c \in Using(i) : at[c] \in {"holds", "calls"}}

LEMMA InitHandles == Init => Handles!HandlesInit
<1> SUFFICES ASSUME Init PROVE Handles!HandlesInit
  OBVIOUS
<1>1. \A i \in Entries : Using(i) = {} /\ thread[i] = "none"
  BY DEF Init, Using, Entries
<1>2. closed = FALSE /\ entries = [k \in Keys |-> 0]
  BY DEF Init
<1> QED  BY <1>1, <1>2 DEF Handles!HandlesInit, Handles!Instances, Entries

\* A step that changes none of what ModelHandles speaks of.
LEMMA SameHandles ==
    ASSUME UNCHANGED <<closed, entries>>,
           \A j \in Entries : Using(j)' = Using(j) /\ Granted(j)' = Granted(j),
           \A j \in Entries : thread'[j] = "none" <=> thread[j] = "none"
    PROVE  UNCHANGED Handles!handleVars
  BY DEF Handles!handleVars, Granted

\* The same, from what callers and threads do.
LEMMA QuietHandles ==
    ASSUME UNCHANGED <<closed, entries>>,
           \A c \in Callers : \/ at'[c] = at[c] /\ mine'[c] = mine[c]
                              \/ at[c] \in Stops \cup {"out"} /\ at'[c] \in Stops \cup {"out"}
                              \/ /\ at[c] \in Has <=> at'[c] \in Has
                                 /\ at[c] \notin Stops \cup {"out"}
                                 /\ at'[c] \notin Stops \cup {"out"}
                                 /\ mine'[c] = mine[c],
           \A j \in Entries : thread'[j] = "none" <=> thread[j] = "none"
    PROVE  UNCHANGED Handles!handleVars
<1>1. \A j : Using(j)' = Using(j)
  BY DEF Using, Stops
<1>2. \A j : Granted(j)' = Granted(j)
  BY DEF Using, Granted, Has, Stops
<1> QED  BY <1>1, <1>2, SameHandles

\* Whoever acquires joins, an entry of the map or a new one.
LEMMA AcquireHandles ==
    ASSUME IInv, NEW c \in Callers, NEW k \in Keys, Acquire(c, k)
    PROVE  \E i \in Entries : Handles!Join(c, k, i)
<1>1. TypeOK /\ Places /\ Fresh /\ Keyed
  BY DEF IInv, EntryInv
<1>2. PICK i \in Entries : i = IF entries[k] = 0 THEN made + 1 ELSE entries[k]
  <2>1. made \in Nat /\ acquires \in Nat /\ entries[k] \in 0 .. MaxAcquires
    BY <1>1 DEF TypeOK
  <2> QED  BY <1>1, <2>1, PoolAssumption DEF Acquire, Places, Entries
<1>3. /\ ~closed /\ at[c] = "out"
      /\ entries' = [entries EXCEPT ![k] = i]
      /\ at' = [at EXCEPT ![c] = IF entries[k] = 0 THEN "load" ELSE "await"]
      /\ mine' = [mine EXCEPT ![c] = i]
      /\ UNCHANGED <<closed, thread>>
  BY <1>2 DEF Acquire, Go, threadVars
<1>4. /\ \A d \in Callers : at'[d] = IF d = c THEN at'[c] ELSE at[d]
      /\ at'[c] \in {"load", "await"}
      /\ \A d \in Callers : mine'[d] = IF d = c THEN i ELSE mine[d]
  BY <1>1, <1>3 DEF TypeOK
<1>5. \A j \in Entries : /\ Using(j)' = IF j = i THEN Using(j) \cup {c} ELSE Using(j)
                         /\ Granted(j)' = Granted(j)
  BY <1>3, <1>4 DEF Using, Granted
<1>6. \A j \in Entries : c \notin Using(j)
  BY <1>3 DEF Using
<1>7. entries[k] = 0 => Using(i) = {} /\ thread[i] = "none"
  <2> SUFFICES ASSUME entries[k] = 0 PROVE Using(i) = {} /\ thread[i] = "none"
    OBVIOUS
  <2>1. made \in Nat /\ i > made /\ \A d \in Callers : mine[d] \in Nat /\ mine[d] <= made
    BY <1>1, <1>2 DEF TypeOK, Places, Somebody
  <2>2. \A d \in Callers : mine[d] # i
    BY <2>1 DEF Entries
  <2> QED  BY <1>1, <2>1, <2>2 DEF Fresh, Using
<1>8. \A l \in Keys \ {k} : entries[l] # i
  <2>1. CASE entries[k] = 0
    <3>1. made \in Nat /\ i > made /\ \A l \in Keys : entries[l] \in Nat /\ entries[l] <= made
      BY <1>1, <1>2, <2>1 DEF TypeOK, Places
    <3> QED  BY <3>1 DEF Entries
  <2>2. CASE entries[k] # 0
    BY <1>1, <1>2, <2>2 DEF Keyed
  <2> QED  BY <2>1, <2>2
<1>9. entries[k] \in {0, i}
  BY <1>2
<1>10. Handles!Join(c, k, i)
  BY <1>3, <1>5, <1>6, <1>7, <1>8, <1>9
  DEF Handles!Join, Handles!Instances, Entries, Granted
<1> QED  BY <1>10

\* The creator starts the thread: the instance is loaded.
LEMMA LoadHandles ==
    ASSUME IInv, NEW c \in Callers, StartThread(c), ~closed
    PROVE  \E i \in Entries : Handles!Load(i)
<1>1. TypeOK /\ OneCreator /\ Places
  BY DEF IInv, EntryInv
<1>2. PICK i \in Entries : i = mine[c]
  BY <1>1, MineIsEntry DEF StartThread, Go, Somebody
<1>3. /\ at[c] = "start"
      /\ at' = [at EXCEPT ![c] = "publish"]
      /\ thread' = [thread EXCEPT ![i] = "idle"]
      /\ UNCHANGED <<closed, entries, mine>>
  BY <1>2 DEF StartThread, Go, poolVars
<1>4. \A d \in Callers : at'[d] = IF d = c THEN "publish" ELSE at[d]
  BY <1>1, <1>3 DEF TypeOK
<1>5. \A j \in Entries : Using(j)' = Using(j) /\ Granted(j)' = Granted(j)
  BY <1>3, <1>4 DEF Using, Granted
<1>6. \A j \in Entries : thread'[j] # "none" <=> thread[j] # "none" \/ j = i
  BY <1>1, <1>3 DEF TypeOK
<1>7. Mapped(i)
  BY <1>1, <1>2, <1>3 DEF OneCreator, Creates
<1>8. Handles!Load(i)
  BY <1>3, <1>5, <1>6, <1>7 DEF Handles!Load, Granted, Mapped
<1> QED  BY <1>8

\* A caller that is not told of an error has a handle of a loaded instance.
LEMMA GrantHandles ==
    ASSUME IInv, NEW c \in Callers, at[c] \in {"publish", "await"},
           at' = [at EXCEPT ![c] = "holds"], thread[mine[c]] # "none",
           UNCHANGED <<closed, entries, mine, thread>>
    PROVE  \E i \in Entries : Handles!Grant(c, i)
<1>1. TypeOK /\ Places
  BY DEF IInv, EntryInv
<1>2. PICK i \in Entries : i = mine[c]
  BY <1>1, MineIsEntry DEF Somebody
<1>3. \A d \in Callers : at'[d] = IF d = c THEN "holds" ELSE at[d]
  BY <1>1 DEF TypeOK
<1>4. \A j \in Entries : /\ Using(j)' = Using(j)
                         /\ Granted(j)' = IF j = i THEN Granted(j) \cup {c} ELSE Granted(j)
  BY <1>2, <1>3 DEF Using, Granted
<1>5. c \in Using(i)
  BY <1>2 DEF Using
<1>6. Handles!Grant(c, i)
  BY <1>2, <1>4, <1>5 DEF Handles!Grant, Granted
<1> QED  BY <1>6

\* The creator takes an entry that did not load out of the map, if it still is
\* there.
LEMMA DropHandles ==
    ASSUME IInv, NEW c \in Callers, Drop(c)
    PROVE  (\E i \in Entries : Handles!LoadFails(i)) \/ UNCHANGED Handles!handleVars
<1>1. TypeOK /\ OneCreator /\ Places /\ Keyed
  BY DEF IInv, EntryInv
<1>2. PICK i \in Entries : i = mine[c]
  BY <1>1, MineIsEntry DEF Drop, Go, Somebody
<1>3. /\ at[c] = "drop" /\ at' = [at EXCEPT ![c] = "report"]
      /\ entries' = Forget(i)
      /\ UNCHANGED <<closed, mine, thread>>
  BY <1>2 DEF Drop, Go, threadVars
<1>4. \A d \in Callers : at'[d] = IF d = c THEN "report" ELSE at[d]
  BY <1>1, <1>3 DEF TypeOK
<1>5. \A j \in Entries : Using(j)' = Using(j) /\ Granted(j)' = Granted(j)
  BY <1>3, <1>4 DEF Using, Granted
<1>6. thread[i] = "none"
  BY <1>1, <1>2, <1>3 DEF OneCreator, Creates
<1>7. CASE Mapped(i)
  <2>1. PICK k \in Keys : entries[k] = i
    BY <1>7 DEF Mapped
  <2>2. \A l \in Keys \ {k} : entries[l] # i
    BY <1>1, <2>1 DEF Keyed, Entries
  <2>3. Forget(i) = [entries EXCEPT ![k] = 0]
    <3>1. entries \in [Keys -> 0 .. MaxAcquires]
      BY <1>1 DEF TypeOK
    <3>2. \A l \in Keys : (IF entries[l] = i THEN 0 ELSE entries[l])
                           = IF l = k THEN 0 ELSE entries[l]
      BY <2>1, <2>2
    <3>3. Forget(i) = [l \in Keys |-> IF l = k THEN 0 ELSE entries[l]]
      BY <3>2 DEF Forget
    <3> QED  BY <3>1, <3>3
  <2>4. Handles!LoadFails(i)
    BY <1>3, <1>5, <1>6, <2>1, <2>3 DEF Handles!LoadFails, Granted
  <2> QED  BY <2>4
<1>8. CASE ~Mapped(i)
  <2>1. Forget(i) = entries
    BY <1>1, <1>8 DEF Forget, Mapped, TypeOK
  <2> QED  BY <1>3, <1>5, <2>1, SameHandles
<1> QED  BY <1>7, <1>8

\* Who learns that the load failed leaves an instance that is not there.
LEMMA RefusedHandles ==
    ASSUME IInv, NEW c \in Callers, at[c] \in {"report", "await"},
           at' = [at EXCEPT ![c] = "out"], mine' = [mine EXCEPT ![c] = 0],
           thread[mine[c]] = "none", ~Mapped(mine[c]),
           UNCHANGED <<closed, entries, thread>>
    PROVE  \E i \in Entries : Handles!Refused(c, i)
<1>1. TypeOK /\ Places
  BY DEF IInv, EntryInv
<1>2. PICK i \in Entries : i = mine[c]
  BY <1>1, MineIsEntry DEF Somebody
<1>3. /\ \A d \in Callers : at'[d] = IF d = c THEN "out" ELSE at[d]
      /\ \A d \in Callers : mine'[d] = IF d = c THEN 0 ELSE mine[d]
  BY <1>1 DEF TypeOK
<1>4. \A j \in Entries : /\ Using(j)' = IF j = i THEN Using(j) \ {c} ELSE Using(j)
                         /\ Granted(j)' = Granted(j)
  BY <1>2, <1>3 DEF Using, Granted
<1>5. Handles!Refused(c, i)
  BY <1>2, <1>4 DEF Handles!Refused, Granted, Mapped
<1> QED  BY <1>5

\* The last handle takes the instance along, another one does not.
LEMMA LeaveHandles ==
    ASSUME IInv, NEW c \in Callers, Release(c)
    PROVE  \E i \in Entries : Handles!Leave(c, i)
<1>1. TypeOK /\ Places /\ Counted
  BY DEF IInv, EntryInv
<1>2. PICK i \in Entries : i = mine[c]
  BY <1>1, MineIsEntry DEF Release, Go, Somebody
<1> DEFINE final == entry[i].refs = 1 /\ Mapped(i)
<1>3. /\ at[c] = "holds" /\ at' = [at EXCEPT ![c] = IF final THEN "stop" ELSE "out"]
      /\ entries' = IF final THEN Forget(i) ELSE entries
      /\ mine' = IF final THEN mine ELSE [mine EXCEPT ![c] = 0]
      /\ UNCHANGED <<closed, thread>>
  BY <1>2 DEF Release, Go, threadVars
<1>4. final \in BOOLEAN
  OBVIOUS
<1>5. c \in Granted(i) /\ c \in Using(i)
  BY <1>2, <1>3 DEF Granted, Using
<1>6. Mapped(i) => (final <=> Using(i) = {c})
  <2> SUFFICES ASSUME Mapped(i) PROVE entry[i].refs = 1 <=> Using(i) = {c}
    OBVIOUS
  <2>1. entry[i].refs = Cardinality(Using(i)) /\ IsFiniteSet(Using(i))
    BY <1>1, UsingFinite DEF Counted
  <2>2. Cardinality(Using(i)) = 1 <=> \E x : Using(i) = {x}
    BY <2>1, FS_Singleton
  <2> QED  BY <1>5, <2>1, <2>2
<1> HIDE DEF final
<1>7. /\ \A d \in Callers : at'[d] = IF d = c THEN at'[c] ELSE at[d]
      /\ at'[c] \in {"stop", "out"}
      /\ \A d \in Callers \ {c} : mine'[d] = mine[d]
  BY <1>1, <1>3, <1>4 DEF TypeOK
<1>8. \A j \in Entries : /\ Using(j)' = IF j = i THEN Using(j) \ {c} ELSE Using(j)
                         /\ Granted(j)' = IF j = i THEN Granted(j) \ {c} ELSE Granted(j)
  BY <1>2, <1>3, <1>7 DEF Using, Granted
<1>9. entries' = [k \in Keys |-> IF entries[k] = i /\ Using(i) = {c} THEN 0 ELSE entries[k]]
  <2>1. CASE Mapped(i)
    BY <1>1, <1>3, <1>6, <2>1 DEF Forget, TypeOK
  <2>2. CASE ~Mapped(i)
    BY <1>1, <1>3, <2>2 DEF Forget, TypeOK, Mapped, final
  <2> QED  BY <2>1, <2>2
<1>10. Handles!Leave(c, i)
  BY <1>3, <1>5, <1>8, <1>9 DEF Handles!Leave, Granted
<1> QED  BY <1>10

LEMMA ShutHandles ==
    ASSUME IInv, Close
    PROVE  Handles!Shut
<1>1. closed' = TRUE /\ entries' = [k \in Keys |-> 0] /\ UNCHANGED thread
  BY DEF Close, threadVars
<1>2. \A d \in Callers : at'[d] = at[d] /\ mine'[d] = mine[d]
  BY PoolAssumption DEF Close, IInv, TypeOK
<1>3. \A j \in Entries : Using(j)' = Using(j) /\ Granted(j)' = Granted(j)
  BY <1>2 DEF Using, Granted
<1> QED  BY <1>1, <1>3 DEF Handles!Shut, Granted

LEMMA StepHandles ==
    ASSUME IInv, [Next]_vars
    PROVE  [Handles!HandlesNext]_(Handles!handleVars)
<1> DEFINE Step == Handles!HandlesNext \/ UNCHANGED Handles!handleVars
<1>1. TypeOK /\ EntryInv
  BY DEF IInv
<1>2. ASSUME NEW c \in Callers, NEW k \in Keys, Acquire(c, k) PROVE Step
  BY <1>2, AcquireHandles DEF Handles!HandlesNext, Handles!Instances, Entries
<1>3. ASSUME NEW c \in Callers, Loaded(c) \/ LoadRaises(c) \/ (StartThread(c) /\ closed) PROVE Step
  <2>1. UNCHANGED <<closed, entries, mine, thread>>
    BY <1>3 DEF Loaded, LoadRaises, StartThread, poolVars, threadVars
  <2>2. /\ at[c] \in Creates
        /\ \A d \in Callers : at'[d] = at[d] \/ (d = c /\ at'[d] \in Creates)
    BY <1>1, <1>3 DEF Loaded, LoadRaises, StartThread, Go, TypeOK, Creates
  <2> QED  BY <2>1, <2>2, QuietHandles DEF Creates, Stops, Has
<1>4. ASSUME NEW c \in Callers, StartThread(c), ~closed PROVE Step
  BY <1>4, LoadHandles DEF Handles!HandlesNext, Handles!Instances, Entries
<1>5. ASSUME NEW c \in Callers, Publish(c) PROVE Step
  <2>1. /\ at[c] = "publish" /\ at' = [at EXCEPT ![c] = "holds"]
        /\ UNCHANGED <<closed, entries, mine, thread>>
    BY <1>5 DEF Publish, Go, poolVars, threadVars
  <2>2. thread[mine[c]] # "none"
    BY <1>1, <2>1 DEF EntryInv, OneCreator, Creates
  <2> QED  BY <2>1, <2>2, GrantHandles DEF Handles!HandlesNext, Handles!Instances, Entries
<1>6. ASSUME NEW c \in Callers, Ready(c), ~entry[mine[c]].failed PROVE Step
  <2>1. /\ at[c] = "await" /\ entry[mine[c]].ready /\ at' = [at EXCEPT ![c] = "holds"]
        /\ UNCHANGED <<closed, entries, mine, thread>>
    BY <1>6 DEF Ready, Go, poolVars, threadVars
  <2>2. mine[c] \in Entries
    BY <1>1, <2>1, MineIsEntry DEF EntryInv, Somebody
  <2>3. thread[mine[c]] # "none"
    BY <1>1, <1>6, <2>1, <2>2 DEF EntryInv, LoadsEnd
  <2> QED  BY <2>1, <2>3, GrantHandles DEF Handles!HandlesNext, Handles!Instances, Entries
<1>7. ASSUME NEW c \in Callers, Ready(c), entry[mine[c]].failed PROVE Step
  <2>1. /\ at[c] = "await" /\ at' = [at EXCEPT ![c] = "out"] /\ mine' = [mine EXCEPT ![c] = 0]
        /\ UNCHANGED <<closed, entries, thread>>
    BY <1>7 DEF Ready, Go, poolVars, threadVars
  <2>2. mine[c] \in Entries
    BY <1>1, <2>1, MineIsEntry DEF EntryInv, Somebody
  <2>3. thread[mine[c]] = "none" /\ ~Mapped(mine[c])
    BY <1>1, <1>7, <2>2 DEF EntryInv, LoadsEnd, MappedLives
  <2> QED  BY <2>1, <2>3, RefusedHandles DEF Handles!HandlesNext, Handles!Instances, Entries
<1>8. ASSUME NEW c \in Callers, Report(c) PROVE Step
  <2>1. /\ at[c] = "report" /\ at' = [at EXCEPT ![c] = "out"] /\ mine' = [mine EXCEPT ![c] = 0]
        /\ UNCHANGED <<closed, entries, thread>>
    BY <1>8 DEF Report, Go, poolVars, threadVars
  <2>2. thread[mine[c]] = "none" /\ ~Mapped(mine[c])
    BY <1>1, <2>1 DEF EntryInv, OneCreator, Creates
  <2> QED  BY <2>1, <2>2, RefusedHandles DEF Handles!HandlesNext, Handles!Instances, Entries
<1>9. ASSUME NEW c \in Callers, Drop(c) PROVE Step
  BY <1>9, DropHandles DEF Handles!HandlesNext, Handles!Instances, Entries
<1>10. ASSUME NEW c \in Callers, Release(c) PROVE Step
  BY <1>10, LeaveHandles DEF Handles!HandlesNext, Handles!Instances, Entries
<1>11. ASSUME Close PROVE Step
  BY <1>11, ShutHandles DEF Handles!HandlesNext
<1>12. ASSUME NEW c \in Callers, NEW to \in Has, at[c] \in Has, at' = [at EXCEPT ![c] = to],
              UNCHANGED <<closed, entries, mine, thread>>
       PROVE  Step
  <2>1. \A d \in Callers : at'[d] = IF d = c THEN to ELSE at[d]
    BY <1>1, <1>12 DEF TypeOK
  <2> QED  BY <1>12, <2>1, QuietHandles DEF Has, Stops
<1>13. ASSUME NEW c \in Callers, CallEnds(c) \/ \E kwargs \in Args[c] : Submit(c, kwargs) PROVE Step
  BY <1>12, <1>13 DEF CallEnds, Submit, Go, poolVars, threadVars, Has
<1>14. ASSUME NEW i \in Entries, thread[i] # "none", NEW t, t # "none",
              thread' = [thread EXCEPT ![i] = t], UNCHANGED <<closed, entries, at, mine>>
       PROVE  Step
  <2>1. \A j \in Entries : thread'[j] = "none" <=> thread[j] = "none"
    BY <1>1, <1>14 DEF TypeOK
  <2> QED  BY <1>14, <2>1, QuietHandles
<1>15. ASSUME NEW i \in Entries, ThreadStep(i) \/ Hang(i) \/ ReturnsLate(i) PROVE Step
  <2>1. CASE Take(i)
    <3> DEFINE s == carry[i] \o queue[i]
               n == BatchLength(s)
               t == IF {r \in {s[j] : j \in 1 .. n} : asked[r.by] = r} # {} THEN "calling"
                    ELSE IF After(s, n) = <<Stop>> THEN "ended" ELSE "idle"
    <3>1. /\ thread[i] = "idle" /\ thread' = [thread EXCEPT ![i] = t]
          /\ UNCHANGED <<closed, entries, at, mine>>
      BY <2>1, Zenon DEF Take, poolVars
    <3>2. t # "none"
      OBVIOUS
    <3> HIDE DEF t, Step
    <3> QED  BY <1>14, <3>1, <3>2
  <2>2. CASE ThreadEnds(i) \/ Hang(i)
    <3>1. PICK t \in {"ended", "hung"} : thread' = [thread EXCEPT ![i] = t] /\ t # "none"
      BY <2>2 DEF ThreadEnds, Hang
    <3>2. UNCHANGED <<closed, entries, at, mine>> /\ thread[i] # "none"
      BY <2>2 DEF ThreadEnds, Hang, poolVars
    <3> HIDE DEF Step
    <3> QED  BY <1>14, <3>1, <3>2
  <2>3. CASE Returns(i) \/ ReturnsLate(i)
    <3>1. \E outcome \in Kwargs \cup {"error"} : Finish(i, outcome)
      BY <1>1, <2>3, OutcomeTypes
    <3>2. PICK t \in {"ended", "idle"} : thread' = [thread EXCEPT ![i] = t] /\ t # "none"
      BY <3>1 DEF Finish
    <3>3. UNCHANGED <<closed, entries, at, mine>> /\ thread[i] # "none"
      BY <2>3, <3>1 DEF Finish, poolVars, Returns, ReturnsLate
    <3> HIDE DEF Step
    <3> QED  BY <1>14, <3>2, <3>3
  <2> HIDE DEF Step
  <2> QED  BY <1>15, <2>1, <2>2, <2>3 DEF ThreadStep
<1>16. ASSUME NEW s \in Somebody, StopStep(s) PROVE Step
  <2>1. at[s] \in Stops /\ UNCHANGED <<closed, entries, thread>>
    BY <1>16 DEF StopStep, MarkStopping, Joined, Stops, poolVars, threadVars
  <2>2. \A c \in Callers : \/ at'[c] = at[c] /\ mine'[c] = mine[c]
                           \/ at[c] \in Stops \cup {"out"} /\ at'[c] \in Stops \cup {"out"}
    <3>1. CASE Stopped(s)
      <4>1. \A r \in Somebody \ {s} : at'[r] = at[r] /\ mine'[r] = mine[r]
        BY <1>1, <3>1, StoppedParts
      <4>2. at'[s] \in {"out", "stop"}
        BY <1>1, <3>1 DEF Stopped, TypeOK, Somebody
      <4> QED  BY <2>1, <4>1, <4>2 DEF Somebody, Stops
    <3>2. CASE MarkStopping(s) /\ ~entry[mine[s]].stopping
      <4>1. at' = [at EXCEPT ![s] = "join"] /\ mine' = mine
        BY <3>2 DEF MarkStopping
      <4> QED  BY <1>1, <2>1, <4>1 DEF TypeOK, Stops
    <3> QED  BY <1>16, <3>1, <3>2 DEF StopStep, MarkStopping, Joined
  <2> QED  BY <2>1, <2>2, QuietHandles
<1>17. ASSUME UNCHANGED vars PROVE Step
  BY <1>17, QuietHandles DEF vars, poolVars, threadVars
<1> HIDE DEF Step
<1>18. ASSUME NEW c \in Callers, CallerStep(c) \/ GiveUp(c) \/ Release(c) PROVE Step
  <2>1. ASSUME Loaded(c) \/ LoadRaises(c) \/ StartThread(c) \/ Publish(c) \/ Drop(c) \/ Report(c)
        PROVE  Step
    BY <1>3, <1>4, <1>5, <1>8, <1>9, <2>1
  <2>2. ASSUME Ready(c) PROVE Step
    BY <1>6, <1>7, <2>2
  <2>3. ASSUME Answered(c) \/ GiveUp(c) PROVE Step
    BY <1>13, <2>3 DEF Answered, GiveUp
  <2> QED  BY <1>10, <1>16, <1>18, <2>1, <2>2, <2>3 DEF CallerStep, Somebody
<1>19. ASSUME NEW c \in Callers, NEW kwargs \in Args[c], Submit(c, kwargs) PROVE Step
  BY <1>13, <1>19
<1>20. ASSUME StopStep(Main) PROVE Step
  BY <1>16, <1>20 DEF Somebody
<1>21. Step
  <2>1. CASE Next
    BY <1>2, <1>11, <1>15, <1>18, <1>19, <1>20, <2>1 DEF Next
  <2> QED  BY <1>17, <2>1
<1> QED  BY <1>21 DEF Step

\* The pool, with its counts, locks and unlocked loads, does what ModelHandles
\* says: a model is loaded once for all who joined it and goes with the last of
\* them (model_pool.py:150-223).
THEOREM PoolImplementsHandles == Spec => ImplementsHandles
<1>1. Spec => Handles!HandlesInit
  BY InitHandles, PTL DEF Spec
<1>2. IInv /\ [Next]_vars => [Handles!HandlesNext]_(Handles!handleVars)
  BY StepHandles
<1> QED  BY <1>1, <1>2, Inductive, PTL DEF Spec, ImplementsHandles, Handles!HandlesSpec
=============================================================================
