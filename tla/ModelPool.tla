----------------------------- MODULE ModelPool -----------------------------
(***************************************************************************)
(* The shared model pool of the engine (services/engine/core/              *)
(* model_pool.py): one loaded model, one call queue and one inference      *)
(* thread for all cameras that use the same (file, image size).            *)
(*                                                                         *)
(* A caller is a camera worker: it acquires a handle, makes calls one      *)
(* after the other, and releases it.  Main closes the pool when the engine *)
(* ends (services/engine/main.py).  Every locked section is one action, as *)
(* is every wait outside the locks: for the loader, for `ready', for an    *)
(* answer, for the thread to end.                                          *)
(*                                                                         *)
(* Entries are numbered as they are created; `asked[c]' is the request     *)
(* object that c waits for, so a request is abandoned exactly when its     *)
(* caller asks for another or for none.                                    *)
(***************************************************************************)
EXTENDS Naturals, Sequences, FiniteSets

CONSTANTS
    Callers, Main,  \* camera workers; the thread that closes the pool
    Keys,           \* (model file, image size)
    Kwargs, Args,   \* arguments of a call; Args[c]: those c calls with
    MaxBatch,       \* max_batch
    Stop, NoRequest,\* _STOP; no request
    MaxAcquires, MaxCalls, MaxHangs  \* bounds

\* An item of the queue is a request or the sentinel, an outcome says whether
\* there is one, and a batch holds at least one request.
ASSUME PoolAssumption ==
    /\ IsFiniteSet(Callers) /\ Main \notin Callers
    /\ \A c \in Callers : Args[c] \subseteq Kwargs
    /\ "none" \notin Kwargs
    /\ MaxBatch \in Nat \ {0} /\ MaxAcquires \in Nat /\ MaxCalls \in Nat /\ MaxHangs \in Nat
    /\ {Stop, NoRequest} \cap [by : Callers, no : 1 .. MaxCalls, kwargs : Kwargs] = {}

VARIABLES
    closed,   \* _closed
    entries,  \* entries[k]: _entries, 0 if absent
    made,     \* how many entries there have been
    entry,    \* entry[i]: refs, ready, failed (load_error), model, stopping
    queue,    \* queue[i]: the requests and the sentinel
    thread,   \* thread[i]: none, idle, calling, hung or ended
    batch,    \* batch[i]: the set of the requests of the call under way
    carry,    \* carry[i]: the item taken but not alike, if any
    last,     \* last[i]: the thread saw the sentinel behind its batch
    able,     \* able[i]: the call under way found the model, not None
    at,       \* at[s]: where a caller or Main stands
    mine,     \* mine[s]: the entry it works with
    asked,    \* asked[c]: the request it waits for
    answer,   \* answer[c]: what finish() left there
    toStop,   \* the entries close() has still to stop
    acquires, calls, hangs  \* counted for the bounds

poolVars == <<closed, entries, made, acquires>>
threadVars == <<thread, batch, carry, last, able, hangs>>
callVars == <<asked, answer, calls>>
vars == <<poolVars, entry, queue, threadVars, at, mine, callVars, toStop>>

Entries == 1 .. MaxAcquires
Requests == [by : Callers, no : 1 .. MaxCalls, kwargs : Kwargs]

TypeOK ==
    /\ closed \in BOOLEAN /\ made \in 0 .. MaxAcquires
    /\ entries \in [Keys -> 0 .. MaxAcquires]
    /\ entry \in [Entries -> [refs : Nat, ready : BOOLEAN, failed : BOOLEAN,
                              model : BOOLEAN, stopping : BOOLEAN]]
    /\ queue \in [Entries -> Seq(Requests \cup {Stop})]
    /\ thread \in [Entries -> {"none", "idle", "calling", "hung", "ended"}]
    /\ batch \in [Entries -> SUBSET Requests]
    /\ carry \in [Entries -> Seq(Requests)]
    /\ last \in [Entries -> BOOLEAN] /\ able \in [Entries -> BOOLEAN]
    /\ at \in [Callers \cup {Main} ->
                 {"out", "load", "start", "publish", "drop", "report", "await",
                  "holds", "calls", "stop", "join"}]
    /\ mine \in [Callers \cup {Main} -> 0 .. MaxAcquires]
    /\ asked \in [Callers -> Requests \cup {NoRequest}]
    /\ answer \in [Callers -> Kwargs \cup {"none", "error"}]
    /\ toStop \subseteq Entries
    /\ acquires \in 0 .. MaxAcquires
    /\ calls \in 0 .. MaxCalls /\ hangs \in 0 .. MaxHangs

Init ==
    /\ closed = FALSE /\ made = 0 /\ acquires = 0 /\ calls = 0 /\ hangs = 0
    /\ entries = [k \in Keys |-> 0]
    /\ entry = [i \in Entries |-> [refs |-> 0, ready |-> FALSE, failed |-> FALSE,
                                   model |-> FALSE, stopping |-> FALSE]]
    /\ queue = [i \in Entries |-> <<>>]
    /\ thread = [i \in Entries |-> "none"]
    /\ batch = [i \in Entries |-> {}]
    /\ carry = [i \in Entries |-> <<>>]
    /\ last = [i \in Entries |-> FALSE]
    /\ able = [i \in Entries |-> FALSE]
    /\ at = [s \in Callers \cup {Main} |-> "out"]
    /\ mine = [s \in Callers \cup {Main} |-> 0]
    /\ asked = [c \in Callers |-> NoRequest]
    /\ answer = [c \in Callers |-> "none"]
    /\ toStop = {}

Go(s, from, to) == at[s] = from /\ at' = [at EXCEPT ![s] = to]

\* The entry leaves the map only if the map still has this one.
Forget(i) == [k \in Keys |-> IF entries[k] = i THEN 0 ELSE entries[k]]
Mapped(i) == \E k \in Keys : entries[k] = i

-----------------------------------------------------------------------------
(* acquire *)

\* Mutant of Acquire: only the creator counts.
AcquireUncounted(c, k) ==
    /\ acquires < MaxAcquires
    /\ acquires' = acquires + 1
    /\ ~closed
    /\ LET creator == entries[k] = 0
           i == IF creator THEN made + 1 ELSE entries[k]
       IN  /\ Go(c, "out", IF creator THEN "load" ELSE "await")
           /\ made' = IF creator THEN i ELSE made
           /\ entries' = [entries EXCEPT ![k] = i]
           /\ entry' = [entry EXCEPT ![i].refs = 1]
           /\ mine' = [mine EXCEPT ![c] = i]
    /\ UNCHANGED <<closed, queue, threadVars, callVars, toStop>>

\* The first locked section: join the entry of the key or create it.
Acquire(c, k) ==
    /\ acquires < MaxAcquires
    /\ acquires' = acquires + 1
    /\ ~closed
    /\ LET creator == entries[k] = 0
           i == IF creator THEN made + 1 ELSE entries[k]
       IN  /\ Go(c, "out", IF creator THEN "load" ELSE "await")
           /\ made' = IF creator THEN i ELSE made
           /\ entries' = [entries EXCEPT ![k] = i]
           /\ entry' = [entry EXCEPT ![i].refs = @ + 1]
           /\ mine' = [mine EXCEPT ![c] = i]
    /\ UNCHANGED <<closed, queue, threadVars, callVars, toStop>>

\* _load: the loader returns a model or raises.
Loaded(c) ==
    /\ Go(c, "load", "start")
    /\ entry' = [entry EXCEPT ![mine[c]].model = TRUE]
    /\ UNCHANGED <<poolVars, queue, threadVars, mine, callVars, toStop>>

LoadRaises(c) ==
    /\ Go(c, "load", "drop")
    /\ UNCHANGED <<poolVars, entry, queue, threadVars, mine, callVars, toStop>>

\* Mutant of StartThread: the pool may have closed unnoticed.
StartAnyway(c) ==
    /\ Go(c, "start", "publish")
    /\ thread' = [thread EXCEPT ![mine[c]] = "idle"]
    /\ UNCHANGED <<poolVars, entry, queue, batch, carry, last, able, hangs, mine,
                   callVars, toStop>>

\* The pool may have closed while the model loaded.
StartThread(c) ==
    /\ IF closed
         THEN Go(c, "start", "drop") /\ UNCHANGED thread
         ELSE /\ Go(c, "start", "publish")
              /\ thread' = [thread EXCEPT ![mine[c]] = "idle"]
    /\ UNCHANGED <<poolVars, entry, queue, batch, carry, last, able, hangs, mine,
                   callVars, toStop>>

Publish(c) ==
    /\ Go(c, "publish", "holds")
    /\ entry' = [entry EXCEPT ![mine[c]].ready = TRUE]
    /\ UNCHANGED <<poolVars, queue, threadVars, mine, callVars, toStop>>

Drop(c) ==
    /\ Go(c, "drop", "report")
    /\ entries' = Forget(mine[c])
    /\ UNCHANGED <<closed, made, acquires, entry, queue, threadVars, mine, callVars, toStop>>

\* Mutant of Report: those who wait are not told that the load failed.
ReportSilently(c) ==
    /\ Go(c, "report", "out")
    /\ entry' = [entry EXCEPT ![mine[c]].failed = TRUE, ![mine[c]].model = FALSE]
    /\ mine' = [mine EXCEPT ![c] = 0]
    /\ UNCHANGED <<poolVars, queue, threadVars, callVars, toStop>>

Report(c) ==
    /\ Go(c, "report", "out")
    /\ entry' = [entry EXCEPT ![mine[c]].ready = TRUE, ![mine[c]].failed = TRUE,
                              ![mine[c]].model = FALSE]
    /\ mine' = [mine EXCEPT ![c] = 0]
    /\ UNCHANGED <<poolVars, queue, threadVars, callVars, toStop>>

\* Mutant of Ready: the error of the load is not looked at.
ReadyAnyway(c) ==
    /\ at[c] = "await"
    /\ entry[mine[c]].ready
    /\ Go(c, "await", "holds")
    /\ UNCHANGED <<poolVars, entry, queue, threadVars, mine, callVars, toStop>>

\* Those who joined wait for `ready' and share the creator's error.
Ready(c) ==
    /\ at[c] = "await"
    /\ entry[mine[c]].ready
    /\ LET failed == entry[mine[c]].failed
       IN  /\ Go(c, "await", IF failed THEN "out" ELSE "holds")
           /\ mine' = IF failed THEN [mine EXCEPT ![c] = 0] ELSE mine
    /\ UNCHANGED <<poolVars, entry, queue, threadVars, callVars, toStop>>

-----------------------------------------------------------------------------
(* A call: submit, wait, give up *)

\* Mutant of Submit: a model that stops still takes calls.
SubmitAnyway(c, kwargs) ==
    /\ calls < MaxCalls
    /\ Go(c, "holds", "calls")
    /\ calls' = calls + 1
    /\ LET r == [by |-> c, no |-> calls + 1, kwargs |-> kwargs]
       IN  /\ asked' = [asked EXCEPT ![c] = r]
           /\ queue' = [queue EXCEPT ![mine[c]] = Append(@, r)]
    /\ UNCHANGED <<poolVars, entry, threadVars, mine, answer, toStop>>

Submit(c, kwargs) ==
    /\ calls < MaxCalls
    /\ Go(c, "holds", "calls")
    /\ ~entry[mine[c]].stopping
    /\ calls' = calls + 1
    /\ LET r == [by |-> c, no |-> calls + 1, kwargs |-> kwargs]
       IN  /\ asked' = [asked EXCEPT ![c] = r]
           /\ queue' = [queue EXCEPT ![mine[c]] = Append(@, r)]
    /\ UNCHANGED <<poolVars, entry, threadVars, mine, answer, toStop>>

\* The caller goes on: with the answer, or without it after call_timeout.
CallEnds(c) ==
    /\ Go(c, "calls", "holds")
    /\ asked' = [asked EXCEPT ![c] = NoRequest]
    /\ answer' = [answer EXCEPT ![c] = "none"]
    /\ UNCHANGED <<poolVars, entry, queue, threadVars, mine, calls, toStop>>

Answered(c) == answer[c] # "none" /\ CallEnds(c)
GiveUp(c)   == answer[c] = "none" /\ CallEnds(c)

-----------------------------------------------------------------------------
(* The inference thread *)

Alike(s, n) ==
    \A j \in 1 .. n : s[j] # Stop /\ s[j].kwargs = s[1].kwargs

\* The batch: as many from the front as are alike, at most MaxBatch.
BatchLength(s) ==
    CHOOSE n \in 1 .. MaxBatch :
        /\ n <= Len(s) /\ Alike(s, n)
        /\ n < MaxBatch /\ n < Len(s) => ~Alike(s, n + 1)

\* What comes after the batch and is not alike has been taken from the queue,
\* too: a request is carried to the next batch, the sentinel ends the thread.
After(s, n) == IF n < MaxBatch /\ n < Len(s) THEN <<s[n + 1]>> ELSE <<>>

\* Mutant of Carried: the sentinel is carried like a request.
CarriedAny(s, n) == After(s, n)

Carried(s, n) == IF After(s, n) = <<Stop>> THEN <<>> ELSE After(s, n)

\* Fills a batch, drops what was abandoned, and calls the model.  Items that
\* arrive while the batch is filled are as if they had been there before.
Take(i) ==
    LET s == carry[i] \o queue[i]
        n == BatchLength(s)
        alive == {r \in {s[j] : j \in 1 .. n} : asked[r.by] = r}
        stop == After(s, n) = <<Stop>>
    IN  /\ thread[i] = "idle"
        /\ s # <<>> /\ s[1] # Stop
        /\ batch' = [batch EXCEPT ![i] = alive]
        /\ carry' = [carry EXCEPT ![i] = Carried(s, n)]
        /\ queue' = [queue EXCEPT ![i] = SubSeq(s, n + 1 + Len(After(s, n)), Len(s))]
        /\ last' = [last EXCEPT ![i] = stop]
        /\ able' = [able EXCEPT ![i] = entry[i].model]
        /\ thread' = [thread EXCEPT ![i] = IF alive # {} THEN "calling"
                                           ELSE IF stop THEN "ended" ELSE "idle"]
        /\ UNCHANGED <<poolVars, entry, hangs, at, mine, callVars, toStop>>

\* The sentinel comes first: the thread returns.
ThreadEnds(i) ==
    /\ thread[i] = "idle"
    /\ carry[i] = <<>> /\ queue[i] # <<>> /\ Head(queue[i]) = Stop
    /\ thread' = [thread EXCEPT ![i] = "ended"]
    /\ queue' = [queue EXCEPT ![i] = Tail(@)]
    /\ UNCHANGED <<poolVars, entry, batch, carry, last, able, hangs, at, mine,
                   callVars, toStop>>

\* finish() sets the request; only a caller that still waits for it sees it.
Finish(i, outcome) ==
    /\ answer' = [c \in Callers |->
                    IF asked[c] \in batch[i] THEN outcome ELSE answer[c]]
    /\ batch' = [batch EXCEPT ![i] = {}]
    /\ thread' = [thread EXCEPT ![i] = IF last[i] THEN "ended" ELSE "idle"]
    /\ able' = [able EXCEPT ![i] = FALSE]
    /\ UNCHANGED <<poolVars, entry, queue, carry, last, hangs, at, mine,
                   asked, calls, toStop>>

\* The model is called with the arguments of the first of the batch: requests
\* are numbered as they are queued.
Results(i) ==
    /\ able[i]
    /\ \E r \in batch[i] :
         /\ \A other \in batch[i] : r.no <= other.no
         /\ Finish(i, r.kwargs)

Returns(i) == thread[i] = "calling" /\ (Results(i) \/ Finish(i, "error"))

Hang(i) ==
    /\ hangs < MaxHangs
    /\ thread[i] = "calling"
    /\ thread' = [thread EXCEPT ![i] = "hung"]
    /\ hangs' = hangs + 1
    /\ UNCHANGED <<poolVars, entry, queue, batch, carry, last, able, at, mine,
                   callVars, toStop>>

ReturnsLate(i) == thread[i] = "hung" /\ (Results(i) \/ Finish(i, "error"))

-----------------------------------------------------------------------------
(* release, stop, close *)

\* The last handle takes the entry out of the map and stops it.
Release(c) ==
    LET i == mine[c]
        final == entry[i].refs = 1 /\ Mapped(i)
    IN  /\ Go(c, "holds", IF final THEN "stop" ELSE "out")
        /\ entry' = [entry EXCEPT ![i].refs = @ - 1]
        /\ entries' = IF final THEN Forget(i) ELSE entries
        /\ mine' = IF final THEN mine ELSE [mine EXCEPT ![c] = 0]
        /\ UNCHANGED <<closed, made, acquires, queue, threadVars, callVars, toStop>>

\* Main stops one entry after the other, in the order they were created.
Next1(stops) == IF stops = {} THEN 0 ELSE CHOOSE i \in stops : \A j \in stops : i <= j

Close ==
    /\ at[Main] = "out" /\ ~closed
    /\ closed' = TRUE
    /\ entries' = [k \in Keys |-> 0]
    /\ LET stops == {i \in Entries : Mapped(i) /\ thread[i] # "none"}
       IN  /\ toStop' = stops
           /\ mine' = [mine EXCEPT ![Main] = Next1(stops)]
           /\ at' = [at EXCEPT ![Main] = IF stops = {} THEN "out" ELSE "stop"]
    /\ UNCHANGED <<made, acquires, entry, queue, threadVars, callVars>>

\* Whoever stopped an entry goes on: a caller is out, Main takes the next.
Stopped(s) ==
    /\ toStop' = IF s = Main THEN toStop \ {mine[s]} ELSE toStop
    /\ mine' = [mine EXCEPT ![s] = IF s = Main THEN Next1(toStop \ {mine[s]}) ELSE 0]
    /\ at' = [at EXCEPT ![s] = IF mine'[s] = 0 THEN "out" ELSE "stop"]

\* stop(): nothing if it stops already; else the sentinel, then the join.
MarkStopping(s) ==
    LET i == mine[s] IN
    /\ at[s] = "stop"
    /\ IF entry[i].stopping
         THEN Stopped(s) /\ UNCHANGED <<entry, queue>>
         ELSE /\ entry' = [entry EXCEPT ![i].stopping = TRUE]
              /\ queue' = [queue EXCEPT ![i] = Append(@, Stop)]
              /\ at' = [at EXCEPT ![s] = "join"]
              /\ UNCHANGED <<mine, toStop>>
    /\ UNCHANGED <<poolVars, threadVars, callVars>>

\* The join ends with the thread or with its timeout; then the model goes.
Joined(s) ==
    /\ at[s] = "join"
    /\ entry' = [entry EXCEPT ![mine[s]].model = FALSE]
    /\ Stopped(s)
    /\ UNCHANGED <<poolVars, queue, threadVars, callVars>>

-----------------------------------------------------------------------------
StopStep(s) == MarkStopping(s) \/ Joined(s)

CallerStep(c) ==
    \/ Loaded(c) \/ LoadRaises(c) \/ StartThread(c) \/ Publish(c)
    \/ Drop(c) \/ Report(c) \/ Ready(c)
    \/ Answered(c)
    \/ StopStep(c)

ThreadStep(i) == Take(i) \/ ThreadEnds(i) \/ Returns(i)

Next ==
    \/ \E c \in Callers :
         \/ CallerStep(c) \/ GiveUp(c) \/ Release(c)
         \/ \E k \in Keys : Acquire(c, k)
         \/ \E kwargs \in Args[c] : Submit(c, kwargs)
    \/ \E i \in Entries : ThreadStep(i) \/ Hang(i) \/ ReturnsLate(i)
    \/ Close \/ StopStep(Main)

Spec == Init /\ [][Next]_vars

\* The threads run, the loader returns or raises, and the join has a timeout.
\* Nobody has to acquire, call, release or close, and a hung model call owes no
\* return.  A caller also gives up by its own timeout, on which nothing depends.
\* All of it is bounded, so fairness of all together is fairness of each.
FairSpec ==
    Spec /\ WF_vars(\/ \E c \in Callers : CallerStep(c)
                    \/ \E i \in Entries : ThreadStep(i)
                    \/ StopStep(Main))

-----------------------------------------------------------------------------
(* Properties *)

\* A caller that has a handle can use it until the pool closes: its entry is
\* still the one in the map, loaded, with a running thread, and nobody stops it
\* (acquire and release, model_pool.py:162-211).
HeldIsUsable ==
    \A c \in Callers : at[c] \in {"holds", "calls"} /\ ~closed =>
        LET i == mine[c] IN
        /\ Mapped(i) /\ entry[i].ready /\ entry[i].model
        /\ ~entry[i].stopping
        /\ thread[i] \notin {"none", "ended"}

\* What a thread has still to deal with before it ends.
Ahead(i) ==
    LET s == carry[i] \o queue[i]
    IN  batch[i] \cup
        {s[j] : j \in {j \in 1 .. Len(s) : \A b \in 1 .. j : s[b] # Stop}}

\* Whoever waits for an answer is in line ahead of the sentinel, with a thread
\* that has not ended, also when the pool closes meanwhile; and an answer is one
\* that was computed with the caller's own arguments (submit, stop and _run,
\* model_pool.py:67-122).
CallsServed ==
    \A c \in Callers : at[c] = "calls" =>
        IF answer[c] = "none"
          THEN asked[c] \in Ahead(mine[c]) /\ thread[mine[c]] # "ended"
          ELSE answer[c] \in {"error", asked[c].kwargs}

\* A loaded model has somebody who will free it: the map, its creator before it
\* is ready, or the one that stops it (_load, release and close,
\* model_pool.py:180-223).
NoModelLost ==
    \A i \in Entries : entry[i].model =>
        \/ Mapped(i)
        \/ i \in toStop
        \/ \E s \in Callers \cup {Main} :
             mine[s] = i /\ at[s] \in {"start", "drop", "report", "stop", "join"}

Using(i) == {c \in Callers : mine[c] = i /\ at[c] \notin {"out", "stop", "join"}}

Handles == INSTANCE ModelHandles WITH
    MaxEntries <- MaxAcquires,
    open <- ~closed,
    current <- entries,
    users <- [i \in Entries |-> Using(i)],
    granted <- [i \in Entries |->
                  {c \in Using(i) : at[c] \in {"holds", "calls"}}],
    loaded <- {i \in Entries : thread[i] # "none"}

\* The pool, with its counts, locks and unlocked loads, does what ModelHandles
\* says: a model is loaded once for all who joined it and goes with the last of
\* them (model_pool.py:150-223).
ImplementsHandles == Handles!HandlesSpec

\* Every wait ends although callers give up, loads fail and the pool closes:
\* whoever waits comes to have a handle or to be out, unless the model call it
\* depends on hangs (model_pool.py:73-83, 135-143, 175).
CallersGoOn ==
    \A c \in Callers :
        at[c] \notin {"out", "holds"}
            ~> \/ at[c] \in {"out", "holds"}
               \/ \E i \in Entries : thread[i] = "hung"
=============================================================================
