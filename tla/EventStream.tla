---------------------------- MODULE EventStream ----------------------------
(***************************************************************************)
(* The engine's sender (services/engine/core/event_stream.py).  Camera     *)
(* threads call send(), which puts a message in a bounded buffer and never *)
(* waits; one worker thread XADDs the buffered messages to the Redis       *)
(* stream, oldest first.  The message being sent stays at the head of the  *)
(* buffer while the XADD is in flight, outside the lock, so a full buffer  *)
(* may push it out meanwhile.                                              *)
(*                                                                         *)
(* Each critical section of `_cond` is one action.  A message is its       *)
(* position in send order (`id`, which stands for the object's identity)   *)
(* and `count`: 0 for a caller's message, the number of dropped messages   *)
(* for an events_dropped report.  The backoff is a step without a length.  *)
(***************************************************************************)
EXTENDS Naturals, Sequences, FiniteSets

CONSTANTS
    BufferSize,     \* buffer_size of the constructor
    MaxSends,       \* bound: calls of send() in a behaviour
    MaxLostReplies  \* bound: XADDs that Redis runs but whose reply is lost

ASSUME BufferAssumption == BufferSize \in Nat \ {0}
ASSUME BoundAssumption == MaxSends \in Nat /\ MaxLostReplies \in Nat

VARIABLES
    queue,        \* the buffer, oldest message first
    unreported,   \* drops no events_dropped message counts yet
    dropped,      \* dropped_total
    stopping,     \* stop() was called
    aborted,      \* stop() gave up waiting for the worker
    pc,           \* where the worker thread is
    inflight,     \* the message the worker took
    redis,        \* how Redis answers: "up", "down" or "refusing"
    stream,       \* every message Redis appended, in order
    sends,        \* calls of send() so far
    nextId,       \* the id of the next message
    lostReplies,  \* lost replies so far
    lost          \* history: ids pushed out of the buffer or refused

workerVars == <<pc, inflight>>
redisVars == <<redis, stream, lostReplies>>
bufferVars == <<queue, unreported, dropped, nextId, lost>>
stopVars == <<stopping, aborted>>
vars == <<queue, unreported, dropped, stopping, aborted, pc, inflight,
          redis, stream, sends, nextId, lostReplies, lost>>

Message == [id : Nat, count : Nat]

Ids(s) == {s[i].id : i \in 1 .. Len(s)}

Init ==
    /\ queue = <<>> /\ unreported = 0 /\ dropped = 0 /\ lost = {}
    /\ stopping = FALSE /\ aborted = FALSE
    /\ pc = "check" /\ inflight = [id |-> 0, count |-> 0]
    /\ redis = "up" /\ stream = <<>> /\ lostReplies = 0
    /\ sends = 0 /\ nextId = 1

-----------------------------------------------------------------------------
(* The buffer.                                                             *)

\* Mutant: the limit is checked as if the new message did not count.
FullLate == Len(queue) > BufferSize

Full == Len(queue) >= BufferSize

NextMessage(count) == [id |-> nextId, count |-> count]

\* Mutant of Enqueue: a report jumps the queue.
EnqueueReportFirst(count, u) ==
    /\ ~Full
    /\ nextId' = nextId + 1
    /\ queue' = IF count > 0 THEN <<NextMessage(count)>> \o queue
                             ELSE Append(queue, NextMessage(count))
    /\ unreported' = u
    /\ UNCHANGED <<dropped, lost>>

\* `_enqueue` of the next message when `u` drops are unreported before it: a
\* full buffer drops and counts its oldest message, even one in flight.
Enqueue(count, u) ==
    /\ nextId' = nextId + 1
    /\ IF Full
       THEN /\ queue' = Append(Tail(queue), NextMessage(count))
            /\ dropped' = dropped + 1
            /\ unreported' = u + 1
            /\ lost' = lost \cup {Head(queue)}
       ELSE /\ queue' = Append(queue, NextMessage(count))
            /\ unreported' = u
            /\ UNCHANGED <<dropped, lost>>

\* Mutant of PopInflight: the head is popped whatever it is.
PopHead ==
    queue' = IF queue # <<>> THEN Tail(queue) ELSE queue

\* The head leaves the buffer only if it is still the message that was sent.
PopInflight ==
    queue' = IF queue # <<>> /\ Head(queue) = inflight
             THEN Tail(queue) ELSE queue

-----------------------------------------------------------------------------
(* Callers.                                                                *)

\* A valid message; an invalid one is logged and changes nothing.
Send ==
    /\ sends < MaxSends
    /\ sends' = sends + 1
    /\ Enqueue(0, unreported)
    /\ UNCHANGED <<workerVars, redisVars, stopVars>>

Stop ==
    /\ ~stopping
    /\ stopping' = TRUE
    /\ UNCHANGED <<aborted, workerVars, redisVars, bufferVars, sends>>

\* The worker outlived the first join of stop().
Abort ==
    /\ stopping /\ ~aborted /\ pc # "done"
    /\ aborted' = TRUE
    /\ UNCHANGED <<stopping, workerVars, redisVars, bufferVars, sends>>

-----------------------------------------------------------------------------
(* The worker thread.                                                      *)

\* Mutant of CheckAbort: the loop does not look at the abort flag.
CheckNothing ==
    /\ pc = "check"
    /\ pc' = "take"
    /\ UNCHANGED <<inflight, redisVars, bufferVars, stopVars, sends>>

\* The loop condition, read without the lock.
CheckAbort ==
    /\ pc = "check"
    /\ pc' = IF aborted THEN "done" ELSE "take"
    /\ UNCHANGED <<inflight, redisVars, bufferVars, stopVars, sends>>

Take ==
    /\ pc = "take" /\ queue # <<>>
    /\ inflight' = Head(queue) /\ pc' = "xadd"
    /\ UNCHANGED <<redisVars, bufferVars, stopVars, sends>>

Return ==
    /\ pc = "take" /\ queue = <<>> /\ stopping
    /\ pc' = "done"
    /\ UNCHANGED <<inflight, redisVars, bufferVars, stopVars, sends>>

XaddAccepted ==
    /\ pc = "xadd" /\ redis = "up"
    /\ stream' = Append(stream, inflight) /\ pc' = "accepted"
    /\ UNCHANGED <<inflight, redis, lostReplies, bufferVars, stopVars, sends>>

XaddUnreachable ==
    /\ pc = "xadd" /\ redis = "down"
    /\ pc' = "backoff"
    /\ UNCHANGED <<inflight, redisVars, bufferVars, stopVars, sends>>

\* Redis appended the message before the connection broke: the client sends
\* it again within the same call, or the call fails and the worker does.
XaddReplyLost ==
    /\ pc = "xadd" /\ redis = "down" /\ lostReplies < MaxLostReplies
    /\ lostReplies' = lostReplies + 1
    /\ stream' = Append(stream, inflight) /\ pc' \in {"xadd", "backoff"}
    /\ UNCHANGED <<inflight, redis, bufferVars, stopVars, sends>>

XaddRefused ==
    /\ pc = "xadd" /\ redis = "refusing"
    /\ pc' = "refused"
    /\ UNCHANGED <<inflight, redisVars, bufferVars, stopVars, sends>>

\* Mutant of DropRefused: the refused message is not counted.
DropRefusedUncounted ==
    /\ pc = "refused"
    /\ PopInflight
    /\ lost' = lost \cup {inflight}
    /\ pc' = "backoff"
    /\ UNCHANGED <<inflight, nextId, dropped, unreported, redisVars,
                   stopVars, sends>>

\* The refused message is counted whether or not it was still the head.
DropRefused ==
    /\ pc = "refused"
    /\ PopInflight
    /\ dropped' = dropped + 1 /\ unreported' = unreported + 1
    /\ lost' = lost \cup {inflight}
    /\ pc' = "backoff"
    /\ UNCHANGED <<inflight, nextId, redisVars, stopVars, sends>>

PopAccepted ==
    /\ pc = "accepted"
    /\ PopInflight
    /\ pc' = "report"
    /\ UNCHANGED <<inflight, unreported, dropped, nextId, lost, redisVars,
                   stopVars, sends>>

\* Mutant of ReportDrops: one drop is taken off instead of all of them.
ReportOneDrop ==
    /\ pc = "report"
    /\ Enqueue(1, unreported - 1)
    /\ pc' = "check"
    /\ UNCHANGED <<inflight, redisVars, stopVars, sends>>

\* `_report_drops`, in a critical section of its own.
ReportDrops ==
    /\ pc = "report"
    /\ IF unreported = 0
       THEN UNCHANGED bufferVars
       ELSE Enqueue(unreported, 0)
    /\ pc' = "check"
    /\ UNCHANGED <<inflight, redisVars, stopVars, sends>>

\* Mutant of Backoff: the worker ends on the first error.
BackoffEnds ==
    /\ pc = "backoff"
    /\ pc' = "done"
    /\ UNCHANGED <<inflight, redisVars, bufferVars, stopVars, sends>>

Backoff ==
    /\ pc = "backoff"
    /\ pc' = "check"
    /\ UNCHANGED <<inflight, redisVars, bufferVars, stopVars, sends>>

-----------------------------------------------------------------------------
(* Redis, external: reachable, unreachable or refusing writes.             *)
RedisChanges ==
    /\ redis' \in {"up", "down", "refusing"} \ {redis}
    /\ UNCHANGED <<stream, lostReplies, workerVars, bufferVars, stopVars,
                   sends>>

Worker ==
    \/ CheckAbort \/ Take \/ Return
    \/ XaddAccepted \/ XaddUnreachable \/ XaddReplyLost \/ XaddRefused
    \/ DropRefused \/ PopAccepted \/ ReportDrops \/ Backoff

Next == Send \/ Stop \/ Abort \/ Worker \/ RedisChanges

Spec == Init /\ [][Next]_vars

\* The worker thread keeps running (each XADD ends, by its 5 s timeouts) and
\* so does the thread in stop().
FairSpec == Spec /\ WF_vars(Worker) /\ WF_vars(Abort)

-----------------------------------------------------------------------------
(* Properties.                                                             *)

TypeOK ==
    /\ queue \in Seq(Message) /\ stream \in Seq(Message)
    /\ inflight \in Message
    /\ unreported \in Nat /\ dropped \in Nat /\ lost \subseteq Message
    /\ sends \in Nat /\ nextId \in Nat /\ lostReplies \in Nat
    /\ stopping \in BOOLEAN /\ aborted \in BOOLEAN
    /\ redis \in {"up", "down", "refusing"}
    /\ pc \in {"check", "take", "xadd", "accepted", "refused", "report",
               "backoff", "done"}

\* The buffer never holds more than BufferSize messages, the one in flight
\* and the events_dropped report included (`_enqueue`, `_report_drops`).
Bounded == Len(queue) <= BufferSize

\* Redis gets the messages in the order they were sent, whatever is dropped,
\* refused or sent twice: a repeat directly follows its first copy.
InSendOrder ==
    \A i, j \in 1 .. Len(stream) : i < j => stream[i].id <= stream[j].id

\* A message handed to send() is in the buffer, in Redis, or among the
\* losses: neither a retry nor a concurrent overflow of the message in
\* flight makes one disappear.
NothingVanishes ==
    \A id \in 1 .. nextId - 1 :
        id \in Ids(queue) \cup Ids(stream) \cup {m.id : m \in lost}

\* dropped_total misses no loss.  It may exceed them: a message pushed out of
\* the buffer in flight and then refused counts twice.
LossesCounted == Cardinality(lost) <= dropped

\* stop() ends the worker, also while Redis is unreachable.
StopEnds == stopping ~> (pc = "done")

\* Once Redis accepts writes for good and nobody stops the engine, the
\* buffer drains.
Drains == <>[](redis = "up" /\ ~stopping) => <>[](queue = <<>>)

=============================================================================
