------------------------- MODULE EventStreamProofs -------------------------
(***************************************************************************)
(* Safety of the engine's sender for every buffer size and every bound.    *)
(*                                                                         *)
(* The order of the Redis stream is not inductive as it stands: it needs   *)
(* that the buffer itself is in send order, that nothing in Redis is newer *)
(* than what is still buffered, and where the message in flight lies       *)
(* between the two.                                                        *)
(***************************************************************************)
EXTENDS EventStream, FiniteSetTheorems, TLAPS

-----------------------------------------------------------------------------
(* Facts about the sequence operators the buffer uses.                     *)

\* What Append puts at each position.
LEMMA AppendAt ==
    ASSUME NEW S, NEW s \in Seq(S), NEW e \in S
    PROVE  /\ Append(s, e) \in Seq(S)
           /\ Len(Append(s, e)) = Len(s) + 1
           /\ \A i \in 1 .. Len(s) : Append(s, e)[i] = s[i]
           /\ Append(s, e)[Len(s) + 1] = e
  OBVIOUS

\* What Tail keeps at each position.
LEMMA TailAt ==
    ASSUME NEW S, NEW s \in Seq(S), s # <<>>
    PROVE  /\ Tail(s) \in Seq(S)
           /\ Len(Tail(s)) = Len(s) - 1
           /\ \A i \in 1 .. Len(Tail(s)) : Tail(s)[i] = s[i + 1]
           /\ Head(s) = s[1]
           /\ Len(s) \in Nat \ {0}
  OBVIOUS

\* Message ids increase along the sequence.
Ordered(s) == \A i, j \in 1 .. Len(s) : i < j => s[i].id < s[j].id

LEMMA AppendOrdered ==
    ASSUME NEW s \in Seq(Message), NEW m \in Message, Ordered(s),
           \A i \in 1 .. Len(s) : s[i].id < m.id
    PROVE  Ordered(Append(s, m))
  BY AppendAt DEF Ordered

LEMMA TailOrdered ==
    ASSUME NEW s \in Seq(Message), s # <<>>, Ordered(s)
    PROVE  Ordered(Tail(s))
  <1>1. SUFFICES ASSUME NEW i \in 1 .. Len(Tail(s)),
                        NEW j \in 1 .. Len(Tail(s)), i < j
                 PROVE  Tail(s)[i].id < Tail(s)[j].id
    BY DEF Ordered
  <1>2. /\ i + 1 \in 1 .. Len(s) /\ j + 1 \in 1 .. Len(s) /\ i + 1 < j + 1
        /\ Tail(s)[i] = s[i + 1] /\ Tail(s)[j] = s[j + 1]
    <2>1. Len(Tail(s)) = Len(s) - 1 /\ Len(s) \in Nat
      BY TailAt
    <2> QED BY <1>1, <2>1, TailAt
  <1> QED BY <1>1, <1>2 DEF Ordered

\* What a critical section may do to the buffer: it appends the next message,
\* perhaps dropping the head first, or it drops the head or nothing.
LEMMA EnqueueBuffer ==
    ASSUME TypeOK, NEW count \in Nat, NEW u \in Nat, Enqueue(count, u)
    PROVE  /\ NextMessage(count) \in Message
           /\ \/ ~Full /\ queue' = Append(queue, NextMessage(count))
              \/ /\ Full /\ queue # <<>>
                 /\ queue' = Append(Tail(queue), NextMessage(count))
           /\ queue' \in Seq(Message) /\ nextId' = nextId + 1
           /\ unreported' \in Nat /\ dropped' \in Nat
           /\ lost' \subseteq Message
  <1>1. NextMessage(count) \in Message /\ nextId' = nextId + 1
    BY DEF TypeOK, Message, Enqueue, NextMessage
  <1>2. CASE Full
    <2>1. Len(queue) >= 1 /\ queue # <<>>
      BY <1>2, BufferAssumption DEF Full, TypeOK
    <2>2. Head(queue) \in Message /\ Tail(queue) \in Seq(Message)
      BY <2>1, TailAt DEF TypeOK
    <2>3. queue' = Append(Tail(queue), NextMessage(count))
      BY <1>2 DEF Enqueue
    <2>4. queue' \in Seq(Message)
      BY <1>1, <2>2, <2>3
    <2> QED BY <1>1, <1>2, <2>1, <2>2, <2>3, <2>4 DEF Enqueue, TypeOK
  <1>3. CASE ~Full
    <2>1. queue' = Append(queue, NextMessage(count)) /\ queue' \in Seq(Message)
      BY <1>1, <1>3 DEF Enqueue, TypeOK
    <2> QED BY <1>1, <1>3, <2>1 DEF Enqueue, TypeOK
  <1> QED BY <1>2, <1>3

LEMMA PopBuffer ==
    ASSUME TypeOK, PopInflight
    PROVE  \/ queue' = queue
           \/ queue # <<>> /\ Head(queue) = inflight /\ queue' = Tail(queue)
  BY DEF PopInflight

-----------------------------------------------------------------------------
(* Types and the bound of the buffer.                                      *)

LEMMA TypeInit == Init => TypeOK
  <1>1. [id |-> 0, count |-> 0] \in Message
    BY DEF Message
  <1> SUFFICES ASSUME Init PROVE TypeOK
    OBVIOUS
  <1>2. queue \in Seq(Message) /\ stream \in Seq(Message) /\ lost \subseteq Message
    BY DEF Init
  <1> QED BY <1>1, <1>2 DEF Init, TypeOK

LEMMA TypeStep == TypeOK /\ [Next]_vars => TypeOK'
  <1> SUFFICES ASSUME TypeOK, [Next]_vars PROVE TypeOK'
    OBVIOUS
  <1> USE DEF TypeOK, workerVars, redisVars, bufferVars, stopVars
  <1>1. CASE Send
    <2>1. Enqueue(0, unreported) BY <1>1 DEF Send
    <2>2. /\ queue' \in Seq(Message) /\ nextId' \in Nat
          /\ unreported' \in Nat /\ dropped' \in Nat /\ lost' \subseteq Message
      BY <2>1, EnqueueBuffer, 0 \in Nat
    <2> QED BY <1>1, <2>2 DEF Send
  <1>2. CASE Stop       BY <1>2 DEF Stop
  <1>3. CASE Abort      BY <1>3 DEF Abort
  <1>4. CASE CheckAbort BY <1>4 DEF CheckAbort
  <1>5. CASE Take       BY <1>5 DEF Take
  <1>6. CASE Return     BY <1>6 DEF Return
  <1>7. CASE XaddAccepted    BY <1>7, AppendAt DEF XaddAccepted
  <1>8. CASE XaddUnreachable BY <1>8 DEF XaddUnreachable
  <1>9. CASE XaddReplyLost   BY <1>9, AppendAt DEF XaddReplyLost
  <1>10. CASE XaddRefused    BY <1>10 DEF XaddRefused
  <1>11. CASE DropRefused
    BY <1>11, PopBuffer, TailAt DEF DropRefused
  <1>12. CASE PopAccepted
    BY <1>12, PopBuffer, TailAt DEF PopAccepted
  <1>13. CASE ReportDrops
    <2>1. CASE unreported = 0
      BY <1>13, <2>1 DEF ReportDrops
    <2>2. CASE unreported # 0
      <3>1. Enqueue(unreported, 0) BY <1>13, <2>2 DEF ReportDrops
      <3>2. /\ queue' \in Seq(Message) /\ nextId' \in Nat
            /\ unreported' \in Nat /\ dropped' \in Nat
            /\ lost' \subseteq Message
        BY <3>1, EnqueueBuffer, 0 \in Nat
      <3> QED BY <1>13, <3>2 DEF ReportDrops
    <2> QED BY <2>1, <2>2
  <1>14. CASE Backoff      BY <1>14 DEF Backoff
  <1>15. CASE RedisChanges BY <1>15 DEF RedisChanges
  <1>16. CASE UNCHANGED vars BY <1>16 DEF vars
  <1> QED
    BY <1>1, <1>2, <1>3, <1>4, <1>5, <1>6, <1>7, <1>8, <1>9, <1>10, <1>11,
       <1>12, <1>13, <1>14, <1>15, <1>16 DEF Next, Worker

\* Every state of the sender is well typed.
THEOREM TypeCorrect == Spec => []TypeOK
  BY TypeInit, TypeStep, PTL DEF Spec

LEMMA BoundStep == TypeOK /\ Bounded /\ [Next]_vars => Bounded'
  <1> SUFFICES ASSUME TypeOK, Bounded, [Next]_vars PROVE Bounded'
    OBVIOUS
  <1> USE DEF TypeOK, Bounded, workerVars, redisVars, bufferVars, stopVars
  <1>1. ASSUME NEW c \in Nat, NEW u \in Nat, Enqueue(c, u) PROVE Bounded'
    <2>1. NextMessage(c) \in Message /\ queue \in Seq(Message)
      BY <1>1, EnqueueBuffer
    <2>2. CASE ~Full /\ queue' = Append(queue, NextMessage(c))
      <3>1. Len(queue') = Len(queue) + 1 BY <2>1, <2>2, AppendAt
      <3> QED BY <2>1, <2>2, <3>1, BufferAssumption DEF Full
    <2>3. CASE /\ Full /\ queue # <<>>
               /\ queue' = Append(Tail(queue), NextMessage(c))
      <3>1. /\ Tail(queue) \in Seq(Message)
            /\ Len(Tail(queue)) = Len(queue) - 1
        BY <2>1, <2>3, TailAt
      <3>2. Len(queue') = Len(Tail(queue)) + 1
        BY <2>1, <2>3, <3>1, AppendAt
      <3> QED BY <2>1, <3>1, <3>2, BufferAssumption
    <2> QED BY <1>1, <2>2, <2>3, EnqueueBuffer
  <1>2. ASSUME PopInflight PROVE Bounded'
    BY <1>2, PopBuffer, TailAt, BufferAssumption
  <1>3. CASE Send BY <1>1, <1>3 DEF Send
  <1>4. CASE DropRefused \/ PopAccepted
    BY <1>2, <1>4 DEF DropRefused, PopAccepted
  <1>5. CASE ReportDrops BY <1>1, <1>5 DEF ReportDrops
  <1>6. CASE UNCHANGED queue BY <1>6
  <1> QED
    BY <1>3, <1>4, <1>5, <1>6
    DEF Next, Worker, vars, Stop, Abort, CheckAbort, Take, Return,
        XaddAccepted, XaddUnreachable, XaddReplyLost, XaddRefused, Backoff,
        RedisChanges

\* For every buffer size the buffer holds at most that many messages, the one
\* in flight and the drop reports included.
THEOREM BufferBounded == Spec => []Bounded
  <1>1. Init => Bounded
    BY BufferAssumption DEF Init, Bounded
  <1> QED BY <1>1, TypeCorrect, BoundStep, PTL DEF Spec

-----------------------------------------------------------------------------
(* Send order.                                                             *)

Flying == pc \in {"xadd", "accepted", "refused"}

\* The inductive invariant: Redis, the message in flight, the buffer and the
\* next id follow each other.
OrderInv ==
    /\ InSendOrder
    /\ Ordered(queue)
    /\ \A j \in 1 .. Len(queue) : queue[j].id < nextId
    /\ \A i \in 1 .. Len(stream) : stream[i].id < nextId
    /\ \A i \in 1 .. Len(stream) : \A j \in 1 .. Len(queue) :
            stream[i].id <= queue[j].id
    /\ Flying =>
        /\ inflight.id < nextId
        /\ \A j \in 1 .. Len(queue) : inflight.id <= queue[j].id
        /\ \A i \in 1 .. Len(stream) : stream[i].id <= inflight.id

\* A message in the buffer after a critical section was there before or is
\* the next one, and the buffer stays in order.
BufferMoves ==
    /\ Ordered(queue')
    /\ nextId' \in Nat /\ nextId' >= nextId
    /\ \A j \in 1 .. Len(queue') :
        \/ \E k \in 1 .. Len(queue) : queue'[j] = queue[k]
        \/ queue'[j].id = nextId /\ nextId < nextId'

LEMMA EnqueueMoves ==
    ASSUME TypeOK, OrderInv, NEW count \in Nat, NEW u \in Nat,
           Enqueue(count, u)
    PROVE  BufferMoves
  <1> DEFINE m == NextMessage(count)
  <1>1. /\ m \in Message /\ m.id = nextId
        /\ nextId' = nextId + 1 /\ nextId \in Nat /\ queue \in Seq(Message)
    BY EnqueueBuffer DEF NextMessage, TypeOK
  <1>2. CASE queue' = Append(queue, m)
    <2>1. Ordered(queue')
      BY <1>1, <1>2, AppendOrdered DEF OrderInv
    <2>2. /\ Len(queue') = Len(queue) + 1 /\ Len(queue) \in Nat
          /\ \A i \in 1 .. Len(queue) : queue'[i] = queue[i]
          /\ queue'[Len(queue) + 1] = m
      BY <1>1, <1>2, AppendAt
    <2> QED BY <1>1, <2>1, <2>2 DEF BufferMoves
  <1>3. CASE queue # <<>> /\ queue' = Append(Tail(queue), m)
    <2> DEFINE t == Tail(queue)
    <2>1. /\ t \in Seq(Message) /\ Len(t) = Len(queue) - 1
          /\ Len(queue) \in Nat \ {0}
          /\ \A i \in 1 .. Len(t) : t[i] = queue[i + 1]
      BY <1>1, <1>3, TailAt
    <2>2. Ordered(t)
      BY <1>1, <1>3, TailOrdered DEF OrderInv
    <2>3. \A i \in 1 .. Len(t) : t[i].id < m.id
      BY <1>1, <2>1 DEF OrderInv
    <2>4. Ordered(queue')
      BY <1>1, <1>3, <2>1, <2>2, <2>3, AppendOrdered
    <2>5. /\ Len(queue') = Len(queue)
          /\ \A i \in 1 .. Len(queue) - 1 : queue'[i] = queue[i + 1]
          /\ queue'[Len(queue)] = m
      BY <1>1, <1>3, <2>1, AppendAt
    <2> QED BY <1>1, <2>1, <2>4, <2>5 DEF BufferMoves
  <1> QED BY <1>2, <1>3, EnqueueBuffer

LEMMA PopMoves ==
    ASSUME TypeOK, OrderInv, PopInflight, nextId' = nextId
    PROVE  BufferMoves
  <1>1. queue \in Seq(Message) /\ nextId \in Nat
    BY DEF TypeOK
  <1>2. CASE queue' = queue
    BY <1>1, <1>2 DEF BufferMoves, OrderInv
  <1>3. CASE queue # <<>> /\ queue' = Tail(queue)
    BY <1>1, <1>3, TailAt, TailOrdered DEF BufferMoves, OrderInv
  <1> QED BY <1>2, <1>3, PopBuffer

\* Such a move disturbs neither Redis nor the message in flight.
LEMMA MovesKeepOrder ==
    ASSUME TypeOK, TypeOK', OrderInv, BufferMoves, UNCHANGED stream,
           Flying' => Flying /\ UNCHANGED inflight
    PROVE  OrderInv'
  <1>1. /\ queue \in Seq(Message) /\ stream \in Seq(Message)
        /\ queue' \in Seq(Message) /\ inflight \in Message
        /\ nextId \in Nat /\ nextId' \in Nat
    BY DEF TypeOK
  <1>2. \A j \in 1 .. Len(queue') : queue'[j] \in Message
    BY <1>1
  <1>3. \A i \in 1 .. Len(stream) : stream[i] \in Message
    BY <1>1
  <1>4. \A j \in 1 .. Len(queue) : queue[j] \in Message
    BY <1>1
  <1>5. \A m \in Message : m.id \in Nat
    BY DEF Message
  <1>6. \A j \in 1 .. Len(queue') : queue'[j].id < nextId'
    <2> SUFFICES ASSUME NEW j \in 1 .. Len(queue')
                 PROVE  queue'[j].id < nextId'
      OBVIOUS
    <2>1. CASE queue'[j].id = nextId /\ nextId < nextId'
      BY <2>1
    <2>2. ASSUME NEW k \in 1 .. Len(queue), queue'[j] = queue[k]
          PROVE  queue'[j].id < nextId'
      <3>1. queue[k].id < nextId /\ queue[k].id \in Nat /\ nextId <= nextId'
        BY <1>4, <1>5 DEF OrderInv, BufferMoves
      <3> QED BY <1>1, <2>2, <3>1
    <2> QED BY <2>1, <2>2 DEF BufferMoves
  <1>7. \A i \in 1 .. Len(stream) : stream[i].id < nextId'
    BY <1>1, <1>3, <1>5 DEF OrderInv, BufferMoves
  <1>8. \A i \in 1 .. Len(stream) : \A j \in 1 .. Len(queue') :
            stream[i].id <= queue'[j].id
    BY <1>1, <1>2, <1>3, <1>4, <1>5 DEF OrderInv, BufferMoves
  <1>9. ASSUME Flying'
        PROVE  /\ inflight'.id < nextId'
               /\ \A j \in 1 .. Len(queue') : inflight'.id <= queue'[j].id
               /\ \A i \in 1 .. Len(stream) : stream[i].id <= inflight'.id
    <2>1. Flying /\ inflight' = inflight /\ inflight.id \in Nat
      BY <1>1, <1>5, <1>9
    <2>2. inflight.id < nextId /\ nextId <= nextId'
      BY <2>1 DEF OrderInv, BufferMoves
    <2>3. ASSUME NEW j \in 1 .. Len(queue')
          PROVE  inflight.id <= queue'[j].id
      <3>1. CASE queue'[j].id = nextId
        BY <1>1, <2>1, <2>2, <3>1
      <3>2. CASE \E k \in 1 .. Len(queue) : queue'[j] = queue[k]
        BY <2>1, <3>2 DEF OrderInv
      <3> QED BY <3>1, <3>2 DEF BufferMoves
    <2>4. \A i \in 1 .. Len(stream) : stream[i].id <= inflight.id
      BY <2>1 DEF OrderInv
    <2> QED BY <1>1, <2>1, <2>2, <2>3, <2>4
  <1>10. InSendOrder'
    BY DEF OrderInv, InSendOrder
  <1> QED
    BY <1>6, <1>7, <1>8, <1>9, <1>10 DEF OrderInv, BufferMoves

\* Redis appends the message in flight.
LEMMA AppendKeepsOrder ==
    ASSUME TypeOK, TypeOK', OrderInv, pc = "xadd",
           stream' = Append(stream, inflight),
           UNCHANGED <<queue, nextId, inflight>>
    PROVE  OrderInv'
  <1>1. /\ stream \in Seq(Message) /\ inflight \in Message
        /\ inflight.id \in Nat /\ Flying
    BY DEF TypeOK, Message, Flying
  <1>2. /\ Len(stream') = Len(stream) + 1 /\ Len(stream) \in Nat
        /\ \A i \in 1 .. Len(stream) : stream'[i] = stream[i]
        /\ stream'[Len(stream) + 1] = inflight
    BY <1>1, AppendAt
  <1>3. InSendOrder'
    BY <1>1, <1>2 DEF OrderInv, InSendOrder
  <1>4. /\ \A i \in 1 .. Len(stream') : stream'[i].id < nextId
        /\ \A i \in 1 .. Len(stream') : stream'[i].id <= inflight.id
        /\ \A i \in 1 .. Len(stream') : \A j \in 1 .. Len(queue) :
                stream'[i].id <= queue[j].id
    BY <1>1, <1>2 DEF OrderInv
  <1> QED BY <1>1, <1>3, <1>4 DEF OrderInv

LEMMA TakeKeepsOrder ==
    ASSUME TypeOK, OrderInv, Take
    PROVE  OrderInv'
  <1>1. queue \in Seq(Message) /\ queue # <<>>
    BY DEF Take, TypeOK
  <1>2. inflight' = queue[1] /\ Len(queue) \in Nat \ {0}
    BY <1>1, TailAt DEF Take
  <1>3. queue[1] \in Message /\ queue[1].id \in Nat
    <2>1. 1 \in 1 .. Len(queue)
      BY <1>2
    <2>2. queue[1] \in Message
      BY <1>1, <2>1
    <2> QED BY <2>2 DEF Message
  <1>4. ASSUME NEW j \in 1 .. Len(queue)
        PROVE  queue[1].id <= queue[j].id
    <2>1. CASE j = 1
      BY <1>3, <2>1
    <2>2. CASE j > 1
      <3>1. queue[1].id < queue[j].id /\ queue[j] \in Message
        BY <1>1, <1>2, <2>2 DEF OrderInv, Ordered
      <3> QED BY <1>3, <3>1 DEF Message
    <2> QED BY <2>1, <2>2
  <1> QED
    BY <1>1, <1>2, <1>3, <1>4
    DEF Take, OrderInv, InSendOrder, redisVars, bufferVars, Flying

LEMMA OrderStep == TypeOK /\ TypeOK' /\ OrderInv /\ [Next]_vars => OrderInv'
  <1> SUFFICES ASSUME TypeOK, TypeOK', OrderInv, [Next]_vars PROVE OrderInv'
    OBVIOUS
  <1> USE DEF workerVars, redisVars, bufferVars, stopVars
  <1>0. nextId \in Nat /\ unreported \in Nat
    BY DEF TypeOK
  <1>1. CASE Send
    BY <1>0, <1>1, EnqueueMoves, MovesKeepOrder DEF Send, Flying
  <1>2. CASE DropRefused \/ PopAccepted
    BY <1>2, PopMoves, MovesKeepOrder DEF DropRefused, PopAccepted, Flying
  <1>3. CASE ReportDrops /\ unreported # 0
    BY <1>0, <1>3, EnqueueMoves, MovesKeepOrder DEF ReportDrops, Flying
  <1>4. CASE XaddAccepted \/ XaddReplyLost
    BY <1>4, AppendKeepsOrder DEF XaddAccepted, XaddReplyLost
  <1>5. CASE Take
    BY <1>5, TakeKeepsOrder
  <1>6. ASSUME UNCHANGED <<queue, stream, nextId, inflight>>,
               Flying' => Flying
        PROVE  OrderInv'
    BY <1>6 DEF OrderInv, InSendOrder, Ordered
  <1>7. CASE \/ Stop \/ Abort \/ CheckAbort \/ Return \/ XaddUnreachable
             \/ XaddRefused \/ Backoff \/ RedisChanges
             \/ (ReportDrops /\ unreported = 0) \/ UNCHANGED vars
    BY <1>6, <1>7
    DEF Stop, Abort, CheckAbort, Return, XaddUnreachable, XaddRefused,
        Backoff, RedisChanges, ReportDrops, vars, Flying
  <1> QED
    BY <1>1, <1>2, <1>3, <1>4, <1>5, <1>7 DEF Next, Worker

\* Whatever is dropped, refused or sent again, Redis holds the messages in
\* the order the engine sent them, repeats next to their first copy.
THEOREM SendOrder == Spec => []InSendOrder
  <1>1. Init => OrderInv
    BY DEF Init, OrderInv, InSendOrder, Ordered, Flying
  <1>2. OrderInv => InSendOrder
    BY DEF OrderInv
  <1> QED BY <1>1, <1>2, TypeCorrect, OrderStep, PTL DEF Spec

-----------------------------------------------------------------------------
(* Losses.                                                                 *)

LossInv == IsFiniteSet(lost) /\ LossesCounted

LEMMA LossStep == TypeOK /\ LossInv /\ [Next]_vars => LossInv'
  <1> SUFFICES ASSUME TypeOK, LossInv, [Next]_vars PROVE LossInv'
    OBVIOUS
  <1> USE DEF LossInv, LossesCounted, bufferVars
  <1>1. ASSUME NEW m, lost' = lost \cup {m}, dropped' = dropped + 1
        PROVE  LossInv'
    <2>1. IsFiniteSet(lost') /\ Cardinality(lost) \in Nat
      BY <1>1, FS_AddElement, FS_CardinalityType
    <2>2. \/ Cardinality(lost') = Cardinality(lost)
          \/ Cardinality(lost') = Cardinality(lost) + 1
      BY <1>1, FS_AddElement
    <2>3. dropped \in Nat
      BY DEF TypeOK
    <2> QED BY <1>1, <2>1, <2>2, <2>3
  <1>2. CASE UNCHANGED <<lost, dropped>>
    BY <1>2
  <1>3. ASSUME NEW c, NEW u, Enqueue(c, u)
        PROVE  LossInv'
    BY <1>1, <1>2, <1>3 DEF Enqueue
  <1>4. CASE Send BY <1>3, <1>4 DEF Send
  <1>5. CASE ReportDrops BY <1>2, <1>3, <1>5 DEF ReportDrops
  <1>6. CASE DropRefused BY <1>1, <1>6 DEF DropRefused
  <1> QED
    BY <1>2, <1>4, <1>5, <1>6
    DEF Next, Worker, vars, Stop, Abort, CheckAbort, Take, Return,
        XaddAccepted, XaddUnreachable, XaddReplyLost, XaddRefused,
        PopAccepted, Backoff, RedisChanges

\* dropped_total never falls behind the messages that were really lost.
THEOREM EveryLossCounted == Spec => []LossesCounted
  <1>1. Init => LossInv
    BY FS_EmptySet DEF Init, LossInv, LossesCounted
  <1>2. LossInv => LossesCounted
    BY DEF LossInv
  <1> QED BY <1>1, <1>2, TypeCorrect, LossStep, PTL DEF Spec

-----------------------------------------------------------------------------
(* Nothing vanishes.                                                       *)

LEMMA AppendIds ==
    ASSUME NEW s \in Seq(Message), NEW m \in Message
    PROVE  Ids(Append(s, m)) = Ids(s) \cup {m.id}
  <1> DEFINE t == Append(s, m)
  <1>1. /\ Len(t) = Len(s) + 1 /\ Len(s) \in Nat
        /\ \A i \in 1 .. Len(s) : t[i] = s[i]
        /\ t[Len(s) + 1] = m
    BY AppendAt
  <1> HIDE DEF t
  <1>2. 1 .. Len(t) = (1 .. Len(s)) \cup {Len(s) + 1}
    BY <1>1
  <1> QED BY <1>1, <1>2 DEF Ids, t

LEMMA TailIds ==
    ASSUME NEW s \in Seq(Message), s # <<>>
    PROVE  Ids(s) \subseteq Ids(Tail(s)) \cup {Head(s).id}
  <1> DEFINE t == Tail(s)
  <1>1. /\ Len(t) = Len(s) - 1 /\ Len(s) \in Nat \ {0}
        /\ \A i \in 1 .. Len(t) : t[i] = s[i + 1]
        /\ Head(s) = s[1]
    BY TailAt
  <1> HIDE DEF t
  <1>2. SUFFICES ASSUME NEW i \in 1 .. Len(s), i # 1
                 PROVE  s[i].id \in Ids(t)
    BY <1>1 DEF Ids, t
  <1>3. i - 1 \in 1 .. Len(t) /\ t[i - 1] = s[i]
    BY <1>1, <1>2
  <1> QED BY <1>3 DEF Ids

LostIds == {m.id : m \in lost}

\* An accepted message is in Redis before it leaves the buffer.
VanishInv ==
    /\ \A id \in 1 .. nextId - 1 : id \in Ids(queue) \cup Ids(stream) \cup LostIds
    /\ pc = "accepted" => inflight.id \in Ids(stream)

LEMMA EnqueueKeeps ==
    ASSUME TypeOK, NEW count \in Nat, NEW u, Enqueue(count, u)
    PROVE  /\ Ids(queue) \cup LostIds \cup {nextId}
                \subseteq Ids(queue') \cup LostIds'
           /\ nextId' = nextId + 1
  <1> DEFINE m == NextMessage(count)
  <1>1. m \in Message /\ m.id = nextId /\ queue \in Seq(Message)
    BY DEF NextMessage, Message, TypeOK
  <1>2. CASE Full
    <2>1. /\ queue' = Append(Tail(queue), m)
          /\ lost' = lost \cup {Head(queue)}
      BY <1>2 DEF Enqueue
    <2>2. queue # <<>>
      BY <1>2, BufferAssumption DEF Full
    <2>3. Tail(queue) \in Seq(Message)
      BY <1>1, <2>2, TailAt
    <2>4. Ids(queue') = Ids(Tail(queue)) \cup {nextId}
      BY <1>1, <2>1, <2>3, AppendIds
    <2>5. Ids(queue) \subseteq Ids(Tail(queue)) \cup {Head(queue).id}
      BY <1>1, <2>2, TailIds
    <2>6. LostIds' = LostIds \cup {Head(queue).id}
      BY <2>1 DEF LostIds
    <2> QED BY <2>4, <2>5, <2>6 DEF Enqueue
  <1>3. CASE ~Full
    <2>1. queue' = Append(queue, m) /\ lost' = lost
      BY <1>3 DEF Enqueue
    <2>2. Ids(queue') = Ids(queue) \cup {nextId}
      BY <1>1, <2>1, AppendIds
    <2> QED BY <2>1, <2>2 DEF Enqueue, LostIds
  <1> QED BY <1>2, <1>3

\* Only the message in flight is popped.
LEMMA PopKeeps ==
    ASSUME TypeOK, PopInflight
    PROVE  Ids(queue) \subseteq Ids(queue') \cup {inflight.id}
  <1>1. CASE queue # <<>> /\ Head(queue) = inflight
    BY <1>1, TailIds DEF PopInflight, TypeOK
  <1>2. CASE ~(queue # <<>> /\ Head(queue) = inflight)
    BY <1>2 DEF PopInflight
  <1> QED BY <1>1, <1>2

LEMMA VanishStep == TypeOK /\ VanishInv /\ [Next]_vars => VanishInv'
  <1> SUFFICES ASSUME TypeOK, VanishInv, [Next]_vars PROVE VanishInv'
    OBVIOUS
  <1> USE DEF workerVars, redisVars, bufferVars, stopVars
  <1>1. nextId \in Nat /\ unreported \in Nat
    BY DEF TypeOK
  <1>2. ASSUME Ids(queue) \cup Ids(stream) \cup LostIds
                  \subseteq Ids(queue') \cup Ids(stream') \cup LostIds',
               nextId' = nextId, pc' # "accepted"
        PROVE  VanishInv'
    BY <1>2 DEF VanishInv
  <1>3. ASSUME NEW count \in Nat, NEW u, Enqueue(count, u),
               UNCHANGED <<stream, inflight>>, pc' = "accepted" => pc = "accepted"
        PROVE  VanishInv'
    <2>1. /\ Ids(queue) \cup LostIds \cup {nextId}
                \subseteq Ids(queue') \cup LostIds'
          /\ nextId' = nextId + 1
      BY <1>3, EnqueueKeeps
    <2>2. \A id \in 1 .. nextId' - 1 : id \in 1 .. nextId - 1 \/ id = nextId
      BY <1>1, <2>1
    <2> QED BY <1>3, <2>1, <2>2 DEF VanishInv
  <1>4. CASE Send
    BY <1>3, <1>4 DEF Send
  <1>5. CASE ReportDrops
    <2>1. CASE unreported = 0
      BY <1>2, <1>5, <2>1 DEF ReportDrops, LostIds
    <2>2. CASE unreported # 0
      BY <1>1, <1>3, <1>5, <2>2 DEF ReportDrops
    <2> QED BY <2>1, <2>2
  <1>6. CASE XaddAccepted \/ XaddReplyLost
    <2>1. /\ stream' = Append(stream, inflight) /\ inflight' = inflight
          /\ UNCHANGED <<queue, lost, nextId>>
      BY <1>6 DEF XaddAccepted, XaddReplyLost
    <2>2. Ids(stream') = Ids(stream) \cup {inflight.id}
      BY <2>1, AppendIds DEF TypeOK
    <2> QED BY <2>1, <2>2 DEF VanishInv, LostIds
  <1>7. CASE PopAccepted
    <2>1. /\ Ids(queue) \subseteq Ids(queue') \cup {inflight.id}
          /\ inflight.id \in Ids(stream)
      BY <1>7, PopKeeps DEF PopAccepted, VanishInv
    <2> QED BY <1>2, <1>7, <2>1 DEF PopAccepted, LostIds
  <1>8. CASE DropRefused
    <2>1. Ids(queue) \subseteq Ids(queue') \cup {inflight.id}
      BY <1>8, PopKeeps DEF DropRefused
    <2>2. LostIds' = LostIds \cup {inflight.id}
      BY <1>8 DEF DropRefused, LostIds
    <2> QED BY <1>2, <1>8, <2>1, <2>2 DEF DropRefused
  <1>9. CASE \/ CheckAbort \/ Take \/ Return \/ XaddUnreachable
             \/ XaddRefused \/ Backoff
    BY <1>2, <1>9
    DEF CheckAbort, Take, Return, XaddUnreachable, XaddRefused, Backoff,
        LostIds
  <1>10. CASE Stop \/ Abort \/ RedisChanges \/ UNCHANGED vars
    BY <1>10 DEF Stop, Abort, RedisChanges, vars, VanishInv, LostIds
  <1> QED
    BY <1>4, <1>5, <1>6, <1>7, <1>8, <1>9, <1>10 DEF Next, Worker

\* A message given to send() is buffered, in Redis or among the losses.
THEOREM NothingDisappears == Spec => []NothingVanishes
  <1>1. Init => VanishInv
    BY DEF Init, VanishInv
  <1>2. VanishInv => NothingVanishes
    BY DEF VanishInv, NothingVanishes, LostIds
  <1> QED BY <1>1, <1>2, TypeCorrect, VanishStep, PTL DEF Spec

=============================================================================
