------------------------- MODULE CameraWorkerProofs -------------------------
(***************************************************************************)
(* A camera's worker, for every script of configs and number of failures:  *)
(* its types, that it leaks no detector and no stream, that its pipeline   *)
(* never goes back to an older version, and that a worker at rest runs the *)
(* stream and name of its newest config or says why it runs nothing.       *)
(*                                                                         *)
(* The types bound the generation counters: every settings generation is a *)
(* config taken, or a failed load tried again.  For the second theorem the *)
(* owners of a detector or stream must also be different from each other,  *)
(* so that what one of them gives back is not in use elsewhere.  For the   *)
(* third the versions of the generations rise, and the change the thread   *)
(* has chosen is not older than the one that runs.  For the last two, what *)
(* is newest and not in force yet is always in somebody's hands.           *)
(***************************************************************************)
EXTENDS CameraWorker, FiniteSetTheorems, TLAPS

-----------------------------------------------------------------------------
(* Sequences of changes.                                                   *)

LEMMA AppendAt ==
    ASSUME NEW S, NEW s \in Seq(S), NEW e \in S
    PROVE  /\ Append(s, e) \in Seq(S) /\ Len(Append(s, e)) = Len(s) + 1
           /\ Append(s, e)[Len(s) + 1] = e
           /\ \A i \in 1 .. Len(s) : Append(s, e)[i] = s[i]
  OBVIOUS

LEMMA TailAt ==
    ASSUME NEW S, NEW s \in Seq(S), s # <<>>
    PROVE  /\ Len(s) \in Nat \ {0} /\ Head(s) = s[1] /\ Head(s) \in S
           /\ Tail(s) \in Seq(S) /\ Len(Tail(s)) = Len(s) - 1
           /\ \A i \in 1 .. Len(s) - 1 : Tail(s)[i] = s[i + 1]
  OBVIOUS

LEMMA ChangeFields ==
    ASSUME NEW c \in Change
    PROVE  /\ c.kind = "settings" => c.gen \in SettingsGens /\ c.loaded \in BOOLEAN
           /\ c.kind = "stream" => c.gen \in StreamGens
  BY DEF Change

LEMMA ChangeTypes ==
    /\ \A g \in SettingsGens, l \in BOOLEAN : SettingsChange(g, l) \in Change
    /\ \A s \in StreamGens : [kind |-> "stream", gen |-> s] \in Change
    /\ [kind |-> "identity"] \in Change
  BY DEF Change, SettingsChange

\* The generations of the settings changes of a sequence, loaded or not.
SettingsIn(q) ==
    {q[i].gen : i \in {j \in 1 .. Len(q) : q[j].kind = "settings"}}

\* No generation occurs twice.
Distinct(q) ==
    \A i, j \in 1 .. Len(q) :
        i # j /\ q[i].kind = q[j].kind /\ q[i].kind # "identity"
            => q[i].gen # q[j].gen

LoadedOf(c) == IF c.kind = "settings" /\ c.loaded THEN {c.gen} ELSE {}
SettingsOfChange(c) == IF c.kind = "settings" THEN {c.gen} ELSE {}
StreamOf(c) == IF c.kind = "stream" THEN {c.gen} ELSE {}

LEMMA AppendGens ==
    ASSUME NEW s \in Seq(Change), NEW c \in Change
    PROVE  /\ LoadedIn(Append(s, c)) = LoadedIn(s) \cup LoadedOf(c)
           /\ SettingsIn(Append(s, c)) = SettingsIn(s) \cup SettingsOfChange(c)
           /\ StreamsIn(Append(s, c)) = StreamsIn(s) \cup StreamOf(c)
  <1> DEFINE t == Append(s, c)
             n == Len(s)
  <1>1. /\ n \in Nat /\ Len(t) = n + 1 /\ t[n + 1] = c
        /\ \A i \in 1 .. n : t[i] = s[i]
    BY AppendAt
  <1>2. \A i : i \in 1 .. Len(t) <=> i \in 1 .. n \/ i = n + 1
    BY <1>1
  <1> HIDE DEF t, n
  <1>3. LoadedIn(t) = LoadedIn(s) \cup LoadedOf(c)
    BY <1>1, <1>2 DEF LoadedIn, LoadedOf, n
  <1>4. SettingsIn(t) = SettingsIn(s) \cup SettingsOfChange(c)
    BY <1>1, <1>2 DEF SettingsIn, SettingsOfChange, n
  <1>5. StreamsIn(t) = StreamsIn(s) \cup StreamOf(c)
    BY <1>1, <1>2 DEF StreamsIn, StreamOf, n
  <1> QED BY <1>3, <1>4, <1>5 DEF t

LEMMA AppendDistinct ==
    ASSUME NEW s \in Seq(Change), NEW c \in Change, Distinct(s),
           c.kind = "settings" => c.gen \notin SettingsIn(s),
           c.kind = "stream" => c.gen \notin StreamsIn(s)
    PROVE  Distinct(Append(s, c))
  <1> DEFINE t == Append(s, c)
             n == Len(s)
  <1>1. /\ n \in Nat /\ Len(t) = n + 1 /\ t[n + 1] = c
        /\ \A i \in 1 .. n : t[i] = s[i]
    BY AppendAt
  <1>2. \A i \in 1 .. n : t[i].kind = c.kind /\ c.kind # "identity" => t[i].gen # c.gen
    <2>1. \A i \in 1 .. n : s[i].kind = "settings" => s[i].gen \in SettingsIn(s)
      BY DEF SettingsIn
    <2>2. \A i \in 1 .. n : s[i].kind = "stream" => s[i].gen \in StreamsIn(s)
      BY DEF StreamsIn
    <2>3. c.kind \in {"settings", "stream", "identity"}
      BY DEF Change
    <2> QED BY <1>1, <2>1, <2>2, <2>3
  <1>3. \A i \in 1 .. Len(t) : i \in 1 .. n \/ i = n + 1
    BY <1>1
  <1> HIDE DEF t, n
  <1> QED BY <1>1, <1>2, <1>3 DEF Distinct, t, n

LEMMA TailGens ==
    ASSUME NEW s \in Seq(Change), s # <<>>
    PROVE  /\ LoadedIn(s) = LoadedIn(Tail(s)) \cup LoadedOf(Head(s))
           /\ SettingsIn(s) = SettingsIn(Tail(s)) \cup SettingsOfChange(Head(s))
           /\ StreamsIn(s) = StreamsIn(Tail(s)) \cup StreamOf(Head(s))
  <1> DEFINE t == Tail(s)
             c == Head(s)
             n == Len(t)
  <1>1. /\ n \in Nat /\ Len(s) = n + 1 /\ s[1] = c
        /\ \A i \in 1 .. n : t[i] = s[i + 1]
    BY TailAt
  <1>2. /\ \A i \in 1 .. Len(s) : i = 1 \/ (i - 1 \in 1 .. n /\ s[i] = t[i - 1])
        /\ \A i \in 1 .. n : i + 1 \in 1 .. Len(s)
        /\ 1 \in 1 .. Len(s)
    BY <1>1
  <1> HIDE DEF t, n, c
  <1>3. LoadedIn(s) = LoadedIn(t) \cup LoadedOf(c)
    BY <1>1, <1>2 DEF LoadedIn, LoadedOf, n
  <1>4. SettingsIn(s) = SettingsIn(t) \cup SettingsOfChange(c)
    <2>1. ASSUME NEW x \in SettingsIn(s) PROVE x \in SettingsIn(t) \cup SettingsOfChange(c)
      <3>1. PICK i \in 1 .. Len(s) : s[i].kind = "settings" /\ x = s[i].gen
        BY <2>1 DEF SettingsIn
      <3>2. CASE i = 1 BY <1>1, <3>1, <3>2 DEF SettingsOfChange
      <3>3. CASE i - 1 \in 1 .. n /\ s[i] = t[i - 1]
        BY <3>1, <3>3 DEF SettingsIn, n
      <3> QED BY <1>2, <3>2, <3>3
    <2>2. ASSUME NEW x \in SettingsIn(t) PROVE x \in SettingsIn(s)
      <3>1. PICK i \in 1 .. n : t[i].kind = "settings" /\ x = t[i].gen
        BY <2>2 DEF SettingsIn, n
      <3> QED BY <1>1, <1>2, <3>1 DEF SettingsIn
    <2>3. SettingsOfChange(c) \subseteq SettingsIn(s)
      BY <1>1, <1>2 DEF SettingsIn, SettingsOfChange
    <2> QED BY <2>1, <2>2, <2>3
  <1>5. StreamsIn(s) = StreamsIn(t) \cup StreamOf(c)
    <2>1. ASSUME NEW x \in StreamsIn(s) PROVE x \in StreamsIn(t) \cup StreamOf(c)
      <3>1. PICK i \in 1 .. Len(s) : s[i].kind = "stream" /\ x = s[i].gen
        BY <2>1 DEF StreamsIn
      <3>2. CASE i = 1 BY <1>1, <3>1, <3>2 DEF StreamOf
      <3>3. CASE i - 1 \in 1 .. n /\ s[i] = t[i - 1]
        BY <3>1, <3>3 DEF StreamsIn, n
      <3> QED BY <1>2, <3>2, <3>3
    <2>2. ASSUME NEW x \in StreamsIn(t) PROVE x \in StreamsIn(s)
      <3>1. PICK i \in 1 .. n : t[i].kind = "stream" /\ x = t[i].gen
        BY <2>2 DEF StreamsIn, n
      <3> QED BY <1>1, <1>2, <3>1 DEF StreamsIn
    <2>3. StreamOf(c) \subseteq StreamsIn(s)
      BY <1>1, <1>2 DEF StreamsIn, StreamOf
    <2> QED BY <2>1, <2>2, <2>3
  <1> QED BY <1>3, <1>4, <1>5 DEF t, c

LEMMA TailDistinct ==
    ASSUME NEW s \in Seq(Change), s # <<>>, Distinct(s)
    PROVE  /\ Distinct(Tail(s))
           /\ Head(s).kind = "settings" => Head(s).gen \notin SettingsIn(Tail(s))
           /\ Head(s).kind = "stream" => Head(s).gen \notin StreamsIn(Tail(s))
  <1> DEFINE t == Tail(s)
             n == Len(t)
  <1>1. /\ n \in Nat /\ Len(s) = n + 1 /\ s[1] = Head(s)
        /\ \A i \in 1 .. n : t[i] = s[i + 1]
    BY TailAt
  <1>2. /\ \A i \in 1 .. n : i + 1 \in 1 .. Len(s) /\ i + 1 # 1
        /\ \A i, j \in 1 .. n : i # j => i + 1 # j + 1
        /\ 1 \in 1 .. Len(s)
    BY <1>1
  <1> HIDE DEF t, n
  <1>3. Distinct(t)
    BY <1>1, <1>2 DEF Distinct, n
  <1>4. \A i \in 1 .. n : t[i].kind = Head(s).kind /\ Head(s).kind # "identity"
                            => t[i].gen # Head(s).gen
    BY <1>1, <1>2 DEF Distinct
  <1>5. Head(s).kind = "settings" => Head(s).gen \notin SettingsIn(t)
    BY <1>4 DEF SettingsIn, n
  <1>6. Head(s).kind = "stream" => Head(s).gen \notin StreamsIn(t)
    BY <1>4 DEF StreamsIn, n
  <1> QED BY <1>3, <1>5, <1>6 DEF t

LEMMA LoadedAreSettings ==
    ASSUME NEW s \in Seq(Change)
    PROVE  /\ LoadedIn(s) \subseteq SettingsIn(s)
           /\ SettingsIn(s) \subseteq SettingsGens /\ StreamsIn(s) \subseteq StreamGens
  <1>1. \A i \in 1 .. Len(s) : s[i] \in Change
    OBVIOUS
  <1> QED BY <1>1, ChangeFields DEF LoadedIn, SettingsIn, StreamsIn

LEMMA EmptyGens ==
    /\ LoadedIn(<<>>) = {} /\ SettingsIn(<<>>) = {} /\ StreamsIn(<<>>) = {}
    /\ Distinct(<<>>)
  BY DEF LoadedIn, SettingsIn, StreamsIn, Distinct

-----------------------------------------------------------------------------
(* Types.                                                                  *)

\* Every generation is a config taken or a failed load tried again; the first
\* stream comes with the first pipeline, the others with a config.
Counts ==
    /\ IsFiniteSet(loadFailed)
    /\ Len(changes) + (IF upc = "request" THEN 1 ELSE 0)
         + Cardinality(loadFailed) <= config + failures
    /\ Len(sources) <= config
    /\ ~wanted => Len(sources) = 0
    /\ upc = "take" => given >= config

\* What the worker thread has in hand in each phase.
InHand ==
    /\ wpc \in {"prepare", "loop", "stopped"} => todo = <<>>
    /\ wpc = "swap" => todo # <<>> /\ Head(todo).kind = "stream"
    /\ wpc \in {"chosen", "built"} => todo # <<>> /\ Head(todo).kind = "settings"
    /\ Unqueued => stopping

\* Every generation in use was taken.
GensTaken ==
    /\ \A g \in SettingsIn(todo) \cup SettingsIn(queue) : g <= Len(changes)
    /\ \A g \in SettingsGens : loaders[g] # "none" => g <= Len(changes)
    /\ \A s \in StreamGens : starters[s] # "none" => s <= Len(sources)

Phases == InHand /\ GensTaken

TypeInv == TypeOK /\ Counts /\ Phases

LEMMA ConfigAt ==
    ASSUME NEW p \in Positions
    PROVE  /\ p \in Nat \ {0} /\ p <= Len(Script) /\ Len(Script) \in Nat
           /\ Script[p].version \in Nat /\ Script[p].name \in Names
           /\ Script[p].stream \in Streams
  <1>1. Script \in Seq(Config) BY ScriptAssumption
  <1>2. Len(Script) \in Nat /\ Script[p] \in Config
    BY <1>1 DEF Positions
  <1> QED BY <1>2 DEF Positions, Config

LEMMA SettingsGenRange ==
    /\ MaxFailures \in Nat /\ Len(Script) \in Nat \ {0}
    /\ SettingsGens = 1 .. Len(Script) + MaxFailures
    /\ StreamGens = 1 .. Len(Script) /\ Positions = 1 .. Len(Script)
  <1>1. Script \in Seq(Config) /\ Script # <<>> BY ScriptAssumption
  <1>2. Len(Script) \in Nat \ {0} BY <1>1
  <1> QED BY <1>2, BoundAssumption DEF SettingsGens, StreamGens, Positions

LEMMA RejectTypes ==
    ASSUME TypeOK, IsFiniteSet(loadFailed), NEW p \in Positions,
           NEW g \in SettingsGens \cup {0}, NEW loadError \in BOOLEAN,
           Reject(p, g, loadError)
    PROVE  /\ error' \in Nat /\ loadFailed' \in SUBSET Nat
           /\ settled' \in 0 .. Len(changes)
           /\ state' \in {"starting", "running", "error", "stopped"}
           /\ IsFiniteSet(loadFailed')
           /\ Cardinality(loadFailed') \in Nat /\ Cardinality(loadFailed) \in Nat
           /\ Cardinality(loadFailed')
                <= Cardinality(loadFailed) + (IF loadError THEN 1 ELSE 0)
  <1>1. /\ Len(changes) \in Nat \ {0} /\ settled \in 0 .. Len(changes)
        /\ error \in Nat /\ loadFailed \in SUBSET Nat
        /\ state \in {"starting", "running", "error", "stopped"}
    BY SettingsGenRange DEF TypeOK
  <1>2. Cardinality(loadFailed) \in Nat
    BY FS_CardinalityType
  <1>3. CASE UNCHANGED statusVars
    BY <1>1, <1>2, <1>3 DEF statusVars
  <1>4. CASE ~(stopping \/ g \notin {0, Len(changes)})
    <2>1. /\ error' = Script[p].version
          /\ loadFailed' = IF loadError
                           THEN loadFailed \cup {Script[p].version}
                           ELSE loadFailed
          /\ settled' = IF g = 0 THEN settled ELSE g
          /\ state' \in {"error", state}
      BY <1>4 DEF Reject
    <2>2. /\ IsFiniteSet(loadFailed \cup {Script[p].version})
          /\ Cardinality(loadFailed \cup {Script[p].version})
               \in {Cardinality(loadFailed), Cardinality(loadFailed) + 1}
      BY FS_AddElement
    <2>3. settled' \in 0 .. Len(changes)
      BY <1>1, <1>4, <2>1
    <2>4. error' \in Nat /\ loadFailed' \in SUBSET Nat
      BY <1>1, <2>1, ConfigAt
    <2> QED BY <1>1, <1>2, <2>1, <2>2, <2>3, <2>4
  <1> QED BY <1>3, <1>4 DEF Reject

\* The change in hand, when there is one.
LEMMA GenType ==
    ASSUME TypeInv, todo # <<>>, Head(todo).kind = "settings"
    PROVE  /\ gen \in SettingsGens /\ gen \in 1 .. Len(changes)
           /\ gen \in SettingsIn(todo)
           /\ changes[gen] \in Positions /\ Head(todo).loaded \in BOOLEAN
           /\ Tail(todo) \in Seq(Change)
  <1>1. todo \in Seq(Change) /\ changes \in Seq(Positions) BY DEF TypeInv, TypeOK
  <1>2. Head(todo) \in Change /\ Tail(todo) \in Seq(Change) BY <1>1, TailAt
  <1>3. gen \in SettingsGens /\ Head(todo).loaded \in BOOLEAN
    BY <1>2, ChangeFields DEF gen
  <1>4. gen \in SettingsIn(todo)
    BY <1>1, TailGens DEF SettingsOfChange, gen
  <1>5. gen \in 1 .. Len(changes)
    BY <1>1, <1>3, <1>4, SettingsGenRange DEF TypeInv, Phases, GensTaken
  <1> QED BY <1>1, <1>2, <1>3, <1>4, <1>5

LEMMA StreamGenType ==
    ASSUME TypeOK, todo # <<>>, Head(todo).kind = "stream"
    PROVE  Head(todo).gen \in StreamGens /\ Tail(todo) \in Seq(Change)
  <1>1. Head(todo) \in Change /\ Tail(todo) \in Seq(Change)
    BY TailAt DEF TypeOK
  <1> QED BY <1>1, ChangeFields

LEMMA TypeInit == Init => TypeInv
  <1> SUFFICES ASSUME Init PROVE TypeInv
    OBVIOUS
  <1>1. config \in Positions /\ config \in Nat \ {0}
    BY ConfigAt DEF Init
  <1>2. changes \in Seq(Positions) /\ Len(changes) = 1
    BY <1>1 DEF Init
  <1>3. /\ queue \in Seq(Change) /\ todo \in Seq(Change)
        /\ sources \in Seq(Streams) /\ Len(sources) = 0
    BY DEF Init
  <1>4. IsFiniteSet(loadFailed) /\ Cardinality(loadFailed) = 0
    BY FS_EmptySet DEF Init
  <1>5. label \in Names /\ named \in Names
    BY <1>1, ConfigAt DEF Init
  <1>6. /\ 1 \in SettingsGens /\ failures \in 0 .. MaxFailures
        /\ settled \in 0 .. Len(changes)
    BY <1>2, SettingsGenRange DEF Init
  <1>7. TypeOK
    <2>1. Len(sources) <= Len(Script) BY <1>3, SettingsGenRange
    <2> QED BY <1>1, <1>2, <1>3, <1>5, <1>6, <2>1 DEF Init, TypeOK
  <1>8. Counts
    BY <1>1, <1>2, <1>3, <1>4 DEF Init, Counts
  <1>9. Phases
    <2>1. SettingsIn(todo) = {} /\ SettingsIn(queue) = {}
      BY EmptyGens DEF Init
    <2> QED BY <1>2, <2>1 DEF Init, Phases, InHand, GensTaken, Unqueued
  <1> QED BY <1>7, <1>8, <1>9 DEF TypeInv

LEMMA CountTypes ==
    ASSUME TypeInv
    PROVE  /\ config \in Nat \ {0} /\ config <= Len(Script) /\ given \in Nat
           /\ Len(changes) \in Nat \ {0} /\ Len(sources) \in Nat
           /\ changes \in Seq(Positions) /\ sources \in Seq(Streams)
           /\ failures \in Nat /\ failures <= MaxFailures
           /\ IsFiniteSet(loadFailed) /\ Cardinality(loadFailed) \in Nat
           /\ Len(Script) \in Nat /\ MaxFailures \in Nat
  <1>1. Cardinality(loadFailed) \in Nat
    BY FS_CardinalityType DEF TypeInv, Counts
  <1> QED BY <1>1, SettingsGenRange DEF TypeInv, TypeOK, Counts

LEMMA CountUpdate ==
    ASSUME TypeInv, NEW p \in Positions, Update(p)
    PROVE  Counts'
  <1>1. /\ changes' = changes /\ config' = config /\ sources' = sources
        /\ failures' = failures /\ wanted' = wanted
        /\ upc = "idle" /\ p >= config /\ given' = p
    BY DEF Update
  <1>2. CASE Retries(p)
    <2>1. /\ loadFailed' = loadFailed \ {Script[p].version} /\ upc' = "request"
          /\ Script[p].version \in loadFailed
      BY <1>2 DEF Update, Retries
    <2>2. /\ IsFiniteSet(loadFailed')
          /\ Cardinality(loadFailed') = Cardinality(loadFailed) - 1
      BY <2>1, CountTypes, FS_RemoveElement
    <2> QED BY <1>1, <2>1, <2>2, CountTypes DEF TypeInv, Counts
  <1>3. CASE ~Retries(p)
    BY <1>1, <1>3, CountTypes DEF Update, TypeInv, Counts
  <1> QED BY <1>2, <1>3

LEMMA CountTake ==
    ASSUME TypeInv, Take
    PROVE  Counts'
  <1>1. /\ upc = "take" /\ given >= config /\ given # config
        /\ config' = given /\ changes' = changes /\ loadFailed' = loadFailed
        /\ failures' = failures /\ wanted' = wanted
        /\ upc' \in {"request", "idle"}
    BY DEF Take, TypeInv, Counts, statusVars
  <1>2. given \in Nat /\ given >= config + 1
    BY <1>1, CountTypes
  <1>3. \/ sources' = sources
        \/ wanted /\ sources' = Append(sources, Script[given].stream)
    BY DEF Take
  <1>4. Len(sources') \in {Len(sources), Len(sources) + 1}
    <2>1. Script[given].stream \in Streams
      BY ConfigAt DEF TypeInv, TypeOK
    <2> QED BY <1>3, <2>1, CountTypes, AppendAt
  <1>5. Len(sources') <= config' /\ (~wanted' => Len(sources') = 0)
    BY <1>1, <1>2, <1>3, <1>4, CountTypes DEF TypeInv, Counts
  <1>6. Len(changes') + (IF upc' = "request" THEN 1 ELSE 0)
          + Cardinality(loadFailed') <= config' + failures'
    <2>1. Len(changes) + Cardinality(loadFailed) <= config + failures
      BY <1>1, CountTypes DEF TypeInv, Counts
    <2> QED BY <1>1, <1>2, <2>1, CountTypes
  <1> QED BY <1>1, <1>5, <1>6, CountTypes DEF Counts

LEMMA CountRequest ==
    ASSUME TypeInv, RequestInvalid \/ RequestSettings
    PROVE  Counts'
  <1>1. /\ upc = "request" /\ upc' = "idle" /\ config' = config /\ given' = given
        /\ sources' = sources /\ failures' = failures /\ wanted' = wanted
    BY DEF RequestInvalid, RequestSettings
  <1>2. Len(changes) + 1 + Cardinality(loadFailed) <= config + failures
    BY <1>1, CountTypes DEF TypeInv, Counts
  <1>3. CASE RequestInvalid
    <2>1. /\ IsFiniteSet(loadFailed') /\ Cardinality(loadFailed') \in Nat
          /\ Cardinality(loadFailed') <= Cardinality(loadFailed)
      <3>1. given \in Positions /\ TypeOK /\ IsFiniteSet(loadFailed)
        BY DEF TypeInv, TypeOK, Counts
      <3>2. Reject(given, 0, FALSE)
        BY <1>3 DEF RequestInvalid
      <3>3. /\ IsFiniteSet(loadFailed') /\ Cardinality(loadFailed') \in Nat
            /\ Cardinality(loadFailed')
                 <= Cardinality(loadFailed) + (IF FALSE THEN 1 ELSE 0)
        BY <3>1, <3>2, RejectTypes
      <3> QED BY <3>3, CountTypes
    <2>2. changes' = changes
      BY <1>3 DEF RequestInvalid
    <2> QED BY <1>1, <1>2, <2>1, <2>2, CountTypes DEF TypeInv, Counts
  <1>4. CASE RequestSettings
    <2>1. changes' = Append(changes, given) /\ loadFailed' = loadFailed
      BY <1>4 DEF RequestSettings, statusVars
    <2>2. Len(changes') = Len(changes) + 1
      BY <2>1, CountTypes, AppendAt DEF TypeInv, TypeOK
    <2> QED BY <1>1, <1>2, <2>1, <2>2, CountTypes DEF TypeInv, Counts
  <1> QED BY <1>3, <1>4

LEMMA Paid ==
    ASSUME NEW n \in Nat, NEW a \in Nat, NEW b \in Nat, NEW c \in Nat, NEW d \in Nat,
           NEW x \in Nat, NEW f \in Nat, NEW h \in Nat,
           n + a + c <= x + f, h >= f + b, d <= c + b
    PROVE  n + a + d <= x + h
  OBVIOUS

\* A failure pays for the version it marks.
LEMMA CountReject ==
    ASSUME TypeInv, NEW g \in SettingsGens, g \in 1 .. Len(changes),
           NEW loadError \in BOOLEAN, Reject(changes[g], g, loadError),
           UNCHANGED <<config, upc, given, changes, sources, wanted>>,
           failures' \in Nat,
           failures' >= failures + (IF loadError THEN 1 ELSE 0)
    PROVE  Counts'
  <1>1. changes[g] \in Positions
    BY CountTypes
  <1>2. /\ IsFiniteSet(loadFailed') /\ Cardinality(loadFailed') \in Nat
        /\ Cardinality(loadFailed')
             <= Cardinality(loadFailed) + (IF loadError THEN 1 ELSE 0)
    <2>1. TypeOK /\ IsFiniteSet(loadFailed) BY DEF TypeInv, Counts
    <2>2. g \in SettingsGens \cup {0} OBVIOUS
    <2> QED BY <1>1, <2>1, <2>2, RejectTypes
  <1>3. Len(changes) + (IF upc = "request" THEN 1 ELSE 0)
          + Cardinality(loadFailed) <= config + failures
    BY DEF TypeInv, Counts
  <1>4. Len(changes) + (IF upc = "request" THEN 1 ELSE 0)
          + Cardinality(loadFailed') <= config + failures'
    <2>1. PICK a \in {0, 1} : a = IF upc = "request" THEN 1 ELSE 0
      OBVIOUS
    <2>2. PICK b \in {0, 1} : b = IF loadError THEN 1 ELSE 0
      OBVIOUS
    <2>3. Len(changes) + a + Cardinality(loadFailed) <= config + failures
      BY <1>3, <2>1
    <2>4. /\ failures' >= failures + b
          /\ Cardinality(loadFailed') <= Cardinality(loadFailed) + b
      BY <1>2, <2>2
    <2>5. Len(changes) + a + Cardinality(loadFailed') <= config + failures'
      <3>1. a \in Nat /\ b \in Nat
        OBVIOUS
      <3> QED BY <1>2, <2>3, <2>4, <3>1, CountTypes, Paid
    <2> QED BY <2>1, <2>5
  <1> QED BY <1>2, <1>4, CountTypes DEF TypeInv, Counts

LEMMA CountInstall ==
    ASSUME TypeInv, Install
    PROVE  Counts'
  <1>1. UNCHANGED <<config, upc, given, changes, loadFailed, failures>>
    BY DEF Install, FixedVars, callerVars
  <1>2. CASE wanted
    BY <1>1, <1>2, CountTypes DEF Install, TypeInv, Counts
  <1>3. CASE ~wanted
    <2>1. wanted' = TRUE /\ sources' = Append(sources, Script[config].stream)
      BY <1>3 DEF Install
    <2>2. Script[config].stream \in Streams
      BY ConfigAt DEF TypeInv, TypeOK
    <2>3. Len(sources') = 1
      <3>1. Len(sources) = 0 BY <1>3 DEF TypeInv, Counts
      <3> QED BY <2>1, <2>2, <3>1, CountTypes, AppendAt
    <2> QED BY <1>1, <2>1, <2>3, CountTypes DEF TypeInv, Counts
  <1> QED BY <1>2, <1>3

LEMMA CountStep == TypeInv /\ [Next]_vars => Counts'
  <1> SUFFICES ASSUME TypeInv, [Next]_vars PROVE Counts'
    OBVIOUS
  <1>1. ASSUME NEW p \in Positions, Update(p) PROVE Counts'
    BY <1>1, CountUpdate
  <1>2. CASE Take BY <1>2, CountTake
  <1>3. CASE RequestInvalid \/ RequestSettings BY <1>3, CountRequest
  <1>4. CASE Ignore \/ Stop
    BY <1>4, CountTypes DEF Ignore, Stop, statusVars, TypeInv, Counts
  <1>5. ASSUME NEW g \in SettingsGens, Loader(g) PROVE Counts'
    <2>1. CASE CheckInvalid(g) \/ AcquireFails(g)
      <3>1. g \in 1 .. Len(changes)
        <4>1. loaders[g] # "none"
          BY <2>1 DEF CheckInvalid, AcquireFails
        <4>2. g <= Len(changes)
          BY <4>1 DEF TypeInv, Phases, GensTaken
        <4> QED BY <4>2, CountTypes, SettingsGenRange
      <3>2. UNCHANGED <<config, upc, given, changes, sources, wanted>>
        BY <2>1 DEF CheckInvalid, AcquireFails, LoaderVars, callerVars
      <3>3. CASE CheckInvalid(g)
        <4>1. Reject(changes[g], g, FALSE) /\ failures' = failures
          BY <3>3 DEF CheckInvalid
        <4>2. failures' >= failures + (IF FALSE THEN 1 ELSE 0) /\ failures' \in Nat
          BY <4>1, CountTypes
        <4> QED BY <3>1, <3>2, <4>1, <4>2, CountReject
      <3>4. CASE AcquireFails(g)
        <4>1. Reject(changes[g], g, TRUE) /\ failures' = failures + 1
          BY <3>4 DEF AcquireFails
        <4>2. failures' >= failures + (IF TRUE THEN 1 ELSE 0) /\ failures' \in Nat
          BY <4>1, CountTypes
        <4> QED BY <3>1, <3>2, <4>1, <4>2, CountReject
      <3> QED BY <2>1, <3>3, <3>4
    <2>2. CASE SpawnLoader(g) \/ CheckLoad(g) \/ Acquire(g) \/ QueueLoaded(g)
      BY <2>2 DEF SpawnLoader, CheckLoad, Acquire, QueueLoaded, LoaderVars,
                  callerVars, statusVars, TypeInv, Counts
    <2> QED BY <1>5, <2>1, <2>2 DEF Loader
  <1>6. ASSUME NEW s \in StreamGens, Starter(s) PROVE Counts'
    <2>1. UNCHANGED <<config, upc, given, changes, sources, wanted, loadFailed>>
      BY <1>6 DEF Starter, SpawnStarter, StartStream, StartFails, StartAgain,
                  QueueStream, StarterVars, callerVars
    <2>2. failures' \in {failures, failures + 1}
      BY <1>6 DEF Starter, SpawnStarter, StartStream, StartFails, StartAgain,
                  QueueStream
    <2> QED BY <2>1, <2>2, CountTypes DEF TypeInv, Counts
  <1>7. CASE Refuse
    <2>1. todo # <<>> /\ Head(todo).kind = "settings"
      BY <1>7 DEF Refuse, Ready, TypeInv, Phases, InHand
    <2>2. gen \in SettingsGens /\ gen \in 1 .. Len(changes)
      BY <2>1, GenType
    <2>3. /\ Reject(changes[gen], gen, FALSE) /\ failures' = failures + 1
          /\ UNCHANGED <<config, upc, given, changes, sources, wanted>>
      BY <1>7 DEF Refuse, callerVars
    <2>4. failures' >= failures + (IF FALSE THEN 1 ELSE 0) /\ failures' \in Nat
      BY <2>3, CountTypes
    <2> QED BY <2>2, <2>3, <2>4, CountReject
  <1>8. CASE Install BY <1>8, CountInstall
  <1>9. CASE \/ Prepared \/ TakeQueue \/ EndRound \/ FrameDone \/ ApplyIdentity
             \/ CheckStream \/ SwapStream \/ CheckSettings \/ LoadFirst
             \/ Build \/ Reconfigure \/ LoopEnds \/ Die \/ Cleanup
    BY <1>9 DEF Prepared, TakeQueue, EndRound, FrameDone, ApplyIdentity,
                CheckStream, SwapStream, CheckSettings, LoadFirst, Build,
                Reconfigure, LoopEnds, Die, Leave, Cleanup, FixedVars,
                callerVars, TypeInv, Counts
  <1>10. CASE UNCHANGED vars
    BY <1>10 DEF vars, callerVars, TypeInv, Counts
  <1> QED
    BY <1>1, <1>2, <1>3, <1>4, <1>5, <1>6, <1>7, <1>8, <1>9, <1>10
       DEF Next, Caller, Worker

-----------------------------------------------------------------------------
(* What each phase of the worker thread has in hand.                       *)

\* Only the worker thread takes changes from the queue and moves on.
LEMMA OthersLeaveThread ==
    ASSUME \/ \E p \in Positions : Update(p)
           \/ Caller \/ Stop
           \/ \E g \in SettingsGens : Loader(g)
           \/ \E s \in StreamGens : Starter(s)
    PROVE  UNCHANGED <<wpc, todo, named>> /\ (stopping => stopping')
  <1>1. ASSUME NEW p \in Positions, Update(p)
        PROVE  UNCHANGED <<wpc, todo, named>> /\ (stopping => stopping')
    BY <1>1 DEF Update, threadVars
  <1>2. CASE Caller
    <2>1. CASE Ignore BY <2>1 DEF Ignore, threadVars
    <2>2. CASE Take BY <2>2 DEF Take, threadVars
    <2>3. CASE RequestInvalid BY <2>3 DEF RequestInvalid, threadVars
    <2>4. CASE RequestSettings BY <2>4 DEF RequestSettings, threadVars
    <2> QED BY <1>2, <2>1, <2>2, <2>3, <2>4 DEF Caller
  <1>3. CASE Stop BY <1>3 DEF Stop, threadVars
  <1>4. ASSUME NEW g \in SettingsGens, Loader(g)
        PROVE  UNCHANGED <<wpc, todo, named>> /\ (stopping => stopping')
    <2>1. UNCHANGED LoaderVars
      BY <1>4 DEF Loader, SpawnLoader, CheckLoad, CheckInvalid, Acquire,
                  AcquireFails, QueueLoaded
    <2> QED BY <2>1 DEF LoaderVars, threadVars
  <1>5. ASSUME NEW s \in StreamGens, Starter(s)
        PROVE  UNCHANGED <<wpc, todo, named>> /\ (stopping => stopping')
    <2>1. UNCHANGED StarterVars
      BY <1>5 DEF Starter, SpawnStarter, StartStream, StartFails, StartAgain,
                  QueueStream
    <2> QED BY <2>1 DEF StarterVars, threadVars
  <1> QED BY <1>1, <1>2, <1>3, <1>4, <1>5

LEMMA InHandStep == TypeInv /\ [Next]_vars => InHand'
  <1> SUFFICES ASSUME TypeInv, [Next]_vars PROVE InHand'
    OBVIOUS
  <1>1. InHand
    BY DEF TypeInv, Phases
  <1>2. CASE UNCHANGED <<wpc, todo, named>> /\ (stopping => stopping')
    BY <1>1, <1>2 DEF InHand, Unqueued
  <1>3. CASE UNCHANGED vars
    BY <1>2, <1>3 DEF vars, threadVars
  <1>4. CASE Prepared
    BY <1>1, <1>4 DEF Prepared, InHand, Unqueued
  <1>5. CASE TakeQueue
    BY <1>1, <1>5 DEF TakeQueue, InHand, Unqueued
  <1>6. CASE EndRound
    BY <1>1, <1>6 DEF EndRound, InHand, Unqueued
  <1>7. CASE FrameDone
    BY <1>2, <1>7 DEF FrameDone, threadVars
  <1>8. CASE ApplyIdentity
    BY <1>8 DEF ApplyIdentity, InHand, Unqueued
  <1>9. CASE CheckStream
    BY <1>9 DEF CheckStream, InHand, Unqueued
  <1>10. CASE SwapStream
    BY <1>10 DEF SwapStream, InHand, Unqueued
  <1>11. CASE CheckSettings
    BY <1>11 DEF CheckSettings, InHand, Unqueued
  <1>12. CASE LoadFirst
    BY <1>12 DEF LoadFirst, InHand, Unqueued
  <1>13. CASE Refuse
    BY <1>13 DEF Refuse, InHand, Unqueued
  <1>14. CASE Build
    BY <1>1, <1>14 DEF Build, Ready, InHand, Unqueued
  <1>15. CASE Install
    BY <1>15 DEF Install, InHand, Unqueued
  <1>16. CASE Reconfigure
    BY <1>16 DEF Reconfigure, InHand, Unqueued
  <1>17. CASE LoopEnds \/ Die
    BY <1>17 DEF LoopEnds, Die, Leave, InHand, Unqueued
  <1>18. CASE Cleanup
    BY <1>1, <1>18 DEF Cleanup, InHand, Unqueued
  <1> QED
    BY <1>2, <1>3, <1>4, <1>5, <1>6, <1>7, <1>8, <1>9, <1>10, <1>11, <1>12,
       <1>13, <1>14, <1>15, <1>16, <1>17, <1>18, OthersLeaveThread
       DEF Next, Worker

-----------------------------------------------------------------------------
(* Every generation in use was taken.                                      *)

\* A step that takes no generation only passes them on.
LEMMA GensKept ==
    ASSUME TypeInv, UNCHANGED <<changes, sources>>,
           \A g \in SettingsIn(todo') \cup SettingsIn(queue') :
               g \in SettingsIn(todo) \cup SettingsIn(queue) \/ g \in 1 .. Len(changes),
           \A g \in SettingsGens : loaders'[g] # "none" =>
               loaders[g] # "none" \/ g \in 1 .. Len(changes),
           \A s \in StreamGens : starters'[s] # "none" => starters[s] # "none"
    PROVE  GensTaken'
  <1>1. GensTaken /\ Len(changes) \in Nat
    BY CountTypes DEF TypeInv, Phases
  <1>2. \A g \in SettingsIn(todo') \cup SettingsIn(queue') : g <= Len(changes)
    BY <1>1 DEF GensTaken
  <1>3. \A g \in SettingsGens : loaders'[g] # "none" => g <= Len(changes)
    BY <1>1 DEF GensTaken
  <1>4. \A s \in StreamGens : starters'[s] # "none" => s <= Len(sources)
    BY <1>1 DEF GensTaken
  <1> QED BY <1>2, <1>3, <1>4 DEF GensTaken

LEMMA TakeParts ==
    ASSUME TypeInv, Take
    PROVE  /\ UNCHANGED <<changes, todo, wpc, stopping, loaders, held, live,
                          detector, stream>>
           /\ SettingsIn(queue') = SettingsIn(queue) /\ LoadedIn(queue') = LoadedIn(queue)
           /\ StreamsIn(queue') = StreamsIn(queue)
           /\ Distinct(queue) => Distinct(queue')
           /\ queue' \in Seq(Change)
           /\ \/ UNCHANGED <<sources, starters>>
              \/ /\ Len(sources') = Len(sources) + 1 /\ sources' \in Seq(Streams)
                 /\ starters' = [starters EXCEPT ![Len(sources) + 1] = "spawn"]
  <1>1. UNCHANGED <<changes, todo, wpc, stopping, loaders, held, live, detector, stream>>
    BY DEF Take, threadVars, pipelineVars
  <1>2. \/ queue' = queue
        \/ queue' = Append(queue, [kind |-> "identity"])
    BY DEF Take
  <1>3. queue \in Seq(Change) /\ [kind |-> "identity"] \in Change
    BY ChangeTypes DEF TypeInv, TypeOK
  <1>4. /\ SettingsIn(queue') = SettingsIn(queue) /\ LoadedIn(queue') = LoadedIn(queue)
        /\ StreamsIn(queue') = StreamsIn(queue)
    BY <1>2, <1>3, AppendGens DEF LoadedOf, SettingsOfChange, StreamOf
  <1>5. Distinct(queue) => Distinct(queue')
    BY <1>2, <1>3, AppendDistinct
  <1>6. queue' \in Seq(Change)
    BY <1>2, <1>3, AppendAt
  <1>7. \/ UNCHANGED <<sources, starters>>
        \/ /\ Len(sources') = Len(sources) + 1 /\ sources' \in Seq(Streams)
           /\ starters' = [starters EXCEPT ![Len(sources) + 1] = "spawn"]
    <2>1. CASE UNCHANGED <<sources, starters>> BY <2>1
    <2>2. CASE /\ sources' = Append(sources, Script[given].stream)
               /\ starters' = [starters EXCEPT ![Len(sources')] = "spawn"]
      <3>1. Script[given].stream \in Streams
        BY ConfigAt DEF TypeInv, TypeOK
      <3>2. Len(sources') = Len(sources) + 1 /\ sources' \in Seq(Streams)
        BY <2>2, <3>1, CountTypes, AppendAt
      <3> QED BY <2>2, <3>2
    <2> QED BY <2>1, <2>2 DEF Take
  <1> QED BY <1>1, <1>4, <1>5, <1>6, <1>7

\* A request takes the next generation, for a loader or for the queue.
LEMMA RequestParts ==
    ASSUME TypeInv, RequestSettings
    PROVE  /\ UNCHANGED <<sources, todo, wpc, stopping, starters, held, live,
                          detector, stream>>
           /\ Len(changes') = Len(changes) + 1 /\ changes' \in Seq(Positions)
           /\ \/ /\ queue' = queue
                 /\ loaders' = [loaders EXCEPT ![Len(changes) + 1] = "spawn"]
              \/ /\ loaders' = loaders
                 /\ queue' = Append(queue, SettingsChange(Len(changes) + 1, FALSE))
  <1>1. UNCHANGED <<sources, todo, wpc, stopping, starters, held, live, detector, stream>>
    BY DEF RequestSettings, threadVars, pipelineVars
  <1>2. Len(changes') = Len(changes) + 1 /\ changes' \in Seq(Positions)
    <2>1. changes' = Append(changes, given) BY DEF RequestSettings
    <2>2. given \in Positions BY DEF TypeInv, TypeOK
    <2> QED BY <2>1, <2>2, CountTypes, AppendAt
  <1>3. \/ /\ queue' = queue
           /\ loaders' = [loaders EXCEPT ![Len(changes')] = "spawn"]
        \/ /\ loaders' = loaders
           /\ queue' = Append(queue, SettingsChange(Len(changes'), FALSE))
    BY DEF RequestSettings
  <1> QED BY <1>1, <1>2, <1>3

\* The next generation is within the types, thanks to Counts'.
LEMMA NextGen ==
    ASSUME TypeInv, Counts', RequestSettings
    PROVE  Len(changes) + 1 \in SettingsGens
  <1>1. Len(changes') = Len(changes) + 1 BY RequestParts
  <1>2. config' = config /\ failures' = failures
    BY DEF RequestSettings
  <1>3. IsFiniteSet(loadFailed') /\ Cardinality(loadFailed') \in Nat
    BY FS_CardinalityType DEF Counts
  <1>4. Len(changes') <= Len(Script) + MaxFailures
    <2>1. PICK a \in {0, 1} : a = IF upc' = "request" THEN 1 ELSE 0
      OBVIOUS
    <2>2. Len(changes') + a + Cardinality(loadFailed') <= config' + failures'
      BY <2>1 DEF Counts
    <2>3. a \in Nat OBVIOUS
    <2>4. Len(changes) + 1 + a + Cardinality(loadFailed') <= config + failures
      BY <1>1, <1>2, <2>2
    <2>5. Len(changes) + 1 <= config + failures
      BY <1>3, <2>3, <2>4, CountTypes
    <2> QED BY <1>1, <2>5, CountTypes
  <1> QED BY <1>1, <1>4, CountTypes, SettingsGenRange

LEMMA TakeGens ==
    ASSUME TypeInv, Take
    PROVE  GensTaken'
  <1>1. GensTaken BY DEF TypeInv, Phases
  <1>2. SettingsIn(todo') \cup SettingsIn(queue') = SettingsIn(todo) \cup SettingsIn(queue)
    BY TakeParts
  <1>3. \A s \in StreamGens : starters'[s] # "none" => s <= Len(sources')
    <2>1. CASE UNCHANGED <<sources, starters>>
      BY <1>1, <2>1 DEF GensTaken
    <2>2. CASE /\ Len(sources') = Len(sources) + 1
               /\ starters' = [starters EXCEPT ![Len(sources) + 1] = "spawn"]
      <3>1. ASSUME NEW s \in StreamGens, starters'[s] # "none" PROVE s <= Len(sources')
        <4>1. s = Len(sources) + 1 \/ starters[s] # "none"
          BY <2>2, <3>1 DEF TypeInv, TypeOK
        <4>2. s = Len(sources) + 1 \/ s <= Len(sources)
          BY <1>1, <4>1 DEF GensTaken
        <4> QED BY <2>2, <4>2, CountTypes, SettingsGenRange
      <3> QED BY <3>1
    <2> QED BY <2>1, <2>2, TakeParts
  <1>4. UNCHANGED <<changes, loaders>> BY TakeParts
  <1> QED BY <1>1, <1>2, <1>3, <1>4 DEF GensTaken

LEMMA RequestGens ==
    ASSUME TypeInv, Counts', RequestSettings
    PROVE  GensTaken'
  <1> DEFINE n == Len(changes)
  <1>1. GensTaken /\ n \in Nat BY CountTypes DEF TypeInv, Phases
  <1>2. Len(changes') = n + 1 /\ UNCHANGED <<sources, todo, starters>>
    BY RequestParts
  <1>3. todo \in Seq(Change) /\ queue \in Seq(Change)
    BY DEF TypeInv, TypeOK
  <1>4. \A g \in SettingsIn(todo) \cup SettingsIn(queue) : g \in Nat /\ g <= n
    BY <1>1, <1>3, LoadedAreSettings, SettingsGenRange DEF GensTaken
  <1>5. \A g \in SettingsIn(todo) \cup SettingsIn(queue) : g <= n + 1
    BY <1>1, <1>4
  <1>6. \A g \in SettingsGens : loaders[g] # "none" => g <= n + 1
    BY <1>1, SettingsGenRange DEF GensTaken
  <1>7. \A s \in StreamGens : starters'[s] # "none" => s <= Len(sources')
    BY <1>1, <1>2 DEF GensTaken
  <1> HIDE DEF n
  <1>8. CASE queue' = queue /\ loaders' = [loaders EXCEPT ![n + 1] = "spawn"]
    <2>1. \A g \in SettingsGens : loaders'[g] # "none" => g = n + 1 \/ loaders[g] # "none"
      BY <1>8 DEF TypeInv, TypeOK
    <2>2. \A g \in SettingsGens : loaders'[g] # "none" => g <= n + 1
      BY <1>1, <1>6, <2>1
    <2> QED BY <1>2, <1>5, <1>7, <1>8, <2>2 DEF GensTaken
  <1>9. CASE loaders' = loaders /\ queue' = Append(queue, SettingsChange(n + 1, FALSE))
    <2>1. SettingsIn(queue') = SettingsIn(queue) \cup {n + 1}
      <3>1. SettingsChange(n + 1, FALSE) \in Change
        BY NextGen, ChangeTypes DEF n
      <3> QED BY <1>3, <1>9, <3>1, AppendGens DEF SettingsOfChange, SettingsChange
    <2>2. \A g \in SettingsIn(todo) \cup SettingsIn(queue') : g <= n + 1
      BY <1>1, <1>5, <2>1
    <2> QED BY <1>2, <1>6, <1>7, <1>9, <2>2 DEF GensTaken
  <1> QED BY <1>8, <1>9, RequestParts DEF n

\* A loaded detector, or a started stream, goes into the queue of a worker that
\* is not stopping, or is given back.
LEMMA QueueLoadedParts ==
    ASSUME TypeInv, NEW g \in SettingsGens, QueueLoaded(g)
    PROVE  /\ UNCHANGED <<changes, sources, todo, wpc, stopping, starters, live,
                          detector, stream>>
           /\ loaders[g] = "queue" /\ loaders' = [loaders EXCEPT ![g] = "done"]
           /\ g \in 1 .. Len(changes)
           /\ \/ /\ ~stopping /\ held' = held /\ SettingsChange(g, TRUE) \in Change
                 /\ queue' = Append(queue, SettingsChange(g, TRUE))
                 /\ SettingsIn(queue') = SettingsIn(queue) \cup {g}
                 /\ LoadedIn(queue') = LoadedIn(queue) \cup {g}
                 /\ StreamsIn(queue') = StreamsIn(queue)
              \/ held' = held \ {g} /\ queue' = queue
  <1>1. /\ UNCHANGED <<changes, sources, todo, wpc, stopping, starters, live,
                       detector, stream>>
        /\ loaders[g] = "queue" /\ loaders' = [loaders EXCEPT ![g] = "done"]
    BY DEF QueueLoaded, LoaderVars, threadVars, pipelineVars
  <1>2. g <= Len(changes)
    BY <1>1 DEF TypeInv, Phases, GensTaken
  <1>3. g \in 1 .. Len(changes)
    BY <1>2, CountTypes, SettingsGenRange
  <1>4. SettingsChange(g, TRUE) \in Change /\ queue \in Seq(Change)
    BY ChangeTypes DEF TypeInv, TypeOK
  <1>5. CASE Current(g)
    <2>1. ~stopping /\ held' = held /\ queue' = Append(queue, SettingsChange(g, TRUE))
      BY <1>5 DEF QueueLoaded, Current
    <2>2. /\ SettingsIn(queue') = SettingsIn(queue) \cup {g}
          /\ LoadedIn(queue') = LoadedIn(queue) \cup {g}
          /\ StreamsIn(queue') = StreamsIn(queue)
      BY <1>4, <2>1, AppendGens
         DEF LoadedOf, SettingsOfChange, StreamOf, SettingsChange
    <2> QED BY <1>1, <1>3, <1>4, <2>1, <2>2
  <1>6. CASE ~Current(g)
    BY <1>1, <1>3, <1>6 DEF QueueLoaded
  <1> QED BY <1>5, <1>6

LEMMA QueueStreamParts ==
    ASSUME TypeInv, NEW s \in StreamGens, QueueStream(s)
    PROVE  /\ UNCHANGED <<changes, sources, todo, wpc, stopping, loaders, held,
                          detector, stream>>
           /\ starters[s] = "queue" /\ starters' = [starters EXCEPT ![s] = "done"]
           /\ \/ /\ ~stopping /\ live' = live
                 /\ queue' = Append(queue, [kind |-> "stream", gen |-> s])
                 /\ SettingsIn(queue') = SettingsIn(queue)
                 /\ LoadedIn(queue') = LoadedIn(queue)
                 /\ StreamsIn(queue') = StreamsIn(queue) \cup {s}
              \/ live' = live \ {s} /\ queue' = queue
  <1>1. /\ UNCHANGED <<changes, sources, todo, wpc, stopping, loaders, held,
                       detector, stream>>
        /\ starters[s] = "queue" /\ starters' = [starters EXCEPT ![s] = "done"]
    BY DEF QueueStream, StarterVars, threadVars, pipelineVars
  <1>2. [kind |-> "stream", gen |-> s] \in Change /\ queue \in Seq(Change)
    BY ChangeTypes DEF TypeInv, TypeOK
  <1>3. CASE CurrentStream(s)
    <2>1. /\ ~stopping /\ live' = live
          /\ queue' = Append(queue, [kind |-> "stream", gen |-> s])
      BY <1>3 DEF QueueStream, CurrentStream
    <2>2. /\ SettingsIn(queue') = SettingsIn(queue)
          /\ LoadedIn(queue') = LoadedIn(queue)
          /\ StreamsIn(queue') = StreamsIn(queue) \cup {s}
      BY <1>2, <2>1, AppendGens DEF LoadedOf, SettingsOfChange, StreamOf
    <2> QED BY <1>1, <2>1, <2>2
  <1>4. CASE ~CurrentStream(s)
    BY <1>1, <1>4 DEF QueueStream
  <1> QED BY <1>3, <1>4

\* A change the worker thread is done with.
LEMMA TodoTail ==
    ASSUME TypeInv, todo # <<>>
    PROVE  /\ Tail(todo) \in Seq(Change)
           /\ SettingsIn(Tail(todo)) \subseteq SettingsIn(todo)
  <1>1. todo \in Seq(Change) BY DEF TypeInv, TypeOK
  <1> QED BY <1>1, TailAt, TailGens

\* The worker thread passes on or drops what it has in hand.
LEMMA WorkerHands ==
    ASSUME TypeInv, Worker \/ Die
    PROVE  /\ changes' = changes
           /\ \/ UNCHANGED <<todo, queue>>
              \/ todo' = queue /\ queue' = <<>> /\ todo = <<>>
              \/ todo # <<>> /\ todo' = Tail(todo) /\ queue' = queue
              \/ todo' = <<>> /\ queue' = queue
  <1>1. CASE Prepared \/ EndRound \/ FrameDone \/ Build
    BY <1>1 DEF Prepared, EndRound, FrameDone, Build, FixedVars, threadVars
  <1>2. CASE TakeQueue \/ LoopEnds \/ Die
    <2>1. todo = <<>>
      BY <1>2 DEF TakeQueue, LoopEnds, Die, Leave, TypeInv, Phases, InHand
    <2> QED BY <1>2, <2>1 DEF TakeQueue, LoopEnds, Die, Leave, FixedVars
  <1>3. CASE ApplyIdentity \/ CheckStream \/ CheckSettings
    BY <1>3 DEF ApplyIdentity, CheckStream, CheckSettings, FixedVars
  <1>4. CASE SwapStream
    BY <1>4 DEF SwapStream, FixedVars, TypeInv, Phases, InHand
  <1>5. CASE LoadFirst \/ Refuse \/ Install \/ Reconfigure
    <2>1. todo # <<>>
      BY <1>5 DEF LoadFirst, Refuse, Install, Reconfigure, Ready, TypeInv, Phases, InHand
    <2> QED BY <1>5, <2>1 DEF LoadFirst, Refuse, Install, Reconfigure, FixedVars
  <1>6. CASE Cleanup
    BY <1>6 DEF Cleanup, FixedVars
  <1> QED BY <1>1, <1>2, <1>3, <1>4, <1>5, <1>6 DEF Worker

LEMMA HandsGens ==
    ASSUME TypeInv, Worker \/ Die
    PROVE  SettingsIn(todo') \cup SettingsIn(queue')
             \subseteq SettingsIn(todo) \cup SettingsIn(queue)
  <1>1. CASE UNCHANGED <<todo, queue>> BY <1>1
  <1>2. CASE todo' = queue /\ queue' = <<>> BY <1>2, EmptyGens
  <1>3. CASE todo # <<>> /\ todo' = Tail(todo) /\ queue' = queue
    BY <1>3, TodoTail
  <1>4. CASE todo' = <<>> /\ queue' = queue BY <1>4, EmptyGens
  <1> QED BY <1>1, <1>2, <1>3, <1>4, WorkerHands

LEMMA InstallParts ==
    ASSUME TypeInv, Install
    PROVE  /\ UNCHANGED <<loaders, live, stream, stopping>>
           /\ \/ UNCHANGED <<sources, starters>>
              \/ /\ Len(sources) = 0 /\ Len(sources') = 1 /\ sources' \in Seq(Streams)
                 /\ starters' = [starters EXCEPT ![1] = "spawn"]
  <1>1. UNCHANGED <<loaders, live, stream, stopping>>
    BY DEF Install
  <1>2. CASE wanted
    BY <1>1, <1>2 DEF Install
  <1>3. CASE ~wanted
    <2>1. /\ sources' = Append(sources, Script[config].stream)
          /\ starters' = [starters EXCEPT ![Len(sources')] = "spawn"]
      BY <1>3 DEF Install
    <2>2. Script[config].stream \in Streams
      BY ConfigAt DEF TypeInv, TypeOK
    <2>3. Len(sources) = 0
      BY <1>3 DEF TypeInv, Counts
    <2>4. Len(sources') = 1 /\ sources' \in Seq(Streams)
      BY <2>1, <2>2, <2>3, CountTypes, AppendAt
    <2> QED BY <1>1, <2>1, <2>3, <2>4
  <1> QED BY <1>2, <1>3

LEMMA GensTakenStep == TypeInv /\ [Next]_vars /\ Counts' => GensTaken'
  <1> SUFFICES ASSUME TypeInv, [Next]_vars, Counts' PROVE GensTaken'
    OBVIOUS
  <1>1. CASE UNCHANGED <<changes, sources, todo, queue, loaders, starters>>
    BY <1>1, GensKept
  <1>2. ASSUME NEW p \in Positions, Update(p) PROVE GensTaken'
    BY <1>1, <1>2 DEF Update, threadVars
  <1>3. CASE Ignore \/ RequestInvalid \/ Stop
    BY <1>1, <1>3 DEF Ignore, RequestInvalid, Stop, threadVars
  <1>4. CASE Take BY <1>4, TakeGens
  <1>5. CASE RequestSettings BY <1>5, RequestGens
  <1>6. ASSUME NEW g \in SettingsGens, Loader(g) PROVE GensTaken'
    <2>1. CASE QueueLoaded(g)
      <3>1. \A h \in SettingsGens : loaders'[h] # "none" => loaders[h] # "none"
        BY <2>1, QueueLoadedParts DEF TypeInv, TypeOK
      <3>2. \A h \in SettingsIn(todo') \cup SettingsIn(queue') :
               h \in SettingsIn(todo) \cup SettingsIn(queue) \/ h \in 1 .. Len(changes)
        BY <2>1, QueueLoadedParts
      <3>3. UNCHANGED <<changes, sources, starters>>
        BY <2>1, QueueLoadedParts
      <3> QED BY <3>1, <3>2, <3>3, GensKept
    <2>2. CASE \/ SpawnLoader(g) \/ CheckLoad(g) \/ CheckInvalid(g)
               \/ Acquire(g) \/ AcquireFails(g)
      <3>1. UNCHANGED <<changes, sources, todo, queue, starters>>
        BY <2>2 DEF SpawnLoader, CheckLoad, CheckInvalid, Acquire, AcquireFails,
                    LoaderVars, threadVars
      <3>2. loaders[g] # "none" /\ \E x : loaders' = [loaders EXCEPT ![g] = x]
        BY <2>2 DEF SpawnLoader, CheckLoad, CheckInvalid, Acquire, AcquireFails
      <3>3. \A h \in SettingsGens : loaders'[h] # "none" => loaders[h] # "none"
        BY <3>2 DEF TypeInv, TypeOK
      <3> QED BY <3>1, <3>3, GensKept
    <2> QED BY <1>6, <2>1, <2>2 DEF Loader
  <1>7. ASSUME NEW s \in StreamGens, Starter(s) PROVE GensTaken'
    <2>1. UNCHANGED <<changes, sources, todo, loaders>>
      BY <1>7 DEF Starter, SpawnStarter, StartStream, StartFails, StartAgain,
                  QueueStream, StarterVars, threadVars
    <2>2. starters[s] # "none" /\ \E x : starters' = [starters EXCEPT ![s] = x]
      BY <1>7 DEF Starter, SpawnStarter, StartStream, StartFails, StartAgain,
                  QueueStream
    <2>3. \A r \in StreamGens : starters'[r] # "none" => starters[r] # "none"
      BY <2>2 DEF TypeInv, TypeOK
    <2>4. SettingsIn(queue') = SettingsIn(queue)
      <3>1. CASE QueueStream(s) BY <3>1, QueueStreamParts
      <3>2. CASE SpawnStarter(s) \/ StartStream(s) \/ StartFails(s) \/ StartAgain(s)
        BY <3>2 DEF SpawnStarter, StartStream, StartFails, StartAgain
      <3> QED BY <1>7, <3>1, <3>2 DEF Starter
    <2> QED BY <2>1, <2>3, <2>4, GensKept
  <1>8. CASE Install
    <2>1. CASE UNCHANGED <<sources, starters>>
      BY <1>8, <2>1, InstallParts, WorkerHands, HandsGens, GensKept DEF Worker
    <2>2. CASE /\ Len(sources) = 0 /\ Len(sources') = 1
               /\ starters' = [starters EXCEPT ![1] = "spawn"]
      <3>1. GensTaken /\ UNCHANGED <<changes, loaders>>
        BY <1>8, InstallParts, WorkerHands DEF Worker, TypeInv, Phases
      <3>2. ASSUME NEW s \in StreamGens, starters'[s] # "none" PROVE s <= Len(sources')
        <4>1. s = 1 \/ starters[s] # "none"
          BY <2>2, <3>2 DEF TypeInv, TypeOK
        <4>2. s = 1 \/ s <= 0
          BY <2>2, <3>1, <4>1 DEF GensTaken
        <4> QED BY <2>2, <4>2, SettingsGenRange
      <3>3. \A g \in SettingsIn(todo') \cup SettingsIn(queue') : g <= Len(changes')
        BY <1>8, <3>1, HandsGens DEF GensTaken, Worker
      <3>4. \A g \in SettingsGens : loaders'[g] # "none" => g <= Len(changes')
        BY <3>1 DEF GensTaken
      <3> QED BY <3>2, <3>3, <3>4 DEF GensTaken
    <2> QED BY <1>8, <2>1, <2>2, InstallParts
  <1>9. CASE LoadFirst
    <2>1. gen \in SettingsGens /\ gen \in 1 .. Len(changes)
      BY <1>9, GenType DEF LoadFirst, TypeInv, Phases, InHand
    <2>2. UNCHANGED <<sources, starters>> /\ loaders' = [loaders EXCEPT ![gen] = "spawn"]
      BY <1>9 DEF LoadFirst
    <2>3. \A h \in SettingsGens : loaders'[h] # "none" => loaders[h] # "none" \/ h \in 1 .. Len(changes)
      BY <2>1, <2>2 DEF TypeInv, TypeOK
    <2> QED BY <1>9, <2>2, <2>3, WorkerHands, HandsGens, GensKept DEF Worker
  <1>10. CASE \/ Prepared \/ TakeQueue \/ EndRound \/ FrameDone \/ ApplyIdentity
              \/ CheckStream \/ SwapStream \/ CheckSettings \/ Refuse
              \/ Build \/ Reconfigure \/ LoopEnds \/ Cleanup \/ Die
    <2>1. UNCHANGED <<sources, loaders, starters>>
      BY <1>10 DEF Prepared, TakeQueue, EndRound, FrameDone, ApplyIdentity,
                   CheckStream, SwapStream, CheckSettings, Refuse, Build,
                   Reconfigure, LoopEnds, Cleanup, Die, Leave
    <2>2. Worker \/ Die
      BY <1>10 DEF Worker
    <2> QED BY <2>1, <2>2, WorkerHands, HandsGens, GensKept
  <1>11. CASE UNCHANGED vars
    BY <1>1, <1>11 DEF vars, threadVars
  <1> QED
    BY <1>2, <1>3, <1>4, <1>5, <1>6, <1>7, <1>8, <1>9, <1>10, <1>11
       DEF Next, Caller, Worker

-----------------------------------------------------------------------------
(* The types hold in every state.                                          *)

\* Every variable in its type, one step of each action.
LEMMA TypeCaller ==
    ASSUME TypeInv, Counts',
           (\E p \in Positions : Update(p)) \/ Caller \/ Stop
    PROVE  TypeOK'
  <1>1. TypeOK BY DEF TypeInv
  <1>2. ASSUME NEW p \in Positions, Update(p) PROVE TypeOK'
    <2>1. loadFailed' \in SUBSET Nat /\ upc' \in {"request", "take"}
      BY <1>1, <1>2 DEF Update, TypeOK
    <2> QED BY <1>1, <1>2, <2>1 DEF Update, TypeOK, pipelineVars, threadVars
  <1>3. CASE Ignore
    BY <1>1, <1>3 DEF Ignore, TypeOK, statusVars, pipelineVars, threadVars
  <1>4. CASE Take
    <2>1. config' \in Positions /\ upc' \in {"request", "idle"}
      BY <1>1, <1>4 DEF Take, TypeOK
    <2>2. queue' \in Seq(Change) /\ sources' \in Seq(Streams)
      BY <1>1, <1>4, TakeParts DEF TypeOK
    <2>3. Len(sources') <= Len(Script)
      <3>1. Len(sources') \in Nat /\ config' \in Nat /\ config' <= Len(Script)
        BY <2>1, <2>2, ConfigAt
      <3> QED BY <3>1, CountTypes DEF Counts
    <2>4. starters' \in [StreamGens -> {"none", "spawn", "start", "wait", "queue", "done"}]
      BY <1>1, <1>4 DEF Take, TypeOK
    <2> QED BY <1>1, <1>4, <2>1, <2>2, <2>3, <2>4
            DEF Take, TypeOK, statusVars, pipelineVars, threadVars
  <1>5. CASE RequestInvalid
    <2>1. Reject(given, 0, FALSE) /\ given \in Positions /\ IsFiniteSet(loadFailed)
      BY <1>1, <1>5 DEF RequestInvalid, TypeOK, TypeInv, Counts
    <2>2. /\ error' \in Nat /\ loadFailed' \in SUBSET Nat
          /\ settled' \in 0 .. Len(changes)
          /\ state' \in {"starting", "running", "error", "stopped"}
      BY <1>1, <2>1, RejectTypes
    <2> QED BY <1>1, <1>5, <2>2 DEF RequestInvalid, TypeOK, pipelineVars, threadVars
  <1>6. CASE RequestSettings
    <2>1. Len(changes') = Len(changes) + 1 /\ changes' \in Seq(Positions)
      BY <1>6, RequestParts
    <2>2. Len(changes') \in SettingsGens
      BY <1>6, <2>1, NextGen
    <2>3. settled' = settled /\ settled' \in 0 .. Len(changes')
      <3>1. settled' = settled BY <1>6 DEF RequestSettings, statusVars
      <3> QED BY <1>1, <2>1, <3>1, CountTypes DEF TypeOK
    <2>4. queue' \in Seq(Change)
      <3>1. SettingsChange(Len(changes) + 1, FALSE) \in Change
        BY <2>1, <2>2, ChangeTypes
      <3>2. queue \in Seq(Change) BY <1>1 DEF TypeOK
      <3>3. PICK c \in Change : c = SettingsChange(Len(changes) + 1, FALSE)
        BY <3>1
      <3>4. Append(queue, c) \in Seq(Change)
        BY <3>2, AppendAt
      <3>5. queue' = queue \/ queue' = Append(queue, c)
        BY <1>6, <3>3, RequestParts
      <3> QED BY <3>2, <3>4, <3>5
    <2>5. loaders' \in [SettingsGens -> {"none", "spawn", "check", "acquire", "queue", "done"}]
      BY <1>1, <1>6 DEF RequestSettings, TypeOK
    <2> QED BY <1>1, <1>6, <2>1, <2>2, <2>3, <2>4, <2>5
            DEF RequestSettings, TypeOK, statusVars, pipelineVars, threadVars
  <1>7. CASE Stop
    BY <1>1, <1>7 DEF Stop, TypeOK, statusVars, pipelineVars, threadVars
  <1> QED BY <1>2, <1>3, <1>4, <1>5, <1>6, <1>7 DEF Caller

LEMMA TypeLoader ==
    ASSUME TypeInv, NEW g \in SettingsGens, Loader(g)
    PROVE  TypeOK'
  <1>1. TypeOK BY DEF TypeInv
  <1>2. UNCHANGED LoaderVars
    BY DEF Loader, SpawnLoader, CheckLoad, CheckInvalid, Acquire, AcquireFails,
           QueueLoaded
  <1>3. loaders' \in [SettingsGens -> {"none", "spawn", "check", "acquire", "queue", "done"}]
    BY <1>1 DEF Loader, SpawnLoader, CheckLoad, CheckInvalid, Acquire,
                AcquireFails, QueueLoaded, TypeOK
  <1>4. held' \in SUBSET SettingsGens
    BY <1>1 DEF Loader, SpawnLoader, CheckLoad, CheckInvalid, Acquire,
                AcquireFails, QueueLoaded, TypeOK
  <1>5. queue' \in Seq(Change)
    <2>1. CASE QueueLoaded(g)
      <3>1. queue \in Seq(Change) BY <1>1 DEF TypeOK
      <3>2. /\ SettingsChange(g, TRUE) \in Change
            /\ queue' = Append(queue, SettingsChange(g, TRUE)) \/ queue' = queue
        BY <2>1, QueueLoadedParts, ChangeTypes
      <3> QED BY <3>1, <3>2, AppendAt
    <2>2. CASE ~QueueLoaded(g)
      <3>1. queue' = queue
        BY <2>2 DEF Loader, SpawnLoader, CheckLoad, CheckInvalid, Acquire, AcquireFails
      <3> QED BY <1>1, <3>1 DEF TypeOK
    <2> QED BY <2>1, <2>2
  <1>6. failures' \in 0 .. MaxFailures
    <2>1. failures' = failures \/ (failures < MaxFailures /\ failures' = failures + 1)
      BY DEF Loader, SpawnLoader, CheckLoad, CheckInvalid, Acquire, AcquireFails,
             QueueLoaded
    <2> QED BY <1>1, <2>1, BoundAssumption DEF TypeOK
  <1>7. /\ error' \in Nat /\ loadFailed' \in SUBSET Nat
        /\ settled' \in 0 .. Len(changes)
        /\ state' \in {"starting", "running", "error", "stopped"}
    <2>1. CASE CheckInvalid(g) \/ AcquireFails(g)
      <3>1. loaders[g] # "none"
        BY <2>1 DEF CheckInvalid, AcquireFails
      <3>2. g <= Len(changes)
        BY <3>1 DEF TypeInv, Phases, GensTaken
      <3>3. changes[g] \in Positions /\ g \in SettingsGens \cup {0}
        BY <3>2, CountTypes, SettingsGenRange
      <3>4. Reject(changes[g], g, FALSE) \/ Reject(changes[g], g, TRUE)
        BY <2>1 DEF CheckInvalid, AcquireFails
      <3>5. IsFiniteSet(loadFailed) BY DEF TypeInv, Counts
      <3> QED BY <1>1, <3>3, <3>4, <3>5, RejectTypes
    <2>2. CASE SpawnLoader(g) \/ CheckLoad(g) \/ Acquire(g) \/ QueueLoaded(g)
      <3>1. UNCHANGED statusVars
        BY <2>2 DEF SpawnLoader, CheckLoad, Acquire, QueueLoaded
      <3> QED BY <1>1, <3>1 DEF TypeOK, statusVars
    <2> QED BY <2>1, <2>2 DEF Loader
  <1> QED BY <1>1, <1>2, <1>3, <1>4, <1>5, <1>6, <1>7
          DEF TypeOK, LoaderVars, callerVars, pipelineVars, threadVars

LEMMA TypeStarter ==
    ASSUME TypeInv, NEW s \in StreamGens, Starter(s)
    PROVE  TypeOK'
  <1>1. TypeOK BY DEF TypeInv
  <1>2. UNCHANGED StarterVars
    BY DEF Starter, SpawnStarter, StartStream, StartFails, StartAgain, QueueStream
  <1>3. starters' \in [StreamGens -> {"none", "spawn", "start", "wait", "queue", "done"}]
    BY <1>1 DEF Starter, SpawnStarter, StartStream, StartFails, StartAgain,
                QueueStream, TypeOK
  <1>4. live' \in SUBSET StreamGens
    BY <1>1 DEF Starter, SpawnStarter, StartStream, StartFails, StartAgain,
                QueueStream, TypeOK
  <1>5. queue' \in Seq(Change)
    <2>1. CASE QueueStream(s)
      <3>1. [kind |-> "stream", gen |-> s] \in Change BY ChangeTypes
      <3>2. queue \in Seq(Change) BY <1>1 DEF TypeOK
      <3>3. queue' = Append(queue, [kind |-> "stream", gen |-> s]) \/ queue' = queue
        BY <2>1, QueueStreamParts
      <3> QED BY <3>1, <3>2, <3>3, AppendAt
    <2>2. CASE ~QueueStream(s)
      <3>1. queue' = queue
        BY <2>2 DEF Starter, SpawnStarter, StartStream, StartFails, StartAgain
      <3> QED BY <1>1, <3>1 DEF TypeOK
    <2> QED BY <2>1, <2>2
  <1>6. failures' \in 0 .. MaxFailures
    <2>1. failures' = failures \/ (failures < MaxFailures /\ failures' = failures + 1)
      BY DEF Starter, SpawnStarter, StartStream, StartFails, StartAgain, QueueStream
    <2> QED BY <1>1, <2>1, BoundAssumption DEF TypeOK
  <1> QED BY <1>1, <1>2, <1>3, <1>4, <1>5, <1>6
          DEF TypeOK, StarterVars, callerVars, pipelineVars, threadVars

\* `_applied` puts the change in hand into the pipeline.
LEMMA AppliedTypes ==
    ASSUME TypeInv, todo # <<>>, Head(todo).kind = "settings", Applied
    PROVE  /\ applied' \in Positions /\ settled' \in 0 .. Len(changes)
           /\ error' \in Nat /\ detector' \in SettingsGens \cup {0}
           /\ held' \in SUBSET SettingsGens
  <1>1. TypeOK BY DEF TypeInv
  <1>2. /\ gen \in SettingsGens /\ gen \in 1 .. Len(changes)
        /\ changes[gen] \in Positions
    BY GenType
  <1>3. applied' \in Positions
    BY <1>2 DEF Applied
  <1>4. settled' \in 0 .. Len(changes)
    <2>1. settled' \in {gen, settled} BY DEF Applied
    <2> QED BY <1>1, <1>2, <2>1, CountTypes DEF TypeOK
  <1>5. error' \in Nat
    BY <1>1 DEF Applied, TypeOK
  <1>6. detector' \in SettingsGens \cup {0} /\ held' \in SUBSET SettingsGens
    BY <1>1, <1>2 DEF Applied, TypeOK
  <1> QED BY <1>3, <1>4, <1>5, <1>6

LEMMA HandsTypes ==
    ASSUME TypeInv, Worker \/ Die
    PROVE  todo' \in Seq(Change) /\ queue' \in Seq(Change)
  <1>1. todo \in Seq(Change) /\ queue \in Seq(Change) /\ <<>> \in Seq(Change)
    BY DEF TypeInv, TypeOK
  <1>2. todo # <<>> => Tail(todo) \in Seq(Change)
    BY <1>1, TailAt
  <1> QED BY <1>1, <1>2, WorkerHands

LEMMA TypeWorker ==
    ASSUME TypeInv, Counts', Worker \/ Die
    PROVE  TypeOK'
  <1>1. TypeOK BY DEF TypeInv
  <1>2. todo' \in Seq(Change) /\ queue' \in Seq(Change)
    BY HandsTypes
  <1>3. CASE Prepared \/ TakeQueue \/ EndRound
    BY <1>1, <1>2, <1>3 DEF Prepared, TakeQueue, EndRound, FixedVars, callerVars,
                            pipelineVars, TypeOK
  <1>4. CASE FrameDone
    BY <1>1, <1>2, <1>4 DEF FrameDone, FixedVars, callerVars, pipelineVars,
                            threadVars, TypeOK
  <1>5. CASE ApplyIdentity \/ Build
    <2>1. Script[config].name \in Names BY <1>1, ConfigAt DEF TypeOK
    <2>2. label' \in Names /\ named' \in Names
      BY <1>1, <1>5, <2>1 DEF ApplyIdentity, Build, pipelineVars, TypeOK
    <2> QED BY <1>1, <1>2, <1>5, <2>2
            DEF ApplyIdentity, Build, FixedVars, callerVars, pipelineVars, TypeOK
  <1>6. CASE CheckStream
    BY <1>1, <1>2, <1>6 DEF CheckStream, FixedVars, callerVars, pipelineVars, TypeOK
  <1>7. CASE SwapStream
    <2>1. Head(todo).gen \in StreamGens
      BY <1>1, <1>7, StreamGenType DEF SwapStream, TypeInv, Phases, InHand
    <2> QED BY <1>1, <1>2, <1>7, <2>1
            DEF SwapStream, FixedVars, callerVars, pipelineVars, TypeOK
  <1>8. CASE CheckSettings
    BY <1>1, <1>2, <1>8 DEF CheckSettings, FixedVars, callerVars, pipelineVars, TypeOK
  <1>9. CASE LoadFirst
    BY <1>1, <1>2, <1>9 DEF LoadFirst, FixedVars, callerVars, pipelineVars, TypeOK
  <1>10. CASE Refuse
    <2>1. todo # <<>> /\ Head(todo).kind = "settings"
      BY <1>10 DEF Refuse, Ready, TypeInv, Phases, InHand
    <2>2. changes[gen] \in Positions /\ gen \in SettingsGens \cup {0}
      BY <2>1, GenType
    <2>3. Reject(changes[gen], gen, FALSE) /\ IsFiniteSet(loadFailed)
      BY <1>10 DEF Refuse, TypeInv, Counts
    <2>4. /\ error' \in Nat /\ loadFailed' \in SUBSET Nat
          /\ settled' \in 0 .. Len(changes)
          /\ state' \in {"starting", "running", "error", "stopped"}
      BY <1>1, <2>2, <2>3, RejectTypes
    <2>5. failures' \in 0 .. MaxFailures
      <3>1. failures < MaxFailures /\ failures' = failures + 1 BY <1>10 DEF Refuse
      <3> QED BY <1>1, <3>1, BoundAssumption DEF TypeOK
    <2>6. held' \in SUBSET SettingsGens /\ wpc' = "apply"
      BY <1>1, <1>10 DEF Refuse, TypeOK
    <2> QED BY <1>1, <1>2, <1>10, <2>4, <2>5, <2>6
            DEF Refuse, callerVars, pipelineVars, TypeOK
  <1>11. CASE Install \/ Reconfigure
    <2>1. todo # <<>> /\ Head(todo).kind = "settings" /\ Applied
      BY <1>11 DEF Install, Reconfigure, Ready, TypeInv, Phases, InHand
    <2>2. /\ applied' \in Positions /\ settled' \in 0 .. Len(changes)
          /\ error' \in Nat /\ detector' \in SettingsGens \cup {0}
          /\ held' \in SUBSET SettingsGens
      BY <2>1, AppliedTypes
    <2>3. CASE Install
      <3>1. UNCHANGED <<FixedVars, stream, stopping, named, loaders, live>>
        BY <2>3 DEF Install
      <3>2. sources' \in Seq(Streams) /\ Len(sources') <= Len(Script)
        <4>1. sources' = sources \/ (sources' \in Seq(Streams) /\ Len(sources') = 1)
          BY <2>3, InstallParts
        <4>2. sources \in Seq(Streams) /\ Len(sources) <= Len(Script)
          BY <1>1 DEF TypeOK
        <4>3. Len(Script) \in Nat \ {0} BY SettingsGenRange
        <4>4. CASE sources' = sources BY <4>2, <4>4
        <4>5. CASE sources' \in Seq(Streams) /\ Len(sources') = 1 BY <4>3, <4>5
        <4> QED BY <4>1, <4>4, <4>5
      <3>3. starters' \in [StreamGens -> {"none", "spawn", "start", "wait", "queue", "done"}]
        BY <1>1, <2>3, InstallParts DEF TypeOK
      <3>4. /\ label' \in Names /\ wanted' \in BOOLEAN /\ wpc' = "apply"
            /\ state' \in {"starting", "running", "error", "stopped"}
        BY <1>1, <2>3 DEF Install, TypeOK
      <3> QED BY <1>1, <1>2, <2>2, <3>1, <3>2, <3>3, <3>4
              DEF FixedVars, callerVars, TypeOK
    <2>4. CASE Reconfigure
      BY <1>1, <1>2, <2>2, <2>4 DEF Reconfigure, FixedVars, callerVars, TypeOK
    <2> QED BY <1>11, <2>3, <2>4
  <1>12. CASE LoopEnds \/ Die
    BY <1>1, <1>2, <1>12 DEF LoopEnds, Die, Leave, FixedVars, callerVars,
                             pipelineVars, TypeOK
  <1>13. CASE Cleanup
    BY <1>1, <1>2, <1>13 DEF Cleanup, FixedVars, callerVars, pipelineVars, TypeOK
  <1> QED BY <1>3, <1>4, <1>5, <1>6, <1>7, <1>8, <1>9, <1>10, <1>11, <1>12, <1>13
          DEF Worker

LEMMA TypeStep == TypeInv /\ [Next]_vars => TypeInv'
  <1> SUFFICES ASSUME TypeInv, [Next]_vars PROVE TypeInv'
    OBVIOUS
  <1>1. Counts' BY CountStep
  <1>2. Phases' BY <1>1, InHandStep, GensTakenStep DEF Phases
  <1>3. TypeOK'
    <2>1. CASE UNCHANGED vars
      BY <2>1 DEF vars, callerVars, pipelineVars, threadVars, TypeInv, TypeOK
    <2>2. CASE Next
      BY <1>1, <2>2, TypeCaller, TypeLoader, TypeStarter, TypeWorker DEF Next
    <2> QED BY <2>1, <2>2
  <1> QED BY <1>1, <1>2, <1>3 DEF TypeInv

\* The types and the lengths of the generation counters hold in every state:
\* the generations never outgrow the configs given and the loads that failed.
THEOREM TypeCorrect == Spec => []TypeOK
  <1>1. Init => TypeInv BY TypeInit
  <1>2. TypeInv /\ [Next]_vars => TypeInv' BY TypeStep
  <1>3. TypeInv => TypeOK BY DEF TypeInv
  <1> QED BY <1>1, <1>2, <1>3, PTL DEF Spec

-----------------------------------------------------------------------------
(* Owners.                                                                 *)

\* The settings generations that wait for the thread, those of them that come
\* with a detector, and the streams that wait for it.
Requested == SettingsIn(todo) \cup SettingsIn(queue)
Loaded == LoadedIn(todo) \cup LoadedIn(queue)
Arrived == StreamsIn(todo) \cup StreamsIn(queue)

\* No two changes that wait are of the same generation.
NoneTwice ==
    /\ Distinct(todo) /\ Distinct(queue)
    /\ SettingsIn(todo) \cap SettingsIn(queue) = {}
    /\ StreamsIn(todo) \cap StreamsIn(queue) = {}

\* A detector has one owner: a change gets it from a loader that is done with
\* it, a change without one has no loader yet, and the pipeline's detector is of
\* a change that is gone.
DetectorOwners ==
    /\ held = (IF wpc = "stopped" THEN {} ELSE {detector} \ {0})
                \cup {g \in SettingsGens : loaders[g] = "queue"} \cup Loaded
    /\ \A g \in Loaded : loaders[g] = "done"
    /\ \A g \in Requested \ Loaded : loaders[g] = "none"
    /\ detector \notin Requested
    /\ detector # 0 => loaders[detector] = "done"
    /\ Unqueued => LoadedIn(queue) = {}

\* And so has a stream.
StreamOwners ==
    /\ live = (IF wpc = "stopped" THEN {} ELSE {stream} \ {0})
                \cup {s \in StreamGens : starters[s] = "queue"} \cup Arrived
    /\ \A s \in Arrived : starters[s] = "done"
    /\ stream \notin Arrived
    /\ stream # 0 => starters[stream] = "done"
    /\ Unqueued => StreamsIn(queue) = {}

OwnInv == TypeInv /\ NoneTwice /\ DetectorOwners /\ StreamOwners

LEMMA OwnedNothingLeaks == OwnInv => NothingLeaks
  <1> SUFFICES ASSUME OwnInv PROVE NothingLeaks
    OBVIOUS
  <1>1. held = DetectorsOwned
    BY DEF OwnInv, DetectorOwners, DetectorsOwned, Loaded
  <1>2. live = StreamsOwned
    BY DEF OwnInv, StreamOwners, StreamsOwned, Arrived
  <1> QED BY <1>1, <1>2 DEF NothingLeaks

LEMMA WaitingTypes ==
    ASSUME TypeInv
    PROVE  /\ Loaded \subseteq Requested /\ Requested \subseteq SettingsGens
           /\ Arrived \subseteq StreamGens
           /\ 0 \notin SettingsGens /\ 0 \notin StreamGens
           /\ \A g \in SettingsGens \cup StreamGens : g \in Nat \ {0}
  <1>1. todo \in Seq(Change) /\ queue \in Seq(Change)
    BY DEF TypeInv, TypeOK
  <1>2. Loaded \subseteq Requested /\ Requested \subseteq SettingsGens
    BY <1>1, LoadedAreSettings DEF Loaded, Requested
  <1>3. Arrived \subseteq StreamGens
    BY <1>1, LoadedAreSettings DEF Arrived
  <1> QED BY <1>2, <1>3, SettingsGenRange

LEMMA OwnInit == Init => OwnInv
  <1> SUFFICES ASSUME Init PROVE OwnInv
    OBVIOUS
  <1>1. TypeInv BY TypeInit
  <1>2. todo = <<>> /\ queue = <<>> BY DEF Init
  <1>3. Requested = {} /\ Loaded = {} /\ Arrived = {} /\ LoadedIn(queue) = {} /\ StreamsIn(queue) = {}
    BY <1>2, EmptyGens DEF Requested, Loaded, Arrived
  <1>4. NoneTwice BY <1>2, EmptyGens DEF NoneTwice
  <1>5. DetectorOwners
    BY <1>3 DEF Init, DetectorOwners
  <1>6. StreamOwners
    BY <1>3 DEF Init, StreamOwners
  <1> QED BY <1>1, <1>4, <1>5, <1>6 DEF OwnInv

\* The head of what is in hand is the only change of its generation.
LEMMA HeadGone ==
    ASSUME OwnInv, todo # <<>>, todo' = Tail(todo), queue' = queue
    PROVE  /\ NoneTwice'
           /\ Requested = Requested' \cup SettingsOfChange(Head(todo))
           /\ Loaded = Loaded' \cup LoadedOf(Head(todo))
           /\ Arrived = Arrived' \cup StreamOf(Head(todo))
           /\ Head(todo).kind = "settings" => gen \notin Requested'
           /\ Head(todo).kind = "stream" => Head(todo).gen \notin Arrived'
  <1>1. todo \in Seq(Change) /\ NoneTwice
    BY DEF OwnInv, TypeInv, TypeOK
  <1>2. /\ LoadedIn(todo) = LoadedIn(todo') \cup LoadedOf(Head(todo))
        /\ SettingsIn(todo) = SettingsIn(todo') \cup SettingsOfChange(Head(todo))
        /\ StreamsIn(todo) = StreamsIn(todo') \cup StreamOf(Head(todo))
    BY <1>1, TailGens
  <1>3. /\ Distinct(todo')
        /\ Head(todo).kind = "settings" => gen \notin SettingsIn(todo')
        /\ Head(todo).kind = "stream" => Head(todo).gen \notin StreamsIn(todo')
    BY <1>1, TailDistinct DEF NoneTwice, gen
  <1>4. NoneTwice'
    BY <1>1, <1>2, <1>3 DEF NoneTwice
  <1>5. Head(todo).kind = "settings" => gen \notin SettingsIn(queue)
    BY <1>1, <1>2 DEF NoneTwice, SettingsOfChange, gen
  <1>6. Head(todo).kind = "stream" => Head(todo).gen \notin StreamsIn(queue)
    BY <1>1, <1>2 DEF NoneTwice, StreamOf
  <1> QED BY <1>2, <1>3, <1>4, <1>5, <1>6 DEF Requested, Loaded, Arrived

\* A change that waits for the thread moves from the queue into its hands.
LEMMA HandsKept ==
    ASSUME OwnInv,
           UNCHANGED <<todo, queue>> \/ (todo = <<>> /\ todo' = queue /\ queue' = <<>>)
    PROVE  /\ NoneTwice'
           /\ Requested' = Requested /\ Loaded' = Loaded /\ Arrived' = Arrived
  <1>1. CASE UNCHANGED <<todo, queue>>
    BY <1>1 DEF OwnInv, NoneTwice, Requested, Loaded, Arrived
  <1>2. CASE todo = <<>> /\ todo' = queue /\ queue' = <<>>
    BY <1>2, EmptyGens DEF OwnInv, NoneTwice, Requested, Loaded, Arrived
  <1> QED BY <1>1, <1>2

LEMMA NoneTwiceStep == OwnInv /\ [Next]_vars => NoneTwice'
  <1> SUFFICES ASSUME OwnInv, [Next]_vars PROVE NoneTwice'
    OBVIOUS
  <1>1. TypeInv /\ NoneTwice BY DEF OwnInv
  <1>2. todo \in Seq(Change) /\ queue \in Seq(Change)
    BY <1>1 DEF TypeInv, TypeOK
  <1>3. CASE UNCHANGED <<todo, queue>>
    BY <1>3, HandsKept
  <1>4. ASSUME NEW p \in Positions, Update(p) PROVE NoneTwice'
    BY <1>3, <1>4 DEF Update, threadVars
  <1>5. CASE Ignore \/ RequestInvalid \/ Stop
    BY <1>3, <1>5 DEF Ignore, RequestInvalid, Stop, threadVars
  <1>6. CASE Take
    BY <1>1, <1>6, TakeParts DEF NoneTwice
  <1>7. CASE RequestSettings
    <2>1. CASE queue' = queue BY <1>1, <1>3, <1>7, <2>1, RequestParts
    <2>2. CASE queue' = Append(queue, SettingsChange(Len(changes) + 1, FALSE))
      <3>1. Len(changes) + 1 \notin Requested
        BY <1>1, CountTypes DEF TypeInv, Phases, GensTaken, Requested
      <3>2. Len(changes) + 1 \in SettingsGens
        BY <1>1, <1>7, NextGen, CountStep
      <3>3. PICK c \in Change : c = SettingsChange(Len(changes) + 1, FALSE)
        BY <3>2, ChangeTypes
      <3>4. c.kind = "settings" /\ c.gen = Len(changes) + 1
        BY <3>3 DEF SettingsChange
      <3>5. Distinct(queue')
        BY <1>1, <1>2, <2>2, <3>1, <3>3, <3>4, AppendDistinct DEF NoneTwice, Requested
      <3>6. /\ SettingsIn(queue') = SettingsIn(queue) \cup {Len(changes) + 1}
            /\ StreamsIn(queue') = StreamsIn(queue)
        BY <1>2, <2>2, <3>3, <3>4, AppendGens DEF SettingsOfChange, StreamOf
      <3> QED BY <1>1, <1>7, <3>1, <3>5, <3>6, RequestParts DEF NoneTwice, Requested
    <2> QED BY <1>1, <1>7, <2>1, <2>2, RequestParts
  <1>8. ASSUME NEW g \in SettingsGens, Loader(g) PROVE NoneTwice'
    <2>1. todo' = todo
      BY <1>8 DEF Loader, SpawnLoader, CheckLoad, CheckInvalid, Acquire,
                  AcquireFails, QueueLoaded, LoaderVars, threadVars
    <2>2. CASE queue' = queue BY <1>3, <2>1, <2>2
    <2>3. CASE QueueLoaded(g) /\ queue' # queue
      <3>1. g \notin Requested
        BY <1>1, <2>3, QueueLoadedParts DEF OwnInv, DetectorOwners
      <3>2. /\ queue' = Append(queue, SettingsChange(g, TRUE))
            /\ SettingsIn(queue') = SettingsIn(queue) \cup {g}
            /\ StreamsIn(queue') = StreamsIn(queue)
        BY <1>1, <2>3, QueueLoadedParts
      <3>3. PICK c \in Change : c = SettingsChange(g, TRUE)
        BY ChangeTypes
      <3>4. c.kind = "settings" /\ c.gen = g
        BY <3>3 DEF SettingsChange
      <3>5. Distinct(queue')
        BY <1>1, <1>2, <3>1, <3>2, <3>3, <3>4, AppendDistinct DEF NoneTwice, Requested
      <3> QED BY <1>1, <2>1, <3>1, <3>2, <3>5 DEF NoneTwice, Requested
    <2>4. queue' = queue \/ QueueLoaded(g)
      BY <1>8 DEF Loader, SpawnLoader, CheckLoad, CheckInvalid, Acquire, AcquireFails
    <2> QED BY <2>2, <2>3, <2>4
  <1>9. ASSUME NEW s \in StreamGens, Starter(s) PROVE NoneTwice'
    <2>1. todo' = todo
      BY <1>9 DEF Starter, SpawnStarter, StartStream, StartFails, StartAgain,
                  QueueStream, StarterVars, threadVars
    <2>2. CASE queue' = queue BY <1>3, <2>1, <2>2
    <2>3. CASE QueueStream(s) /\ queue' # queue
      <3>1. s \notin Arrived
        BY <1>1, <2>3, QueueStreamParts DEF OwnInv, StreamOwners
      <3>2. /\ queue' = Append(queue, [kind |-> "stream", gen |-> s])
            /\ SettingsIn(queue') = SettingsIn(queue)
            /\ StreamsIn(queue') = StreamsIn(queue) \cup {s}
        BY <1>1, <2>3, QueueStreamParts
      <3>3. PICK c \in Change : c = [kind |-> "stream", gen |-> s]
        BY ChangeTypes
      <3>4. c.kind = "stream" /\ c.gen = s
        BY <3>3
      <3>5. Distinct(queue')
        BY <1>1, <1>2, <3>1, <3>2, <3>3, <3>4, AppendDistinct DEF NoneTwice, Arrived
      <3> QED BY <1>1, <2>1, <3>1, <3>2, <3>5 DEF NoneTwice, Arrived
    <2>4. queue' = queue \/ QueueStream(s)
      BY <1>9 DEF Starter, SpawnStarter, StartStream, StartFails, StartAgain
    <2> QED BY <2>2, <2>3, <2>4
  <1>10. CASE Worker \/ Die
    <2>1. CASE todo # <<>> /\ todo' = Tail(todo) /\ queue' = queue
      BY <2>1, HeadGone
    <2>2. CASE todo' = <<>> /\ queue' = queue
      BY <1>1, <2>2, EmptyGens DEF NoneTwice
    <2>3. CASE todo' = queue /\ queue' = <<>> /\ todo = <<>>
      BY <2>3, HandsKept
    <2> QED BY <1>1, <1>3, <1>10, <2>1, <2>2, <2>3, WorkerHands
  <1>11. CASE UNCHANGED vars
    BY <1>3, <1>11 DEF vars, threadVars
  <1> QED BY <1>4, <1>5, <1>6, <1>7, <1>8, <1>9, <1>10, <1>11 DEF Next, Caller

-----------------------------------------------------------------------------
(* Detectors.                                                              *)

\* A step that moves a waiting change, or nothing, moves no detector.
LEMMA DetectorsKept ==
    ASSUME OwnInv, UNCHANGED <<held, detector, loaders>>,
           Requested' = Requested, Loaded' = Loaded,
           (wpc' = "stopped") <=> (wpc = "stopped"),
           Unqueued' => LoadedIn(queue') = {}
    PROVE  DetectorOwners'
  BY DEF OwnInv, DetectorOwners

LEMMA DetectorCaller ==
    ASSUME OwnInv, (\E p \in Positions : Update(p)) \/ Caller \/ Stop
    PROVE  DetectorOwners'
  <1>1. TypeInv /\ DetectorOwners BY DEF OwnInv
  <1>2. CASE UNCHANGED <<held, detector, loaders, todo, queue, wpc>>
    <2>1. Requested' = Requested /\ Loaded' = Loaded
      BY <1>2, HandsKept
    <2>2. Unqueued' => LoadedIn(queue') = {}
      BY <1>1, <1>2 DEF DetectorOwners, Unqueued
    <2> QED BY <1>2, <2>1, <2>2, DetectorsKept
  <1>3. ASSUME NEW p \in Positions, Update(p) PROVE DetectorOwners'
    BY <1>2, <1>3 DEF Update, pipelineVars, threadVars
  <1>4. CASE Ignore \/ RequestInvalid \/ Stop
    BY <1>2, <1>4 DEF Ignore, RequestInvalid, Stop, pipelineVars, threadVars
  <1>5. CASE Take
    <2>1. Requested' = Requested /\ Loaded' = Loaded
      BY <1>1, <1>5, TakeParts DEF Requested, Loaded
    <2>2. Unqueued' => LoadedIn(queue') = {}
      BY <1>1, <1>5, TakeParts DEF DetectorOwners, Unqueued
    <2>3. UNCHANGED <<held, detector, loaders, wpc>>
      BY <1>1, <1>5, TakeParts
    <2> QED BY <2>1, <2>2, <2>3, DetectorsKept
  <1>6. CASE RequestSettings
    <2> DEFINE n == Len(changes) + 1
    <2>1. n \in SettingsGens
      BY <1>1, <1>6, NextGen, CountStep DEF Next, Caller
    <2>2. loaders[n] = "none"
      <3>1. ~(n <= Len(changes)) BY <1>1, CountTypes
      <3> QED BY <1>1, <2>1, <3>1 DEF TypeInv, Phases, GensTaken
    <2>3. n \notin Requested
      BY <1>1, CountTypes DEF TypeInv, Phases, GensTaken, Requested
    <2>4. n # detector
      BY <1>1, <2>1, <2>2, WaitingTypes DEF DetectorOwners
    <2>5. UNCHANGED <<held, detector, todo, wpc>>
      BY <1>1, <1>6, RequestParts
    <2> HIDE DEF n
    <2>6. CASE queue' = queue /\ loaders' = [loaders EXCEPT ![n] = "spawn"]
      <3>1. Requested' = Requested /\ Loaded' = Loaded
        BY <2>5, <2>6, HandsKept
      <3>2. {g \in SettingsGens : loaders'[g] = "queue"}
              = {g \in SettingsGens : loaders[g] = "queue"}
        BY <1>1, <2>2, <2>6 DEF TypeInv, TypeOK
      <3>3. \A g \in SettingsGens : g # n => loaders'[g] = loaders[g]
        BY <1>1, <2>6 DEF TypeInv, TypeOK
      <3>4. \A g \in Requested : g # n /\ loaders'[g] = loaders[g]
        BY <1>1, <2>3, <3>3, WaitingTypes
      <3>5. detector' # 0 => loaders'[detector'] = "done"
        BY <1>1, <2>4, <2>5, <3>3 DEF DetectorOwners, TypeInv, TypeOK
      <3>6. \A g \in Loaded' : loaders'[g] = "done"
        BY <1>1, <3>1, <3>4, WaitingTypes DEF DetectorOwners
      <3>7. \A g \in Requested' \ Loaded' : loaders'[g] = "none"
        BY <1>1, <3>1, <3>4 DEF DetectorOwners
      <3>8. Unqueued' => LoadedIn(queue') = {}
        BY <1>1, <2>5, <2>6 DEF DetectorOwners, Unqueued
      <3>9. held' = (IF wpc' = "stopped" THEN {} ELSE {detector'} \ {0})
                      \cup {g \in SettingsGens : loaders'[g] = "queue"} \cup Loaded'
        BY <1>1, <2>5, <3>1, <3>2 DEF DetectorOwners
      <3>10. detector' \notin Requested'
        BY <1>1, <2>5, <3>1 DEF DetectorOwners
      <3> QED BY <3>5, <3>6, <3>7, <3>8, <3>9, <3>10 DEF DetectorOwners
    <2>7. CASE loaders' = loaders /\ queue' = Append(queue, SettingsChange(n, FALSE))
      <3>1. PICK c \in Change : c = SettingsChange(n, FALSE)
        BY <2>1, ChangeTypes
      <3>2. LoadedOf(c) = {} /\ SettingsOfChange(c) = {n}
        BY <3>1 DEF LoadedOf, SettingsOfChange, SettingsChange
      <3>3. queue \in Seq(Change) BY <1>1 DEF TypeInv, TypeOK
      <3>4. LoadedIn(queue') = LoadedIn(queue) /\ SettingsIn(queue') = SettingsIn(queue) \cup {n}
        <4>1. queue' = Append(queue, c) BY <2>7, <3>1
        <4>2. /\ LoadedIn(queue') = LoadedIn(queue) \cup LoadedOf(c)
              /\ SettingsIn(queue') = SettingsIn(queue) \cup SettingsOfChange(c)
          BY <3>3, <4>1, AppendGens
        <4> QED BY <3>2, <4>2
      <3>5. Loaded' = Loaded /\ Requested' = Requested \cup {n}
        BY <2>5, <3>4 DEF Loaded, Requested
      <3>6. /\ \A g \in Loaded' : loaders'[g] = "done"
            /\ \A g \in Requested' \ Loaded' : loaders'[g] = "none"
        BY <1>1, <2>2, <2>7, <3>5 DEF DetectorOwners
      <3>7. detector' \notin Requested' /\ (detector' # 0 => loaders'[detector'] = "done")
        BY <1>1, <2>4, <2>5, <2>7, <3>5 DEF DetectorOwners
      <3>8. Unqueued' => LoadedIn(queue') = {}
        BY <1>1, <2>5, <3>4 DEF DetectorOwners, Unqueued
      <3>9. held' = (IF wpc' = "stopped" THEN {} ELSE {detector'} \ {0})
                      \cup {g \in SettingsGens : loaders'[g] = "queue"} \cup Loaded'
        BY <1>1, <2>5, <2>7, <3>5 DEF DetectorOwners
      <3> QED BY <3>6, <3>7, <3>8, <3>9 DEF DetectorOwners
    <2> QED BY <1>1, <1>6, <2>6, <2>7, RequestParts DEF n
  <1> QED BY <1>3, <1>4, <1>5, <1>6 DEF Caller

\* A loader at work has no change that waits, and its detector is not in use.
LEMMA LoaderAlone ==
    ASSUME OwnInv, NEW g \in SettingsGens, loaders[g] \notin {"none", "done"}
    PROVE  g \notin Requested /\ g # detector
  BY WaitingTypes DEF OwnInv, DetectorOwners

LEMMA DetectorLoader ==
    ASSUME OwnInv, NEW g \in SettingsGens, Loader(g)
    PROVE  DetectorOwners'
  <1>1. TypeInv /\ DetectorOwners BY DEF OwnInv
  <1>2. loaders[g] \notin {"none", "done"} /\ \E x : loaders' = [loaders EXCEPT ![g] = x]
    BY DEF Loader, SpawnLoader, CheckLoad, CheckInvalid, Acquire, AcquireFails,
           QueueLoaded
  <1>3. g \notin Requested /\ g # detector
    BY <1>2, LoaderAlone
  <1>4. UNCHANGED <<todo, wpc, detector>>
    BY DEF Loader, SpawnLoader, CheckLoad, CheckInvalid, Acquire, AcquireFails,
           QueueLoaded, LoaderVars, threadVars, pipelineVars
  <1>5. \A h \in SettingsGens : h # g => loaders'[h] = loaders[h]
    BY <1>1, <1>2 DEF TypeInv, TypeOK
  <1>6. /\ \A h \in Loaded : loaders'[h] = "done"
        /\ \A h \in Requested \ Loaded : loaders'[h] = "none"
    BY <1>1, <1>3, <1>5, WaitingTypes DEF DetectorOwners
  <1>7. detector' \notin Requested /\ (detector' # 0 => loaders'[detector'] = "done")
    BY <1>1, <1>3, <1>4, <1>5 DEF DetectorOwners, TypeInv, TypeOK
  <1>8. CASE queue' = queue
    <2>1. Requested' = Requested /\ Loaded' = Loaded
      BY <1>4, <1>8, HandsKept
    <2>2. Unqueued' => LoadedIn(queue') = {}
      BY <1>1, <1>4, <1>8 DEF DetectorOwners, Unqueued
    <2>3. held' = (IF wpc' = "stopped" THEN {} ELSE {detector'} \ {0})
                    \cup {h \in SettingsGens : loaders'[h] = "queue"} \cup Loaded'
      <3>1. CASE Acquire(g)
        <4>1. held' = held \cup {g} /\ loaders'[g] = "queue"
          BY <1>1, <3>1 DEF Acquire, TypeInv, TypeOK
        <4>2. {h \in SettingsGens : loaders'[h] = "queue"}
                = {h \in SettingsGens : loaders[h] = "queue"} \cup {g}
          BY <1>5, <4>1
        <4> QED BY <1>1, <1>4, <2>1, <4>1, <4>2 DEF DetectorOwners
      <3>2. CASE QueueLoaded(g)
        <4>1. held' = held \ {g}
          <5>1. queue' = Append(queue, SettingsChange(g, TRUE)) \/ held' = held \ {g}
            BY <3>2 DEF QueueLoaded
          <5>2. PICK c \in Change : c = SettingsChange(g, TRUE)
            BY ChangeTypes
          <5>3. Append(queue, c) # queue
            <6>1. queue \in Seq(Change) BY <1>1 DEF TypeInv, TypeOK
            <6>2. Len(queue) \in Nat /\ Len(Append(queue, c)) = Len(queue) + 1
              BY <6>1, AppendAt
            <6> QED BY <6>2
          <5> QED BY <1>8, <5>1, <5>2, <5>3
        <4>2. loaders'[g] = "done"
          BY <1>1, <3>2 DEF QueueLoaded, TypeInv, TypeOK
        <4>3. {h \in SettingsGens : loaders'[h] = "queue"}
                = {h \in SettingsGens : loaders[h] = "queue"} \ {g}
          BY <1>5, <4>2
        <4>4. g \notin Loaded BY <1>1, <1>3, WaitingTypes
        <4> QED BY <1>1, <1>3, <1>4, <2>1, <4>1, <4>3, <4>4 DEF DetectorOwners
      <3>3. CASE SpawnLoader(g) \/ CheckLoad(g) \/ CheckInvalid(g) \/ AcquireFails(g)
        <4>1. held' = held /\ loaders[g] # "queue"
          BY <3>3 DEF SpawnLoader, CheckLoad, CheckInvalid, AcquireFails
        <4>2. loaders'[g] # "queue"
          BY <1>1, <3>3 DEF SpawnLoader, CheckLoad, CheckInvalid, AcquireFails,
                            TypeInv, TypeOK
        <4>3. {h \in SettingsGens : loaders'[h] = "queue"}
                = {h \in SettingsGens : loaders[h] = "queue"}
          BY <1>5, <4>1, <4>2
        <4> QED BY <1>1, <1>4, <2>1, <4>1, <4>3 DEF DetectorOwners
      <3> QED BY <3>1, <3>2, <3>3 DEF Loader
    <2> QED BY <1>6, <1>7, <2>1, <2>2, <2>3 DEF DetectorOwners
  <1>9. CASE QueueLoaded(g) /\ queue' # queue
    <2>1. /\ ~stopping /\ held' = held
          /\ SettingsIn(queue') = SettingsIn(queue) \cup {g}
          /\ LoadedIn(queue') = LoadedIn(queue) \cup {g}
      BY <1>1, <1>9, QueueLoadedParts
    <2>2. Requested' = Requested \cup {g} /\ Loaded' = Loaded \cup {g}
      BY <1>4, <2>1 DEF Requested, Loaded
    <2>3. loaders[g] = "queue" /\ loaders'[g] = "done"
      BY <1>1, <1>9 DEF QueueLoaded, TypeInv, TypeOK
    <2>4. {h \in SettingsGens : loaders'[h] = "queue"}
            = {h \in SettingsGens : loaders[h] = "queue"} \ {g}
      BY <1>5, <2>3
    <2>5. ~Unqueued'
      BY <1>1, <1>4, <2>1 DEF TypeInv, Phases, InHand, Unqueued
    <2>6. held' = (IF wpc' = "stopped" THEN {} ELSE {detector'} \ {0})
                    \cup {h \in SettingsGens : loaders'[h] = "queue"} \cup Loaded'
      BY <1>1, <1>4, <2>1, <2>2, <2>3, <2>4 DEF DetectorOwners
    <2>7. /\ \A h \in Loaded' : loaders'[h] = "done"
          /\ \A h \in Requested' \ Loaded' : loaders'[h] = "none"
      BY <1>6, <2>2, <2>3
    <2>8. detector' \notin Requested'
      BY <1>3, <1>4, <1>7, <2>2
    <2> QED BY <1>7, <2>5, <2>6, <2>7, <2>8 DEF DetectorOwners
  <1>10. queue' = queue \/ QueueLoaded(g)
    BY DEF Loader, SpawnLoader, CheckLoad, CheckInvalid, Acquire, AcquireFails
  <1> QED BY <1>8, <1>9, <1>10

\* The change the thread is done with: its detector, if it came with one, was
\* given back, or put into the pipeline in place of another.
LEMMA DetectorHead ==
    ASSUME OwnInv, todo # <<>>, todo' = Tail(todo), queue' = queue,
           Head(todo).kind = "settings", loaders' = loaders,
           wpc # "stopped", wpc' = "apply",
           \/ held' = held \ {gen} /\ detector' = detector
           \/ ~Head(todo).loaded /\ held' = held /\ detector' = detector
           \/ Head(todo).loaded /\ held' = held \ {detector} /\ detector' = gen
    PROVE  DetectorOwners'
  <1>1. TypeInv /\ DetectorOwners BY DEF OwnInv
  <1>2. gen \in SettingsGens /\ gen # 0
    BY <1>1, GenType, WaitingTypes
  <1>3. /\ Requested = Requested' \cup {gen} /\ gen \notin Requested'
        /\ Loaded = Loaded' \cup (IF Head(todo).loaded THEN {gen} ELSE {})
    BY HeadGone DEF SettingsOfChange, LoadedOf, gen
  <1>4. Loaded' \subseteq Requested'
    <2>1. todo' \in Seq(Change) /\ queue' \in Seq(Change)
      BY <1>1, TodoTail DEF TypeInv, TypeOK
    <2> QED BY <2>1, LoadedAreSettings DEF Loaded, Requested
  <1>5. /\ \A g \in Loaded' : loaders'[g] = "done"
        /\ \A g \in Requested' \ Loaded' : loaders'[g] = "none"
    BY <1>1, <1>3 DEF DetectorOwners
  <1>6. ~Unqueued'
    BY DEF Unqueued
  <1>7. gen # detector /\ detector \notin Requested'
    BY <1>1, <1>3 DEF DetectorOwners
  <1>8. loaders[gen] # "queue"
    BY <1>1, <1>3 DEF DetectorOwners
  <1>9. held = ({detector} \ {0}) \cup {g \in SettingsGens : loaders[g] = "queue"} \cup Loaded
    BY <1>1 DEF DetectorOwners
  <1>10. CASE \/ held' = held \ {gen} /\ detector' = detector
              \/ ~Head(todo).loaded /\ held' = held /\ detector' = detector
    <2>1. held' = ({detector} \ {0}) \cup {g \in SettingsGens : loaders[g] = "queue"} \cup Loaded'
      BY <1>3, <1>4, <1>7, <1>8, <1>9, <1>10
    <2> QED BY <1>1, <1>5, <1>6, <1>7, <1>10, <2>1 DEF DetectorOwners
  <1>11. CASE Head(todo).loaded /\ held' = held \ {detector} /\ detector' = gen
    <2>1. gen \in Loaded /\ loaders[gen] = "done"
      BY <1>1, <1>3, <1>11 DEF DetectorOwners
    <2>2. detector # 0 => loaders[detector] # "queue"
      BY <1>1 DEF DetectorOwners
    <2>3. detector \notin Loaded'
      BY <1>4, <1>7
    <2>4. detector \notin {g \in SettingsGens : loaders[g] = "queue"}
      BY <1>1, <2>2, WaitingTypes
    <2>5. held' = ({gen} \ {0}) \cup {g \in SettingsGens : loaders[g] = "queue"} \cup Loaded'
      BY <1>2, <1>3, <1>7, <1>9, <1>11, <2>3, <2>4
    <2> QED BY <1>3, <1>5, <1>6, <1>11, <2>1, <2>5 DEF DetectorOwners
  <1> QED BY <1>10, <1>11

\* A change of another kind leaves the thread's hands.
LEMMA DetectorOther ==
    ASSUME OwnInv, todo # <<>>, todo' = Tail(todo), queue' = queue,
           Head(todo).kind # "settings",
           UNCHANGED <<held, detector, loaders>>, wpc # "stopped", wpc' = "apply"
    PROVE  DetectorOwners'
  <1>1. Requested' = Requested /\ Loaded' = Loaded
    BY HeadGone DEF SettingsOfChange, LoadedOf
  <1>2. ~Unqueued'
    BY DEF Unqueued
  <1> QED BY <1>1, <1>2, DetectorsKept

LEMMA DetectorLoadFirst ==
    ASSUME OwnInv, LoadFirst
    PROVE  DetectorOwners'
  <1>1. TypeInv /\ DetectorOwners BY DEF OwnInv
  <1>2. /\ todo # <<>> /\ Head(todo).kind = "settings" /\ ~Head(todo).loaded
        /\ todo' = Tail(todo) /\ queue' = queue /\ wpc = "chosen" /\ wpc' = "apply"
        /\ UNCHANGED <<held, detector>> /\ loaders' = [loaders EXCEPT ![gen] = "spawn"]
    BY <1>1 DEF LoadFirst, pipelineVars, TypeInv, Phases, InHand
  <1>3. gen \in SettingsGens
    BY <1>1, <1>2, GenType
  <1>4. Requested = Requested' \cup {gen} /\ gen \notin Requested' /\ Loaded = Loaded'
    BY <1>2, HeadGone DEF SettingsOfChange, LoadedOf, gen
  <1>5. /\ loaders'[gen] = "spawn"
        /\ \A g \in SettingsGens : g # gen => loaders'[g] = loaders[g]
    BY <1>1, <1>2, <1>3 DEF TypeInv, TypeOK
  <1>6. gen \notin Loaded
    <2>1. Loaded' \subseteq Requested'
      <3>1. todo' \in Seq(Change) /\ queue' \in Seq(Change)
        BY <1>1, <1>2, TodoTail DEF TypeInv, TypeOK
      <3> QED BY <3>1, LoadedAreSettings DEF Loaded, Requested
    <2> QED BY <1>4, <2>1
  <1>7. loaders[gen] = "none"
    BY <1>1, <1>4, <1>6 DEF DetectorOwners
  <1>8. {g \in SettingsGens : loaders'[g] = "queue"}
          = {g \in SettingsGens : loaders[g] = "queue"}
    BY <1>5, <1>7
  <1>9. /\ \A g \in Loaded' : loaders'[g] = "done"
        /\ \A g \in Requested' \ Loaded' : loaders'[g] = "none"
    <2>1. Loaded \subseteq Requested /\ Requested \subseteq SettingsGens
      BY <1>1, WaitingTypes
    <2>2. \A g \in Requested' : g \in Requested /\ loaders'[g] = loaders[g]
      BY <1>4, <1>5, <2>1
    <2>3. \A g \in Loaded' : g \in Requested'
      BY <1>4, <1>6, <2>1
    <2> QED BY <1>1, <1>4, <2>2, <2>3 DEF DetectorOwners
  <1>10. gen # detector
    BY <1>1, <1>4 DEF DetectorOwners
  <1>11. detector' \notin Requested' /\ (detector' # 0 => loaders'[detector'] = "done")
    BY <1>1, <1>2, <1>4, <1>5, <1>10 DEF DetectorOwners, TypeInv, TypeOK
  <1>12. held' = (IF wpc' = "stopped" THEN {} ELSE {detector'} \ {0})
                   \cup {g \in SettingsGens : loaders'[g] = "queue"} \cup Loaded'
    BY <1>1, <1>2, <1>4, <1>8 DEF DetectorOwners
  <1>13. ~Unqueued'
    BY <1>2 DEF Unqueued
  <1> QED BY <1>9, <1>11, <1>12, <1>13 DEF DetectorOwners

LEMMA DetectorWorker ==
    ASSUME OwnInv, Worker \/ Die
    PROVE  DetectorOwners'
  <1>1. TypeInv /\ DetectorOwners BY DEF OwnInv
  <1>2. CASE Prepared \/ TakeQueue \/ EndRound \/ FrameDone \/ Build
    <2>1. /\ UNCHANGED <<held, detector, loaders>> /\ ~Unqueued /\ ~Unqueued'
      BY <1>2 DEF Prepared, TakeQueue, EndRound, FrameDone, Build, Ready, Unqueued,
                  pipelineVars, threadVars
    <2>2. UNCHANGED <<todo, queue>> \/ (todo = <<>> /\ todo' = queue /\ queue' = <<>>)
      BY <1>1, <1>2 DEF Prepared, TakeQueue, EndRound, FrameDone, Build, threadVars,
                        TypeInv, Phases, InHand
    <2>3. Requested' = Requested /\ Loaded' = Loaded
      BY <2>2, HandsKept
    <2> QED BY <2>1, <2>3, DetectorsKept DEF Unqueued
  <1>3. CASE ApplyIdentity
    <2>1. /\ todo # <<>> /\ todo' = Tail(todo) /\ queue' = queue
          /\ Head(todo).kind # "settings"
          /\ UNCHANGED <<held, detector, loaders>> /\ wpc # "stopped" /\ wpc' = "apply"
      BY <1>3 DEF ApplyIdentity
    <2> QED BY <2>1, DetectorOther
  <1>4. CASE CheckStream
    <2>1. CASE UNCHANGED todo
      <3>1. /\ UNCHANGED <<held, detector, loaders, todo, queue>>
            /\ ~Unqueued' /\ wpc # "stopped"
        BY <1>4, <2>1 DEF CheckStream, pipelineVars, Unqueued
      <3>2. Requested' = Requested /\ Loaded' = Loaded
        BY <3>1, HandsKept
      <3> QED BY <3>1, <3>2, DetectorsKept DEF Unqueued
    <2>2. CASE ~UNCHANGED todo
      <3>1. /\ todo # <<>> /\ todo' = Tail(todo) /\ queue' = queue
            /\ Head(todo).kind # "settings"
            /\ UNCHANGED <<held, detector, loaders>> /\ wpc # "stopped" /\ wpc' = "apply"
        BY <1>4, <2>2 DEF CheckStream, pipelineVars
      <3> QED BY <3>1, DetectorOther
    <2> QED BY <2>1, <2>2
  <1>5. CASE SwapStream
    <2>1. /\ todo # <<>> /\ todo' = Tail(todo) /\ queue' = queue
          /\ Head(todo).kind # "settings"
          /\ UNCHANGED <<held, detector, loaders>> /\ wpc # "stopped" /\ wpc' = "apply"
      BY <1>1, <1>5 DEF SwapStream, pipelineVars, TypeInv, Phases, InHand
    <2> QED BY <2>1, DetectorOther
  <1>6. CASE CheckSettings
    <2>1. CASE UNCHANGED todo
      <3>1. /\ todo # <<>> => todo # Tail(todo)
        <4>1. todo \in Seq(Change) BY <1>1 DEF TypeInv, TypeOK
        <4>2. todo # <<>> => Len(todo) \in Nat /\ Len(Tail(todo)) = Len(todo) - 1
          BY <4>1, TailAt
        <4> QED BY <4>2
      <3>2. /\ UNCHANGED <<held, detector, loaders, todo, queue>>
            /\ ~Unqueued' /\ wpc # "stopped"
        BY <1>6, <2>1, <3>1 DEF CheckSettings, pipelineVars, Unqueued
      <3>3. Requested' = Requested /\ Loaded' = Loaded
        BY <3>2, HandsKept
      <3> QED BY <3>2, <3>3, DetectorsKept DEF Unqueued
    <2>2. CASE ~UNCHANGED todo
      <3>1. /\ todo # <<>> /\ todo' = Tail(todo) /\ queue' = queue
            /\ Head(todo).kind = "settings" /\ held' = held \ {gen}
            /\ UNCHANGED <<detector, loaders>> /\ wpc # "stopped" /\ wpc' = "apply"
        BY <1>6, <2>2 DEF CheckSettings, pipelineVars
      <3> QED BY <3>1, DetectorHead
    <2> QED BY <2>1, <2>2
  <1>7. CASE LoadFirst BY <1>7, DetectorLoadFirst
  <1>8. CASE Refuse
    <2>1. /\ todo # <<>> /\ todo' = Tail(todo) /\ queue' = queue
          /\ Head(todo).kind = "settings" /\ held' = held \ {gen}
          /\ UNCHANGED <<detector, loaders>> /\ wpc # "stopped" /\ wpc' = "apply"
      BY <1>1, <1>8 DEF Refuse, Ready, pipelineVars, TypeInv, Phases, InHand
    <2> QED BY <2>1, DetectorHead
  <1>9. CASE Install \/ Reconfigure
    <2>1. /\ todo # <<>> /\ todo' = Tail(todo) /\ queue' = queue
          /\ Head(todo).kind = "settings" /\ UNCHANGED loaders
          /\ wpc # "stopped" /\ wpc' = "apply" /\ Applied
      BY <1>1, <1>9 DEF Install, Reconfigure, Ready, TypeInv, Phases, InHand
    <2>2. \/ ~Head(todo).loaded /\ held' = held /\ detector' = detector
          \/ Head(todo).loaded /\ held' = held \ {detector} /\ detector' = gen
      BY <2>1 DEF Applied
    <2> QED BY <2>1, <2>2, DetectorHead
  <1>10. CASE LoopEnds \/ Die
    <2>1. /\ UNCHANGED <<held, detector, loaders>> /\ wpc = "loop" /\ wpc' = "closing"
          /\ todo' = queue /\ queue' = <<>>
      BY <1>10 DEF LoopEnds, Die, Leave, pipelineVars
    <2>2. todo = <<>>
      BY <1>1, <2>1 DEF TypeInv, Phases, InHand
    <2>3. Requested' = Requested /\ Loaded' = Loaded
      BY <2>1, <2>2, HandsKept
    <2>4. LoadedIn(queue') = {}
      BY <2>1, EmptyGens
    <2> QED BY <2>1, <2>3, <2>4, DetectorsKept
  <1>11. CASE Cleanup
    <2>1. /\ held' = held \ ({detector} \cup LoadedIn(todo)) /\ todo' = <<>>
          /\ wpc = "closing" /\ wpc' = "stopped" /\ UNCHANGED <<queue, detector, loaders>>
      BY <1>11 DEF Cleanup, pipelineVars
    <2>2. LoadedIn(queue) = {} /\ LoadedIn(todo') = {} /\ SettingsIn(todo') = {}
      BY <1>1, <2>1, EmptyGens DEF DetectorOwners, Unqueued
    <2>3. Loaded' = {} /\ Requested' \subseteq Requested \ LoadedIn(todo)
      <3>1. SettingsIn(todo) \cap SettingsIn(queue) = {} /\ todo \in Seq(Change)
        BY DEF OwnInv, NoneTwice, TypeInv, TypeOK
      <3> QED BY <2>1, <2>2, <3>1, LoadedAreSettings DEF Loaded, Requested
    <2>4. Loaded = LoadedIn(todo)
      BY <2>2 DEF Loaded
    <2>5. held' = {g \in SettingsGens : loaders[g] = "queue"}
      <3>1. \A g \in SettingsGens : loaders[g] = "queue" => g \notin Loaded /\ g # detector
        BY <1>1, WaitingTypes DEF DetectorOwners
      <3>2. held = ({detector} \ {0}) \cup {g \in SettingsGens : loaders[g] = "queue"} \cup Loaded
        BY <1>1, <2>1 DEF DetectorOwners
      <3> QED BY <2>1, <2>4, <3>1, <3>2
    <2>6. \A g \in Requested' \ Loaded' : loaders'[g] = "none"
      BY <1>1, <2>1, <2>3, <2>4 DEF DetectorOwners
    <2>7. detector' \notin Requested' /\ (detector' # 0 => loaders'[detector'] = "done")
      BY <1>1, <2>1, <2>3 DEF DetectorOwners
    <2> QED BY <2>1, <2>2, <2>3, <2>5, <2>6, <2>7 DEF DetectorOwners
  <1> QED BY <1>2, <1>3, <1>4, <1>5, <1>6, <1>7, <1>8, <1>9, <1>10, <1>11
          DEF Worker

LEMMA DetectorStep == OwnInv /\ [Next]_vars => DetectorOwners'
  <1> SUFFICES ASSUME OwnInv, [Next]_vars PROVE DetectorOwners'
    OBVIOUS
  <1>1. TypeInv /\ DetectorOwners BY DEF OwnInv
  <1>2. ASSUME NEW s \in StreamGens, Starter(s) PROVE DetectorOwners'
    <2>1. UNCHANGED <<held, detector, loaders, todo, wpc, stopping>>
      BY <1>2 DEF Starter, SpawnStarter, StartStream, StartFails, StartAgain,
                  QueueStream, StarterVars, threadVars, pipelineVars
    <2>2. SettingsIn(queue') = SettingsIn(queue) /\ LoadedIn(queue') = LoadedIn(queue)
      <3>1. CASE QueueStream(s) BY <1>1, <3>1, QueueStreamParts
      <3>2. CASE SpawnStarter(s) \/ StartStream(s) \/ StartFails(s) \/ StartAgain(s)
        BY <3>2 DEF SpawnStarter, StartStream, StartFails, StartAgain
      <3> QED BY <1>2, <3>1, <3>2 DEF Starter
    <2>3. Requested' = Requested /\ Loaded' = Loaded
      BY <2>1, <2>2 DEF Requested, Loaded
    <2>4. Unqueued' => LoadedIn(queue') = {}
      BY <1>1, <2>1, <2>2 DEF DetectorOwners, Unqueued
    <2> QED BY <2>1, <2>3, <2>4, DetectorsKept
  <1>3. CASE UNCHANGED vars
    <2>1. UNCHANGED <<held, detector, loaders, todo, queue, wpc>>
      BY <1>3 DEF vars, pipelineVars, threadVars
    <2>2. Requested' = Requested /\ Loaded' = Loaded
      BY <2>1, HandsKept
    <2>3. Unqueued' => LoadedIn(queue') = {}
      BY <1>1, <2>1 DEF DetectorOwners, Unqueued
    <2> QED BY <2>1, <2>2, <2>3, DetectorsKept
  <1> QED BY <1>2, <1>3, DetectorCaller, DetectorLoader, DetectorWorker DEF Next

-----------------------------------------------------------------------------
(* Streams.                                                                *)

LEMMA StreamsKept ==
    ASSUME OwnInv, UNCHANGED <<live, stream, starters>>, Arrived' = Arrived,
           (wpc' = "stopped") <=> (wpc = "stopped"),
           Unqueued' => StreamsIn(queue') = {}
    PROVE  StreamOwners'
  BY DEF OwnInv, StreamOwners

\* A stream generation that is taken gets a starter that has nothing yet.
LEMMA StreamTaken ==
    ASSUME OwnInv, UNCHANGED <<live, stream>>, Arrived' = Arrived,
           (wpc' = "stopped") <=> (wpc = "stopped"),
           Unqueued' => StreamsIn(queue') = {},
           starters' = [starters EXCEPT ![Len(sources) + 1] = "spawn"]
    PROVE  StreamOwners'
  <1> DEFINE n == Len(sources) + 1
  <1>1. TypeInv /\ StreamOwners BY DEF OwnInv
  <1>2. n \in StreamGens => starters[n] = "none"
    <2>1. ~(n <= Len(sources)) BY <1>1, CountTypes
    <2> QED BY <1>1, <2>1 DEF TypeInv, Phases, GensTaken
  <1>3. \A s \in StreamGens : \/ starters'[s] = starters[s]
                              \/ starters[s] = "none" /\ starters'[s] = "spawn"
    BY <1>1, <1>2 DEF TypeInv, TypeOK
  <1>4. {s \in StreamGens : starters'[s] = "queue"}
          = {s \in StreamGens : starters[s] = "queue"}
    BY <1>3
  <1>5. \A s \in Arrived' : starters'[s] = "done"
    BY <1>1, <1>3, WaitingTypes DEF StreamOwners
  <1>6. stream' \notin Arrived' /\ (stream' # 0 => starters'[stream'] = "done")
    BY <1>1, <1>3 DEF StreamOwners, TypeInv, TypeOK
  <1>7. live' = (IF wpc' = "stopped" THEN {} ELSE {stream'} \ {0})
                  \cup {s \in StreamGens : starters'[s] = "queue"} \cup Arrived'
    BY <1>1, <1>4 DEF StreamOwners
  <1> QED BY <1>5, <1>6, <1>7 DEF StreamOwners

LEMMA StreamCaller ==
    ASSUME OwnInv, (\E p \in Positions : Update(p)) \/ Caller \/ Stop
    PROVE  StreamOwners'
  <1>1. TypeInv /\ StreamOwners BY DEF OwnInv
  <1>2. CASE UNCHANGED <<live, stream, starters, todo, queue, wpc>>
    <2>1. Arrived' = Arrived
      BY <1>2, HandsKept
    <2>2. Unqueued' => StreamsIn(queue') = {}
      BY <1>1, <1>2 DEF StreamOwners, Unqueued
    <2> QED BY <1>2, <2>1, <2>2, StreamsKept
  <1>3. ASSUME NEW p \in Positions, Update(p) PROVE StreamOwners'
    BY <1>2, <1>3 DEF Update, threadVars
  <1>4. CASE Ignore \/ RequestInvalid \/ Stop
    BY <1>2, <1>4 DEF Ignore, RequestInvalid, Stop, threadVars
  <1>5. CASE Take
    <2>1. Arrived' = Arrived
      BY <1>1, <1>5, TakeParts DEF Arrived
    <2>2. Unqueued' => StreamsIn(queue') = {}
      BY <1>1, <1>5, TakeParts DEF StreamOwners, Unqueued
    <2>3. UNCHANGED <<live, stream, wpc>>
      BY <1>1, <1>5, TakeParts
    <2> QED BY <1>1, <1>5, <2>1, <2>2, <2>3, StreamsKept, StreamTaken, TakeParts
  <1>6. CASE RequestSettings
    <2>1. UNCHANGED <<live, stream, starters, todo, wpc>>
      BY <1>1, <1>6, RequestParts
    <2>2. StreamsIn(queue') = StreamsIn(queue)
      <3>1. CASE queue' = queue BY <3>1
      <3>2. CASE queue' = Append(queue, SettingsChange(Len(changes) + 1, FALSE))
        <4>1. Len(changes) + 1 \in SettingsGens
          BY <1>1, <1>6, NextGen, CountStep DEF Next, Caller
        <4>2. PICK c \in Change : c = SettingsChange(Len(changes) + 1, FALSE)
          BY <4>1, ChangeTypes
        <4>3. StreamOf(c) = {}
          BY <4>2 DEF StreamOf, SettingsChange
        <4>4. queue \in Seq(Change) /\ queue' = Append(queue, c)
          BY <1>1, <3>2, <4>2 DEF TypeInv, TypeOK
        <4>5. StreamsIn(queue') = StreamsIn(queue) \cup StreamOf(c)
          BY <4>4, AppendGens
        <4> QED BY <4>3, <4>5
      <3> QED BY <1>1, <1>6, <3>1, <3>2, RequestParts
    <2>3. Arrived' = Arrived
      BY <2>1, <2>2 DEF Arrived
    <2>4. Unqueued' => StreamsIn(queue') = {}
      BY <1>1, <2>1, <2>2 DEF StreamOwners, Unqueued
    <2> QED BY <2>1, <2>3, <2>4, StreamsKept
  <1> QED BY <1>3, <1>4, <1>5, <1>6 DEF Caller

LEMMA StreamStarter ==
    ASSUME OwnInv, NEW s \in StreamGens, Starter(s)
    PROVE  StreamOwners'
  <1>1. TypeInv /\ StreamOwners BY DEF OwnInv
  <1>2. starters[s] \notin {"none", "done"} /\ \E x : starters' = [starters EXCEPT ![s] = x]
    BY DEF Starter, SpawnStarter, StartStream, StartFails, StartAgain, QueueStream
  <1>3. s \notin Arrived /\ s # stream
    BY <1>1, <1>2, WaitingTypes DEF StreamOwners
  <1>4. UNCHANGED <<todo, wpc, stream>>
    BY DEF Starter, SpawnStarter, StartStream, StartFails, StartAgain, QueueStream,
           StarterVars, threadVars
  <1>5. \A r \in StreamGens : r # s => starters'[r] = starters[r]
    BY <1>1, <1>2 DEF TypeInv, TypeOK
  <1>6. \A r \in Arrived : starters'[r] = "done"
    BY <1>1, <1>3, <1>5, WaitingTypes DEF StreamOwners
  <1>7. stream' \notin Arrived /\ (stream' # 0 => starters'[stream'] = "done")
    BY <1>1, <1>3, <1>4, <1>5 DEF StreamOwners, TypeInv, TypeOK
  <1>8. live = (IF wpc = "stopped" THEN {} ELSE {stream} \ {0})
                 \cup {r \in StreamGens : starters[r] = "queue"} \cup Arrived
    BY <1>1 DEF StreamOwners
  <1>9. CASE queue' = queue
    <2>1. Arrived' = Arrived
      BY <1>4, <1>9, HandsKept
    <2>2. Unqueued' => StreamsIn(queue') = {}
      BY <1>1, <1>4, <1>9 DEF StreamOwners, Unqueued
    <2>3. live' = (IF wpc' = "stopped" THEN {} ELSE {stream'} \ {0})
                    \cup {r \in StreamGens : starters'[r] = "queue"} \cup Arrived'
      <3>1. CASE StartStream(s)
        <4>1. live' = live \cup {s} /\ starters'[s] = "queue"
          BY <1>1, <3>1 DEF StartStream, TypeInv, TypeOK
        <4>2. {r \in StreamGens : starters'[r] = "queue"}
                = {r \in StreamGens : starters[r] = "queue"} \cup {s}
          BY <1>5, <4>1
        <4> QED BY <1>4, <1>8, <2>1, <4>1, <4>2
      <3>2. CASE QueueStream(s)
        <4>1. live' = live \ {s}
          <5>1. PICK c \in Change : c = [kind |-> "stream", gen |-> s]
            BY ChangeTypes
          <5>2. queue' = Append(queue, c) \/ live' = live \ {s}
            BY <3>2, <5>1 DEF QueueStream
          <5>3. Append(queue, c) # queue
            <6>1. queue \in Seq(Change) BY <1>1 DEF TypeInv, TypeOK
            <6>2. Len(queue) \in Nat /\ Len(Append(queue, c)) = Len(queue) + 1
              BY <6>1, AppendAt
            <6> QED BY <6>2
          <5> QED BY <1>9, <5>2, <5>3
        <4>2. starters'[s] = "done"
          BY <1>1, <3>2 DEF QueueStream, TypeInv, TypeOK
        <4>3. {r \in StreamGens : starters'[r] = "queue"}
                = {r \in StreamGens : starters[r] = "queue"} \ {s}
          BY <1>5, <4>2
        <4> QED BY <1>3, <1>4, <1>8, <2>1, <4>1, <4>3
      <3>3. CASE SpawnStarter(s) \/ StartFails(s) \/ StartAgain(s)
        <4>1. live' = live /\ starters[s] # "queue"
          BY <3>3 DEF SpawnStarter, StartFails, StartAgain
        <4>2. starters'[s] # "queue"
          BY <1>1, <3>3 DEF SpawnStarter, StartFails, StartAgain, TypeInv, TypeOK
        <4>3. {r \in StreamGens : starters'[r] = "queue"}
                = {r \in StreamGens : starters[r] = "queue"}
          BY <1>5, <4>1, <4>2
        <4> QED BY <1>4, <1>8, <2>1, <4>1, <4>3
      <3> QED BY <3>1, <3>2, <3>3 DEF Starter
    <2> QED BY <1>6, <1>7, <2>1, <2>2, <2>3 DEF StreamOwners
  <1>10. CASE QueueStream(s) /\ queue' # queue
    <2>1. /\ ~stopping /\ live' = live
          /\ StreamsIn(queue') = StreamsIn(queue) \cup {s}
      BY <1>1, <1>10, QueueStreamParts
    <2>2. Arrived' = Arrived \cup {s}
      BY <1>4, <2>1 DEF Arrived
    <2>3. starters[s] = "queue" /\ starters'[s] = "done"
      BY <1>1, <1>10 DEF QueueStream, TypeInv, TypeOK
    <2>4. {r \in StreamGens : starters'[r] = "queue"}
            = {r \in StreamGens : starters[r] = "queue"} \ {s}
      BY <1>5, <2>3
    <2>5. ~Unqueued'
      BY <1>1, <1>4, <2>1 DEF TypeInv, Phases, InHand, Unqueued
    <2>6. live' = (IF wpc' = "stopped" THEN {} ELSE {stream'} \ {0})
                    \cup {r \in StreamGens : starters'[r] = "queue"} \cup Arrived'
      BY <1>4, <1>8, <2>1, <2>2, <2>3, <2>4
    <2>7. \A r \in Arrived' : starters'[r] = "done"
      BY <1>6, <2>2, <2>3
    <2>8. stream' \notin Arrived'
      BY <1>3, <1>4, <1>7, <2>2
    <2> QED BY <1>7, <2>5, <2>6, <2>7, <2>8 DEF StreamOwners
  <1>11. queue' = queue \/ QueueStream(s)
    BY DEF Starter, SpawnStarter, StartStream, StartFails, StartAgain
  <1> QED BY <1>9, <1>10, <1>11

\* The stream the thread is done with was stopped, or put into use in place of
\* another.
LEMMA StreamHead ==
    ASSUME OwnInv, todo # <<>>, todo' = Tail(todo), queue' = queue,
           Head(todo).kind = "stream", starters' = starters,
           wpc # "stopped", wpc' = "apply",
           \/ live' = live \ {Head(todo).gen} /\ stream' = stream
           \/ live' = live \ {stream} /\ stream' = Head(todo).gen
    PROVE  StreamOwners'
  <1> DEFINE n == Head(todo).gen
  <1>1. TypeInv /\ StreamOwners BY DEF OwnInv
  <1>2. n \in StreamGens /\ n # 0
    BY <1>1, StreamGenType, WaitingTypes DEF TypeInv
  <1>3. Arrived = Arrived' \cup {n} /\ n \notin Arrived'
    BY HeadGone DEF StreamOf
  <1> HIDE DEF n
  <1>4. \A s \in Arrived : starters[s] = "done"
    BY <1>1 DEF StreamOwners
  <1>5. ~Unqueued'
    BY DEF Unqueued
  <1>6. n # stream /\ stream \notin Arrived'
    BY <1>1, <1>3 DEF StreamOwners
  <1>7. live = ({stream} \ {0}) \cup {s \in StreamGens : starters[s] = "queue"} \cup Arrived
    BY <1>1 DEF StreamOwners
  <1>8. stream # 0 => starters[stream] = "done"
    BY <1>1 DEF StreamOwners
  <1>9. starters[n] = "done" BY <1>3, <1>4
  <1>10. CASE live' = live \ {n} /\ stream' = stream
    <2>1. live' = ({stream} \ {0}) \cup {s \in StreamGens : starters[s] = "queue"} \cup Arrived'
      BY <1>3, <1>6, <1>7, <1>9, <1>10
    <2> QED BY <1>3, <1>4, <1>5, <1>6, <1>8, <1>10, <2>1 DEF StreamOwners
  <1>11. CASE live' = live \ {stream} /\ stream' = n
    <2>1. stream \notin {s \in StreamGens : starters[s] = "queue"}
      BY <1>1, <1>8, WaitingTypes
    <2>2. live' = ({n} \ {0}) \cup {s \in StreamGens : starters[s] = "queue"} \cup Arrived'
      BY <1>2, <1>3, <1>6, <1>7, <1>11, <2>1
    <2> QED BY <1>3, <1>4, <1>5, <1>9, <1>11, <2>2 DEF StreamOwners
  <1> QED BY <1>10, <1>11 DEF n

\* A change of another kind leaves the thread's hands.
LEMMA StreamOther ==
    ASSUME OwnInv, todo # <<>>, todo' = Tail(todo), queue' = queue,
           Head(todo).kind # "stream", UNCHANGED <<live, stream>>,
           \/ starters' = starters
           \/ starters' = [starters EXCEPT ![Len(sources) + 1] = "spawn"],
           wpc # "stopped", wpc' = "apply"
    PROVE  StreamOwners'
  <1>1. Arrived' = Arrived
    BY HeadGone DEF StreamOf
  <1>2. ~Unqueued'
    BY DEF Unqueued
  <1> QED BY <1>1, <1>2, StreamsKept, StreamTaken

LEMMA StreamWorker ==
    ASSUME OwnInv, Worker \/ Die
    PROVE  StreamOwners'
  <1>1. TypeInv /\ StreamOwners BY DEF OwnInv
  <1>2. CASE Prepared \/ TakeQueue \/ EndRound \/ FrameDone \/ Build
    <2>1. UNCHANGED <<live, stream, starters>> /\ ~Unqueued /\ ~Unqueued'
      BY <1>2 DEF Prepared, TakeQueue, EndRound, FrameDone, Build, Ready, Unqueued,
                  threadVars
    <2>2. UNCHANGED <<todo, queue>> \/ (todo = <<>> /\ todo' = queue /\ queue' = <<>>)
      BY <1>1, <1>2 DEF Prepared, TakeQueue, EndRound, FrameDone, Build, threadVars,
                        TypeInv, Phases, InHand
    <2>3. Arrived' = Arrived
      BY <2>2, HandsKept
    <2> QED BY <2>1, <2>3, StreamsKept DEF Unqueued
  <1>3. CASE ApplyIdentity
    <2>1. /\ todo # <<>> /\ todo' = Tail(todo) /\ queue' = queue
          /\ Head(todo).kind # "stream"
          /\ UNCHANGED <<live, stream, starters>> /\ wpc # "stopped" /\ wpc' = "apply"
      BY <1>3 DEF ApplyIdentity
    <2> QED BY <2>1, StreamOther
  <1>4. CASE CheckStream /\ CurrentStream(Head(todo).gen)
    <2>1. /\ UNCHANGED <<live, stream, starters, todo, queue>>
          /\ ~Unqueued' /\ wpc # "stopped"
      BY <1>4 DEF CheckStream, Unqueued
    <2>2. Arrived' = Arrived
      BY <2>1, HandsKept
    <2> QED BY <2>1, <2>2, StreamsKept DEF Unqueued
  <1>5. CASE CheckStream /\ ~CurrentStream(Head(todo).gen)
    <2>1. /\ todo # <<>> /\ todo' = Tail(todo) /\ queue' = queue
          /\ Head(todo).kind = "stream" /\ live' = live \ {Head(todo).gen}
          /\ UNCHANGED <<stream, starters>> /\ wpc # "stopped" /\ wpc' = "apply"
      BY <1>5 DEF CheckStream
    <2> QED BY <2>1, StreamHead
  <1>6. CASE SwapStream
    <2>1. /\ todo # <<>> /\ todo' = Tail(todo) /\ queue' = queue
          /\ Head(todo).kind = "stream" /\ live' = live \ {stream}
          /\ stream' = Head(todo).gen /\ UNCHANGED starters
          /\ wpc # "stopped" /\ wpc' = "apply"
      BY <1>1, <1>6 DEF SwapStream, TypeInv, Phases, InHand
    <2> QED BY <2>1, StreamHead
  <1>7. CASE CheckSettings /\ Current(gen)
    <2>1. /\ UNCHANGED <<live, stream, starters, todo, queue>>
          /\ ~Unqueued' /\ wpc # "stopped"
      BY <1>7 DEF CheckSettings, Unqueued
    <2>2. Arrived' = Arrived
      BY <2>1, HandsKept
    <2> QED BY <2>1, <2>2, StreamsKept DEF Unqueued
  <1>8. CASE CheckSettings /\ ~Current(gen)
    <2>1. /\ todo # <<>> /\ todo' = Tail(todo) /\ queue' = queue
          /\ Head(todo).kind # "stream"
          /\ UNCHANGED <<live, stream, starters>> /\ wpc # "stopped" /\ wpc' = "apply"
      BY <1>8 DEF CheckSettings
    <2> QED BY <2>1, StreamOther
  <1>9. CASE LoadFirst \/ Refuse \/ Reconfigure
    <2>1. /\ todo # <<>> /\ todo' = Tail(todo) /\ queue' = queue
          /\ Head(todo).kind # "stream"
          /\ UNCHANGED <<live, stream, starters>> /\ wpc # "stopped" /\ wpc' = "apply"
      BY <1>1, <1>9 DEF LoadFirst, Refuse, Reconfigure, Ready, TypeInv, Phases, InHand
    <2> QED BY <2>1, StreamOther
  <1>10. CASE Install
    <2>1. /\ todo # <<>> /\ todo' = Tail(todo) /\ queue' = queue
          /\ Head(todo).kind # "stream"
          /\ UNCHANGED <<live, stream>> /\ wpc # "stopped" /\ wpc' = "apply"
      BY <1>1, <1>10 DEF Install, TypeInv, Phases, InHand
    <2>2. \/ starters' = starters
          \/ starters' = [starters EXCEPT ![Len(sources) + 1] = "spawn"]
      BY <1>1, <1>10, InstallParts
    <2> QED BY <2>1, <2>2, StreamOther
  <1>11. CASE LoopEnds \/ Die
    <2>1. /\ UNCHANGED <<live, stream, starters>> /\ wpc = "loop" /\ wpc' = "closing"
          /\ todo' = queue /\ queue' = <<>>
      BY <1>11 DEF LoopEnds, Die, Leave
    <2>2. todo = <<>>
      BY <1>1, <2>1 DEF TypeInv, Phases, InHand
    <2>3. Arrived' = Arrived
      BY <2>1, <2>2, HandsKept
    <2>4. StreamsIn(queue') = {}
      BY <2>1, EmptyGens
    <2> QED BY <2>1, <2>3, <2>4, StreamsKept
  <1>12. CASE Cleanup
    <2>1. /\ live' = live \ ({stream} \cup StreamsIn(todo)) /\ todo' = <<>>
          /\ wpc = "closing" /\ wpc' = "stopped" /\ UNCHANGED <<queue, stream, starters>>
      BY <1>12 DEF Cleanup
    <2>2. StreamsIn(queue) = {} /\ StreamsIn(todo') = {}
      BY <1>1, <2>1, EmptyGens DEF StreamOwners, Unqueued
    <2>3. Arrived' = {} /\ Arrived = StreamsIn(todo)
      BY <2>1, <2>2 DEF Arrived
    <2>4. live' = {s \in StreamGens : starters[s] = "queue"}
      <3>1. \A s \in StreamGens : starters[s] = "queue" => s \notin Arrived /\ s # stream
        BY <1>1, WaitingTypes DEF StreamOwners
      <3>2. live = ({stream} \ {0}) \cup {s \in StreamGens : starters[s] = "queue"} \cup Arrived
        BY <1>1, <2>1 DEF StreamOwners
      <3> QED BY <1>1, <2>1, <2>3, <3>1, <3>2
    <2>5. stream' # 0 => starters'[stream'] = "done"
      BY <1>1, <2>1 DEF StreamOwners
    <2> QED BY <2>1, <2>2, <2>3, <2>4, <2>5 DEF StreamOwners
  <1> QED BY <1>2, <1>3, <1>4, <1>5, <1>6, <1>7, <1>8, <1>9, <1>10, <1>11, <1>12
          DEF Worker

LEMMA StreamStep == OwnInv /\ [Next]_vars => StreamOwners'
  <1> SUFFICES ASSUME OwnInv, [Next]_vars PROVE StreamOwners'
    OBVIOUS
  <1>1. TypeInv /\ StreamOwners BY DEF OwnInv
  <1>2. ASSUME NEW g \in SettingsGens, Loader(g) PROVE StreamOwners'
    <2>1. UNCHANGED <<live, stream, starters, todo, wpc, stopping>>
      BY <1>2 DEF Loader, SpawnLoader, CheckLoad, CheckInvalid, Acquire,
                  AcquireFails, QueueLoaded, LoaderVars, threadVars
    <2>2. StreamsIn(queue') = StreamsIn(queue)
      <3>1. CASE QueueLoaded(g) BY <1>1, <3>1, QueueLoadedParts
      <3>2. CASE \/ SpawnLoader(g) \/ CheckLoad(g) \/ CheckInvalid(g)
                 \/ Acquire(g) \/ AcquireFails(g)
        BY <3>2 DEF SpawnLoader, CheckLoad, CheckInvalid, Acquire, AcquireFails
      <3> QED BY <1>2, <3>1, <3>2 DEF Loader
    <2>3. Arrived' = Arrived
      BY <2>1, <2>2 DEF Arrived
    <2>4. Unqueued' => StreamsIn(queue') = {}
      BY <1>1, <2>1, <2>2 DEF StreamOwners, Unqueued
    <2> QED BY <2>1, <2>3, <2>4, StreamsKept
  <1>3. CASE UNCHANGED vars
    <2>1. UNCHANGED <<live, stream, starters, todo, queue, wpc>>
      BY <1>3 DEF vars, threadVars
    <2>2. Arrived' = Arrived
      BY <2>1, HandsKept
    <2>3. Unqueued' => StreamsIn(queue') = {}
      BY <1>1, <2>1 DEF StreamOwners, Unqueued
    <2> QED BY <2>1, <2>2, <2>3, StreamsKept
  <1> QED BY <1>2, <1>3, StreamCaller, StreamStarter, StreamWorker DEF Next

-----------------------------------------------------------------------------
\* Every detector acquired and every stream started has exactly the one who
\* will give it back, and what is in use was not given back, however the
\* updates, the helpers and the end of the worker interleave.
THEOREM NoLeaks == Spec => []NothingLeaks
  <1>1. Init => OwnInv BY OwnInit
  <1>2. OwnInv /\ [Next]_vars => OwnInv'
    <2> SUFFICES ASSUME OwnInv, [Next]_vars PROVE OwnInv'
      OBVIOUS
    <2>1. TypeInv' BY TypeStep DEF OwnInv
    <2> QED BY <2>1, NoneTwiceStep, DetectorStep, StreamStep DEF OwnInv
  <1>3. OwnInv => NothingLeaks BY OwnedNothingLeaks
  <1> QED BY <1>1, <1>2, <1>3, PTL DEF Spec

-----------------------------------------------------------------------------
(* Versions.                                                               *)

\* The versions of the settings generations, and the newest config's, rise.
VersionsRise ==
    /\ \A i, j \in 1 .. Len(changes) : i <= j =>
          Script[changes[i]].version <= Script[changes[j]].version
    /\ \A i \in 1 .. Len(changes) :
          Script[changes[i]].version <= Script[config].version
    /\ upc = "request" => Script[given].version = Script[config].version

\* What the pipeline runs is of a generation, and not of a newer one than the
\* change the thread has chosen.
AppliedBefore ==
    applied # 0 => \E k \in 1 .. Len(changes) :
        /\ applied = changes[k]
        /\ wpc \in {"chosen", "built"} => k <= gen

ForwardInv == TypeInv /\ VersionsRise /\ AppliedBefore

\* A later config has no older version.
LEMMA VersionsOrdered ==
    ASSUME NEW p \in Positions, NEW q \in Positions, p <= q
    PROVE  Script[p].version <= Script[q].version
  <1>1. p \in 1 .. Len(Script) /\ q \in 1 .. Len(Script) /\ p \in Nat /\ q \in Nat
    BY SettingsGenRange
  <1>2. CASE p = q BY <1>2, ConfigAt
  <1>3. CASE p # q BY <1>1, <1>3, VersionAssumption
  <1> QED BY <1>2, <1>3

LEMMA ForwardInit == Init => ForwardInv
  <1> SUFFICES ASSUME Init PROVE ForwardInv
    OBVIOUS
  <1>1. TypeInv BY TypeInit
  <1>2. Len(changes) = 1 /\ changes[1] = config /\ upc # "request" /\ applied = 0
    BY DEF Init
  <1>3. Script[config].version \in Nat
    BY <1>1, ConfigAt DEF TypeInv, TypeOK
  <1>4. VersionsRise BY <1>2, <1>3 DEF VersionsRise
  <1>5. AppliedBefore BY <1>2 DEF AppliedBefore
  <1> QED BY <1>1, <1>4, <1>5 DEF ForwardInv

LEMMA VersionsStep == ForwardInv /\ [Next]_vars => VersionsRise'
  <1> SUFFICES ASSUME ForwardInv, [Next]_vars PROVE VersionsRise'
    OBVIOUS
  <1>1. TypeInv /\ VersionsRise BY DEF ForwardInv
  <1>2. config \in Positions /\ given \in Positions /\ changes \in Seq(Positions)
    BY <1>1 DEF TypeInv, TypeOK
  <1>3. CASE UNCHANGED <<config, given, changes>> /\ upc' \in {upc, "idle", "gone"}
    BY <1>1, <1>3 DEF VersionsRise
  <1>4. ASSUME NEW p \in Positions, Update(p) PROVE VersionsRise'
    <2>1. UNCHANGED <<config, changes>> /\ given' = p
      BY <1>4 DEF Update
    <2>2. upc' = "request" => Script[p] = Script[config]
      BY <1>4 DEF Update, Retries
    <2> QED BY <1>1, <2>1, <2>2 DEF VersionsRise
  <1>5. CASE Ignore \/ RequestInvalid \/ Stop
    BY <1>3, <1>5 DEF Ignore, RequestInvalid, Stop
  <1>6. CASE Take
    <2>1. UNCHANGED <<given, changes>> /\ config' = given /\ given >= config
      BY <1>1, <1>6 DEF Take, TypeInv, Counts
    <2>2. Script[config].version <= Script[given].version
      BY <1>2, <2>1, VersionsOrdered, ConfigAt
    <2>3. \A i \in 1 .. Len(changes) : Script[changes[i]].version <= Script[given].version
      BY <1>1, <1>2, <2>2, ConfigAt DEF VersionsRise
    <2> QED BY <1>1, <2>1, <2>3 DEF VersionsRise
  <1>7. CASE RequestSettings
    <2> DEFINE n == Len(changes)
    <2>1. /\ changes' = Append(changes, given) /\ UNCHANGED <<config, given>>
          /\ upc = "request" /\ upc' = "idle"
      BY <1>7 DEF RequestSettings
    <2>2. /\ n \in Nat /\ Len(changes') = n + 1 /\ changes'[n + 1] = given
          /\ \A i \in 1 .. n : changes'[i] = changes[i]
      BY <1>2, <2>1, AppendAt
    <2>3. Script[given].version = Script[config].version /\ Script[given].version \in Nat
      BY <1>1, <1>2, <2>1, ConfigAt DEF VersionsRise
    <2>4. \A i \in 1 .. n + 1 : i \in 1 .. n \/ i = n + 1
      BY <2>2
    <2>5. \A i \in 1 .. n + 1 : Script[changes'[i]].version <= Script[config].version
      BY <1>1, <2>2, <2>3, <2>4 DEF VersionsRise
    <2>6. ASSUME NEW i \in 1 .. n + 1, NEW j \in 1 .. n + 1, i <= j
          PROVE  Script[changes'[i]].version <= Script[changes'[j]].version
      <3>1. CASE j = n + 1 BY <2>2, <2>3, <2>5, <3>1
      <3>2. CASE j \in 1 .. n
        <4>1. i \in 1 .. n BY <2>2, <2>6, <3>2
        <4> QED BY <1>1, <2>2, <2>6, <3>2, <4>1 DEF VersionsRise
      <3> QED BY <2>4, <3>1, <3>2
    <2> QED BY <2>1, <2>2, <2>5, <2>6 DEF VersionsRise
  <1>8. ASSUME NEW g \in SettingsGens, Loader(g) PROVE VersionsRise'
    <2>1. UNCHANGED LoaderVars
      BY <1>8 DEF Loader, SpawnLoader, CheckLoad, CheckInvalid, Acquire,
                  AcquireFails, QueueLoaded
    <2> QED BY <1>3, <2>1 DEF LoaderVars, callerVars
  <1>9. ASSUME NEW s \in StreamGens, Starter(s) PROVE VersionsRise'
    <2>1. UNCHANGED StarterVars
      BY <1>9 DEF Starter, SpawnStarter, StartStream, StartFails, StartAgain,
                  QueueStream
    <2> QED BY <1>3, <2>1 DEF StarterVars, callerVars
  <1>10. CASE Worker \/ Die
    <2>1. UNCHANGED <<callerVars, changes>>
      BY <1>10 DEF Worker, Prepared, TakeQueue, EndRound, FrameDone, ApplyIdentity,
                   CheckStream, SwapStream, CheckSettings, LoadFirst, Refuse, Build,
                   Install, Reconfigure, LoopEnds, Die, Leave, Cleanup, FixedVars
    <2> QED BY <1>3, <2>1 DEF callerVars
  <1>11. CASE UNCHANGED vars
    BY <1>3, <1>11 DEF vars, callerVars
  <1> QED BY <1>4, <1>5, <1>6, <1>7, <1>8, <1>9, <1>10, <1>11 DEF Next, Caller

LEMMA AppliedStep ==
    ForwardInv /\ [Next]_vars =>
        /\ AppliedBefore'
        /\ applied # 0 =>
             applied' # 0 /\ Script[applied'].version >= Script[applied].version
  <1> DEFINE Good ==
        /\ AppliedBefore'
        /\ applied # 0 =>
             applied' # 0 /\ Script[applied'].version >= Script[applied].version
  <1> SUFFICES ASSUME ForwardInv, [Next]_vars PROVE Good
    OBVIOUS
  <1>1. TypeInv /\ VersionsRise /\ AppliedBefore BY DEF ForwardInv
  <1>2. /\ applied # 0 => applied \in Positions
        /\ changes \in Seq(Positions) /\ Len(changes) \in Nat
    BY <1>1, CountTypes DEF TypeInv, TypeOK
  <1>3. applied # 0 => Script[applied].version >= Script[applied].version
    BY <1>2, ConfigAt
  \* The generations grow at the end, so what was applied is still one of them.
  <1>4. /\ Len(changes') \in Nat /\ Len(changes') >= Len(changes)
        /\ \A k \in 1 .. Len(changes) : changes'[k] = changes[k]
    <2>1. CASE changes' = changes BY <1>2, <2>1
    <2>2. CASE changes' = Append(changes, given)
      <3>1. given \in Positions BY <1>1 DEF TypeInv, TypeOK
      <3> QED BY <1>2, <2>2, <3>1, AppendAt
    <2>3. changes' = changes \/ changes' = Append(changes, given)
      <3>1. ASSUME NEW p \in Positions, Update(p) PROVE changes' = changes
        BY <3>1 DEF Update
      <3>2. CASE Caller \/ Stop
        BY <3>2 DEF Caller, Ignore, Take, RequestInvalid, RequestSettings, Stop
      <3>3. ASSUME NEW g \in SettingsGens, Loader(g) PROVE changes' = changes
        BY <3>3 DEF Loader, SpawnLoader, CheckLoad, CheckInvalid, Acquire,
                    AcquireFails, QueueLoaded, LoaderVars
      <3>4. ASSUME NEW s \in StreamGens, Starter(s) PROVE changes' = changes
        BY <3>4 DEF Starter, SpawnStarter, StartStream, StartFails, StartAgain,
                    QueueStream, StarterVars
      <3>5. CASE Worker \/ Die BY <1>1, <3>5, WorkerHands
      <3>6. CASE UNCHANGED vars BY <3>6 DEF vars
      <3> QED BY <3>1, <3>2, <3>3, <3>4, <3>5, <3>6 DEF Next
    <2> QED BY <2>1, <2>2, <2>3
  <1>5. CASE /\ applied' = applied
             /\ \/ wpc' \notin {"chosen", "built"}
                \/ wpc \in {"chosen", "built"} /\ todo' = todo
    <2>1. ASSUME applied # 0 PROVE AppliedBefore'
      <3>1. PICK k \in 1 .. Len(changes) :
                 applied = changes[k] /\ (wpc \in {"chosen", "built"} => k <= gen)
        BY <1>1, <2>1 DEF AppliedBefore
      <3>2. k \in 1 .. Len(changes') /\ applied' = changes'[k]
        BY <1>2, <1>4, <1>5, <3>1
      <3> QED BY <1>5, <3>1, <3>2 DEF AppliedBefore, gen
    <2>2. CASE applied = 0 BY <1>5, <2>2 DEF AppliedBefore
    <2> QED BY <1>3, <1>5, <2>1, <2>2
  <1>6. CASE \/ \E p \in Positions : Update(p)
             \/ Caller \/ Stop
             \/ \E g \in SettingsGens : Loader(g)
             \/ \E s \in StreamGens : Starter(s)
    <2>1. applied' = applied
      <3>1. ASSUME NEW p \in Positions, Update(p) PROVE applied' = applied
        BY <3>1 DEF Update, pipelineVars
      <3>2. CASE Caller \/ Stop
        <4>1. CASE Ignore BY <4>1 DEF Ignore, pipelineVars
        <4>2. CASE Take BY <4>2 DEF Take, pipelineVars
        <4>3. CASE RequestInvalid BY <4>3 DEF RequestInvalid, pipelineVars
        <4>4. CASE RequestSettings BY <4>4 DEF RequestSettings, pipelineVars
        <4>5. CASE Stop BY <4>5 DEF Stop, pipelineVars
        <4> QED BY <3>2, <4>1, <4>2, <4>3, <4>4, <4>5 DEF Caller
      <3>3. ASSUME NEW g \in SettingsGens, Loader(g) PROVE applied' = applied
        BY <3>3 DEF Loader, SpawnLoader, CheckLoad, CheckInvalid, Acquire,
                    AcquireFails, QueueLoaded, LoaderVars, pipelineVars
      <3>4. ASSUME NEW s \in StreamGens, Starter(s) PROVE applied' = applied
        BY <3>4 DEF Starter, SpawnStarter, StartStream, StartFails, StartAgain,
                    QueueStream, StarterVars, pipelineVars
      <3> QED BY <1>6, <3>1, <3>2, <3>3, <3>4
    <2>2. UNCHANGED <<wpc, todo>> BY <1>6, OthersLeaveThread
    <2> QED BY <1>5, <2>1, <2>2
  <1>7. CASE Install \/ Reconfigure
    <2>1. /\ applied' = changes[gen] /\ wpc' = "apply" /\ wpc \in {"chosen", "built"}
      BY <1>7 DEF Install, Reconfigure, Ready, Applied
    <2>2. gen \in 1 .. Len(changes) /\ changes[gen] \in Positions
      BY <1>1, <2>1, GenType DEF TypeInv, Phases, InHand
    <2>3. applied' # 0
      BY <2>1, <2>2, SettingsGenRange
    <2>4. AppliedBefore'
      BY <1>2, <1>4, <2>1, <2>2 DEF AppliedBefore
    <2>5. ASSUME applied # 0
          PROVE  Script[applied'].version >= Script[applied].version
      <3>1. PICK k \in 1 .. Len(changes) : applied = changes[k] /\ k <= gen
        BY <1>1, <2>1, <2>5 DEF AppliedBefore
      <3>2. Script[changes[k]].version <= Script[changes[gen]].version
        BY <1>1, <2>2, <3>1 DEF VersionsRise
      <3>3. changes[k] \in Positions
        BY <1>2, <3>1
      <3> QED BY <2>1, <2>2, <3>1, <3>2, <3>3, ConfigAt
    <2> QED BY <2>3, <2>4, <2>5
  <1>8. CASE CheckSettings
    <2>1. CASE Current(gen)
      <3>1. applied' = applied /\ gen = Len(changes) /\ UNCHANGED <<todo, changes>>
        BY <1>8, <2>1 DEF CheckSettings, Current, FixedVars, pipelineVars
      <3>2. applied # 0 => \E k \in 1 .. Len(changes) : applied = changes[k] /\ k <= gen
        BY <1>1, <1>2, <3>1 DEF AppliedBefore
      <3>3. AppliedBefore'
        BY <3>1, <3>2 DEF AppliedBefore, gen
      <3> QED BY <1>3, <3>1, <3>3
    <2>2. CASE ~Current(gen)
      BY <1>5, <1>8, <2>2 DEF CheckSettings, pipelineVars
    <2> QED BY <2>1, <2>2
  <1>9. CASE Build
    BY <1>5, <1>9 DEF Build, Ready, pipelineVars
  <1>10. CASE \/ Prepared \/ TakeQueue \/ EndRound \/ FrameDone \/ ApplyIdentity
              \/ CheckStream \/ SwapStream \/ LoadFirst \/ Refuse
              \/ LoopEnds \/ Cleanup \/ Die
    <2>1. applied' = applied
      BY <1>10 DEF Prepared, TakeQueue, EndRound, FrameDone, ApplyIdentity,
                   CheckStream, SwapStream, LoadFirst, Refuse, LoopEnds, Cleanup,
                   Die, Leave, pipelineVars
    <2>2. wpc' \notin {"chosen", "built"}
      BY <1>10 DEF Prepared, TakeQueue, EndRound, FrameDone, ApplyIdentity,
                   CheckStream, SwapStream, LoadFirst, Refuse, LoopEnds, Cleanup,
                   Die, Leave, threadVars
    <2> QED BY <1>5, <2>1, <2>2
  <1>11. CASE UNCHANGED vars
    BY <1>5, <1>11 DEF vars, pipelineVars, threadVars
  <1> QED BY <1>6, <1>7, <1>8, <1>9, <1>10, <1>11 DEF Next, Worker

\* The pipeline never goes back to an older version: a slow model load of an
\* older change never lands on a newer one.
THEOREM NeverBack == Spec => AppliedForward
  <1>1. Init => ForwardInv BY ForwardInit
  <1>2. ForwardInv /\ [Next]_vars => ForwardInv'
    <2> SUFFICES ASSUME ForwardInv, [Next]_vars PROVE ForwardInv'
      OBVIOUS
    <2>1. TypeInv' BY TypeStep DEF ForwardInv
    <2> QED BY <2>1, VersionsStep, AppliedStep DEF ForwardInv
  <1>3. ForwardInv /\ [Next]_vars =>
          [applied # 0 =>
             applied' # 0 /\ Script[applied'].version >= Script[applied].version]_vars
    BY AppliedStep
  <1> QED BY <1>1, <1>2, <1>3, PTL DEF Spec, AppliedForward

\* The pipeline runs a version that came, not one that is still to come.
NeverAhead ==
    applied # 0 => Script[applied].version <= Script[config].version

\* What the pipeline runs is at most as new as the newest config given to
\* update(), whatever loads and retries were in flight (worker.py:165-208,
\* 480-565); with NeverBack this is what Delivery relies on in a worker.
THEOREM RunsWhatWasGiven == Spec => []NeverAhead
  <1>1. Init => ForwardInv BY ForwardInit
  <1>2. ForwardInv /\ [Next]_vars => ForwardInv'
    <2> SUFFICES ASSUME ForwardInv, [Next]_vars PROVE ForwardInv'
      OBVIOUS
    <2>1. TypeInv' BY TypeStep DEF ForwardInv
    <2> QED BY <2>1, VersionsStep, AppliedStep DEF ForwardInv
  <1>3. ForwardInv => NeverAhead
    BY DEF ForwardInv, VersionsRise, AppliedBefore, NeverAhead
  <1> QED BY <1>1, <1>2, <1>3, PTL DEF Spec

-----------------------------------------------------------------------------
(* What is under way.                                                      *)

\* The generation asked for last was settled, or somebody still has it.
NewestUnderWay ==
    ~stopping =>
        LET n == Len(changes) IN
        \/ settled = n
        \/ loaders[n] \in {"spawn", "check", "acquire", "queue"}
        \/ n \in Requested

\* A worker without a pipeline whose newest generation is settled was refused.
RefusalShown ==
    ~stopping /\ applied = 0 /\ settled = Len(changes) => state = "error"

\* Who runs a pipeline wanted a stream, and the newest stream is the newest
\* config's.
StreamWanted ==
    /\ applied # 0 => wanted
    /\ wanted => /\ Len(sources) # 0
                 /\ sources[Len(sources)] = Script[config].stream

\* The newest stream is in use, or somebody still has it; the one about to be
\* swapped in is not older than the one in use.
StreamUnderWay ==
    /\ ~stopping /\ Len(sources) # 0 =>
          LET n == Len(sources) IN
          \/ stream = n
          \/ starters[n] \in {"spawn", "start", "wait", "queue"}
          \/ n \in Arrived
    /\ wpc = "swap" => stream <= Head(todo).gen

\* A change of the name waits.
NameIn(q) == \E i \in 1 .. Len(q) : q[i].kind = "identity"

\* The name shown, and the name a pipeline being built will show, are the
\* newest config's, unless a change of it waits for the thread.
LabelFollows ==
    ~stopping =>
        \/ NameIn(todo) \/ NameIn(queue)
        \/ /\ applied # 0 => label = Script[config].name
           /\ wpc = "built" => named = Script[config].name

RestInv ==
    /\ OwnInv /\ NewestUnderWay /\ RefusalShown
    /\ StreamWanted /\ StreamUnderWay /\ LabelFollows

LEMMA StopLasts ==
    ASSUME TypeInv, [Next]_vars, ~stopping'
    PROVE  ~stopping /\ ~Unqueued
  <1>1. stopping => stopping'
    <2>1. CASE Worker \/ Die
      BY <2>1 DEF Worker, Prepared, TakeQueue, EndRound, FrameDone, ApplyIdentity,
                  CheckStream, SwapStream, CheckSettings, LoadFirst, Refuse, Build,
                  Install, Reconfigure, LoopEnds, Die, Leave, Cleanup
    <2>2. CASE UNCHANGED vars
      BY <2>2 DEF vars
    <2> QED BY <2>1, <2>2, OthersLeaveThread DEF Next
  <1> QED BY <1>1 DEF TypeInv, Phases, InHand

\* The steps of the thread but the swaps, and what it has in hand after them.
LEMMA HandsParts ==
    ASSUME TypeInv, Worker
    PROVE  \/ UNCHANGED <<todo, queue>>
           \/ todo = <<>> /\ todo' = queue /\ queue' = <<>>
           \/ todo # <<>> /\ todo' = Tail(todo) /\ queue' = queue
           \/ Cleanup
  BY DEF Worker, Prepared, TakeQueue, EndRound, FrameDone, ApplyIdentity,
         CheckStream, SwapStream, CheckSettings, LoadFirst, Refuse, Build,
         Install, Reconfigure, LoopEnds, Leave, threadVars, TypeInv, Phases,
         InHand, Ready

\* What the others do to what waits for the thread.
LEMMA OthersQueue ==
    ASSUME TypeInv,
           \/ \E p \in Positions : Update(p)
           \/ Caller \/ Stop
           \/ \E g \in SettingsGens : Loader(g)
           \/ \E s \in StreamGens : Starter(s)
    PROVE  \/ queue' = queue
           \/ \E c \in Change : queue' = Append(queue, c)
  <1>1. CASE (\E p \in Positions : Update(p)) \/ Ignore \/ RequestInvalid \/ Stop
    BY <1>1 DEF Update, Ignore, RequestInvalid, Stop
  <1>2. CASE Take
    BY <1>2, ChangeTypes DEF Take
  <1>3. CASE RequestSettings
    <2>1. SettingsChange(Len(changes) + 1, FALSE) \in Change \/ queue' = queue
      <3>1. Counts' BY <1>3, CountStep DEF Next, Caller
      <3> QED BY <1>3, <3>1, NextGen, ChangeTypes
    <2> QED BY <1>3, <2>1, RequestParts
  <1>4. ASSUME NEW g \in SettingsGens, Loader(g)
        PROVE  queue' = queue \/ \E c \in Change : queue' = Append(queue, c)
    BY <1>4, ChangeTypes DEF Loader, SpawnLoader, CheckLoad, CheckInvalid, Acquire,
                             AcquireFails, QueueLoaded
  <1>5. ASSUME NEW s \in StreamGens, Starter(s)
        PROVE  queue' = queue \/ \E c \in Change : queue' = Append(queue, c)
    BY <1>5, ChangeTypes DEF Starter, SpawnStarter, StartStream, StartFails,
                             StartAgain, QueueStream
  <1> QED BY <1>1, <1>2, <1>3, <1>4, <1>5 DEF Caller

\* What waits goes on waiting while others take their steps.
LEMMA OthersKeepWaiting ==
    ASSUME TypeInv,
           \/ \E p \in Positions : Update(p)
           \/ Caller \/ Stop
           \/ \E g \in SettingsGens : Loader(g)
           \/ \E s \in StreamGens : Starter(s)
    PROVE  /\ Requested \subseteq Requested' /\ Arrived \subseteq Arrived'
           /\ NameIn(todo) \/ NameIn(queue) => NameIn(todo') \/ NameIn(queue')
  <1>1. todo' = todo BY OthersLeaveThread
  <1>2. CASE queue' = queue
    BY <1>1, <1>2 DEF Requested, Arrived, NameIn
  <1>3. ASSUME NEW c \in Change, queue' = Append(queue, c)
        PROVE  /\ Requested \subseteq Requested' /\ Arrived \subseteq Arrived'
               /\ NameIn(todo) \/ NameIn(queue) => NameIn(todo') \/ NameIn(queue')
    <2>1. queue \in Seq(Change) BY DEF TypeInv, TypeOK
    <2>2. /\ SettingsIn(queue) \subseteq SettingsIn(queue')
          /\ StreamsIn(queue) \subseteq StreamsIn(queue')
      BY <1>3, <2>1, AppendGens
    <2>3. NameIn(queue) => NameIn(queue')
      BY <1>3, <2>1, AppendAt DEF NameIn
    <2>4. Requested \subseteq Requested' /\ Arrived \subseteq Arrived'
      BY <1>1, <2>2 DEF Requested, Arrived
    <2>5. NameIn(todo) => NameIn(todo')
      BY <1>1 DEF NameIn
    <2> QED BY <2>3, <2>4, <2>5
  <1> QED BY <1>2, <1>3, OthersQueue

LEMMA HeadNames ==
    ASSUME TypeInv, todo # <<>>, todo' = Tail(todo), queue' = queue,
           Head(todo).kind # "identity"
    PROVE  NameIn(todo) \/ NameIn(queue) => NameIn(todo') \/ NameIn(queue')
  <1>1. todo \in Seq(Change) BY DEF TypeInv, TypeOK
  <1>2. /\ Len(todo) \in Nat \ {0} /\ Head(todo) = todo[1]
        /\ Len(todo') = Len(todo) - 1
        /\ \A i \in 1 .. Len(todo) - 1 : todo'[i] = todo[i + 1]
    BY <1>1, TailAt
  <1>3. ASSUME NEW i \in 1 .. Len(todo), todo[i].kind = "identity"
        PROVE  NameIn(todo')
    <2>1. i - 1 \in 1 .. Len(todo')
      BY <1>2, <1>3
    <2>2. todo'[i - 1] = todo[i]
      BY <1>2, <2>1
    <2> QED BY <1>3, <2>1, <2>2 DEF NameIn
  <1>4. NameIn(todo) => NameIn(todo')
    BY <1>3 DEF NameIn
  <1>5. NameIn(queue) => NameIn(queue')
    BY DEF NameIn
  <1> QED BY <1>4, <1>5

-----------------------------------------------------------------------------
(* The newest settings generation.                                         *)

LEMMA NewestKept ==
    ASSUME NewestUnderWay, UNCHANGED changes, ~stopping,
           settled = Len(changes) => settled' = Len(changes),
           loaders'[Len(changes)] = loaders[Len(changes)],
           Len(changes) \in Requested => Len(changes) \in Requested'
    PROVE  NewestUnderWay'
  BY DEF NewestUnderWay

LEMMA NewestCaller ==
    ASSUME OwnInv, NewestUnderWay, ~stopping,
           (\E p \in Positions : Update(p)) \/ Caller \/ Stop
    PROVE  NewestUnderWay'
  <1>1. TypeInv BY DEF OwnInv
  <1>2. Requested \subseteq Requested'
    BY <1>1, OthersKeepWaiting
  <1>3. CASE (\E p \in Positions : Update(p)) \/ Ignore \/ Take \/ Stop
    <2>1. UNCHANGED <<changes, settled, loaders>>
      BY <1>3 DEF Update, Ignore, Take, Stop, statusVars
    <2> QED BY <1>2, <2>1, NewestKept
  <1>4. CASE RequestInvalid
    <2>1. UNCHANGED <<changes, settled, loaders>>
      BY <1>4 DEF RequestInvalid, Reject, statusVars
    <2> QED BY <1>2, <2>1, NewestKept
  <1>5. CASE RequestSettings
    <2> DEFINE n == Len(changes) + 1
    <2>1. n \in SettingsGens /\ Len(changes') = n
      <3>1. Counts' BY <1>1, <1>5, CountStep DEF Next, Caller
      <3> QED BY <1>1, <1>5, <3>1, NextGen, RequestParts
    <2>2. CASE loaders' = [loaders EXCEPT ![n] = "spawn"]
      <3>1. loaders'[n] = "spawn"
        BY <1>1, <2>1, <2>2 DEF TypeInv, TypeOK
      <3> QED BY <2>1, <3>1 DEF NewestUnderWay
    <2>3. CASE queue' = Append(queue, SettingsChange(n, FALSE))
      <3>1. SettingsChange(n, FALSE) \in Change /\ queue \in Seq(Change)
        BY <1>1, <2>1, ChangeTypes DEF TypeInv, TypeOK
      <3>2. n \in SettingsIn(queue')
        BY <2>3, <3>1, AppendGens DEF SettingsOfChange, SettingsChange
      <3> QED BY <2>1, <3>2 DEF NewestUnderWay, Requested
    <2> QED BY <1>1, <1>5, <2>2, <2>3, RequestParts
  <1> QED BY <1>3, <1>4, <1>5 DEF Caller

\* A loader hands its change on, or settles it, unless there is a newer one.
LEMMA NewestLoader ==
    ASSUME OwnInv, NewestUnderWay, ~stopping, NEW g \in SettingsGens, Loader(g)
    PROVE  NewestUnderWay'
  <1> DEFINE n == Len(changes)
  <1>1. TypeInv /\ n \in Nat \ {0} /\ loaders \in [SettingsGens ->
                      {"none", "spawn", "check", "acquire", "queue", "done"}]
    BY CountTypes DEF OwnInv, TypeInv, TypeOK
  <1>2. Requested \subseteq Requested'
    BY <1>1, OthersKeepWaiting
  <1>3. UNCHANGED <<changes, stopping>>
    BY DEF Loader, SpawnLoader, CheckLoad, CheckInvalid, Acquire, AcquireFails,
           QueueLoaded, LoaderVars
  <1>4. settled = n => settled' = n
    BY <1>1 DEF Loader, SpawnLoader, CheckLoad, CheckInvalid, Acquire, AcquireFails,
           QueueLoaded, Reject, statusVars
  <1>5. \A h \in SettingsGens \ {g} : loaders'[h] = loaders[h]
    BY <1>1 DEF Loader, SpawnLoader, CheckLoad, CheckInvalid, Acquire, AcquireFails,
                QueueLoaded
  <1>6. CASE g # n
    <2>1. n \in SettingsGens BY <1>1 DEF TypeInv, TypeOK
    <2> QED BY <1>2, <1>3, <1>4, <1>5, <1>6, <2>1, NewestKept
  <1>7. CASE g = n
    <2>1. CASE SpawnLoader(g) \/ CheckLoad(g) \/ Acquire(g)
      <3>1. loaders'[n] \in {"check", "acquire", "queue"}
        BY <1>1, <1>7, <2>1 DEF SpawnLoader, CheckLoad, Acquire, Current
      <3> QED BY <1>3, <3>1 DEF NewestUnderWay
    <2>2. CASE CheckInvalid(g) \/ AcquireFails(g)
      <3>1. settled' = n
        BY <1>1, <1>7, <2>2 DEF CheckInvalid, AcquireFails, Reject
      <3> QED BY <1>3, <3>1 DEF NewestUnderWay
    <2>3. CASE QueueLoaded(g)
      <3>1. queue' = Append(queue, SettingsChange(g, TRUE))
        BY <1>7, <2>3 DEF QueueLoaded, Current
      <3>2. SettingsChange(g, TRUE) \in Change /\ queue \in Seq(Change)
        BY <1>1, ChangeTypes DEF TypeInv, TypeOK
      <3>3. g \in SettingsIn(queue')
        BY <3>1, <3>2, AppendGens DEF SettingsOfChange, SettingsChange
      <3> QED BY <1>3, <1>7, <3>3 DEF NewestUnderWay, Requested
    <2> QED BY <2>1, <2>2, <2>3 DEF Loader
  <1> QED BY <1>6, <1>7

\* The thread settles the change it has in hand, or sends it back to a loader,
\* unless there is a newer one.
LEMMA NewestWorker ==
    ASSUME OwnInv, NewestUnderWay, ~stopping, ~stopping', Worker \/ Die
    PROVE  NewestUnderWay'
  <1> DEFINE n == Len(changes)
  <1>1. TypeInv /\ ~Unqueued /\ changes' = changes /\ n \in Nat \ {0} /\ n \in SettingsGens
    BY WorkerHands, CountTypes DEF OwnInv, TypeInv, TypeOK, Phases, InHand
  <1>2. CASE Prepared \/ TakeQueue \/ EndRound \/ FrameDone \/ Build
    <2>1. UNCHANGED <<settled, loaders>>
      BY <1>2 DEF Prepared, TakeQueue, EndRound, FrameDone, Build
    <2>2. UNCHANGED <<todo, queue>> \/ (todo = <<>> /\ todo' = queue /\ queue' = <<>>)
      BY <1>1, <1>2 DEF Prepared, TakeQueue, EndRound, FrameDone, Build, threadVars,
                        TypeInv, Phases, InHand
    <2>3. Requested' = Requested BY <2>2, HandsKept
    <2> QED BY <1>1, <2>1, <2>3, NewestKept
  <1>3. CASE ApplyIdentity \/ CheckStream \/ SwapStream
    <2>1. UNCHANGED <<settled, loaders, queue>>
      BY <1>3 DEF ApplyIdentity, CheckStream, SwapStream
    <2>2. \/ todo' = todo
          \/ todo # <<>> /\ todo' = Tail(todo) /\ Head(todo).kind # "settings"
      BY <1>1, <1>3 DEF ApplyIdentity, CheckStream, SwapStream, TypeInv, Phases, InHand
    <2>3. Requested \subseteq Requested'
      <3>1. CASE todo' = todo BY <2>1, <3>1 DEF Requested
      <3>2. CASE todo # <<>> /\ todo' = Tail(todo) /\ Head(todo).kind # "settings"
        BY <2>1, <3>2, HeadGone DEF SettingsOfChange
      <3> QED BY <2>2, <3>1, <3>2
    <2> QED BY <1>1, <2>1, <2>3, NewestKept
  <1>4. CASE CheckSettings /\ Current(gen)
    <2>1. UNCHANGED <<settled, loaders, queue, todo>>
      BY <1>4 DEF CheckSettings
    <2> QED BY <1>1, <2>1, NewestKept DEF Requested
  <1>5. CASE CheckSettings /\ ~Current(gen)
    <2>1. /\ UNCHANGED <<settled, loaders, queue>> /\ todo # <<>> /\ todo' = Tail(todo)
          /\ Head(todo).kind = "settings" /\ gen # n
      BY <1>5 DEF CheckSettings, Current
    <2>2. Requested \subseteq Requested' \cup {gen}
      BY <2>1, HeadGone DEF SettingsOfChange, gen
    <2> QED BY <1>1, <2>1, <2>2, NewestKept
  <1>6. CASE LoadFirst \/ Refuse \/ Install \/ Reconfigure
    <2>1. /\ todo # <<>> /\ todo' = Tail(todo) /\ queue' = queue
          /\ Head(todo).kind = "settings"
      BY <1>1, <1>6 DEF LoadFirst, Refuse, Install, Reconfigure, Ready,
                        TypeInv, Phases, InHand
    <2>2. Requested \subseteq Requested' \cup {gen}
      BY <2>1, HeadGone DEF SettingsOfChange, gen
    <2>3. gen \in SettingsGens /\ gen \in 1 .. n
      BY <1>1, <2>1, GenType
    <2>4. settled \in 0 .. n /\ loaders \in [SettingsGens ->
                      {"none", "spawn", "check", "acquire", "queue", "done"}]
      BY <1>1 DEF TypeInv, TypeOK
    <2>5. CASE gen # n
      <3>1. loaders'[n] = loaders[n]
        BY <1>1, <1>6, <2>3, <2>4, <2>5 DEF LoadFirst, Refuse, Install, Reconfigure
      <3>2. settled = n => settled' = n
        BY <1>1, <1>6, <2>3, <2>4, <2>5
           DEF LoadFirst, Refuse, Install, Reconfigure, Applied, Reject, statusVars
      <3> QED BY <1>1, <2>2, <2>5, <3>1, <3>2, NewestKept
    <2>6. CASE gen = n
      <3>1. CASE LoadFirst
        <4>1. loaders'[n] = "spawn"
          BY <2>3, <2>4, <2>6, <3>1 DEF LoadFirst
        <4> QED BY <1>1, <4>1 DEF NewestUnderWay
      <3>2. CASE Refuse
        <4>1. settled' = n
          BY <2>3, <2>6, <3>2 DEF Refuse, Reject
        <4> QED BY <1>1, <4>1 DEF NewestUnderWay
      <3>3. CASE Install \/ Reconfigure
        <4>1. settled' = n
          BY <2>3, <2>4, <2>6, <3>3 DEF Install, Reconfigure, Applied
        <4> QED BY <1>1, <4>1 DEF NewestUnderWay
      <3> QED BY <1>6, <3>1, <3>2, <3>3
    <2> QED BY <2>5, <2>6
  <1>7. ~LoopEnds /\ ~Die /\ ~Cleanup
    BY <1>1 DEF LoopEnds, Die, Leave, Cleanup, Unqueued
  <1> QED BY <1>2, <1>3, <1>4, <1>5, <1>6, <1>7 DEF Worker

LEMMA NewestStep ==
    OwnInv /\ NewestUnderWay /\ [Next]_vars => NewestUnderWay'
  <1> SUFFICES ASSUME OwnInv, NewestUnderWay, [Next]_vars, ~stopping'
               PROVE  NewestUnderWay'
    BY DEF NewestUnderWay
  <1>1. ~stopping /\ TypeInv
    BY StopLasts DEF OwnInv
  <1>2. CASE (\E p \in Positions : Update(p)) \/ Caller \/ Stop
    BY <1>1, <1>2, NewestCaller
  <1>3. ASSUME NEW g \in SettingsGens, Loader(g) PROVE NewestUnderWay'
    BY <1>1, <1>3, NewestLoader
  <1>4. ASSUME NEW s \in StreamGens, Starter(s) PROVE NewestUnderWay'
    <2>1. UNCHANGED <<changes, settled, loaders>>
      BY <1>4 DEF Starter, SpawnStarter, StartStream, StartFails, StartAgain,
                  QueueStream, StarterVars
    <2>2. Requested \subseteq Requested'
      BY <1>1, <1>4, OthersKeepWaiting
    <2> QED BY <1>1, <2>1, <2>2, NewestKept
  <1>5. CASE Worker \/ Die
    BY <1>1, <1>5, NewestWorker
  <1>6. CASE UNCHANGED vars
    <2>1. UNCHANGED <<changes, settled, loaders, todo, queue>>
      BY <1>6 DEF vars, threadVars
    <2> QED BY <1>1, <2>1, NewestKept DEF Requested
  <1> QED BY <1>2, <1>3, <1>4, <1>5, <1>6 DEF Next

-----------------------------------------------------------------------------
(* What a refused worker says.                                             *)

LEMMA RefusalReject ==
    ASSUME TypeInv, NEW p, NEW g \in 0 .. Len(changes), NEW loadError,
           RefusalShown, ~stopping, Reject(p, g, loadError),
           UNCHANGED <<changes, applied>>
    PROVE  RefusalShown'
  <1>1. Len(changes) \in Nat \ {0} BY CountTypes
  <1>2. CASE g \notin {0, Len(changes)}
    BY <1>2 DEF Reject, RefusalShown, statusVars
  <1>3. CASE g \in {0, Len(changes)}
    BY <1>1, <1>3 DEF Reject, RefusalShown
  <1> QED BY <1>2, <1>3

LEMMA RefusalStep ==
    TypeInv /\ RefusalShown /\ [Next]_vars => RefusalShown'
  <1> SUFFICES ASSUME TypeInv, RefusalShown, [Next]_vars, ~stopping'
               PROVE  RefusalShown'
    BY DEF RefusalShown
  <1>1. /\ ~stopping /\ ~Unqueued /\ Len(changes) \in Nat \ {0}
        /\ settled \in 0 .. Len(changes)
    BY StopLasts, CountTypes DEF TypeInv, TypeOK
  <1>2. CASE UNCHANGED <<changes, settled, applied, state>>
    BY <1>1, <1>2 DEF RefusalShown
  <1>3. CASE (\E p \in Positions : Update(p)) \/ Ignore \/ Take \/ Stop
    BY <1>2, <1>3 DEF Update, Ignore, Take, Stop, statusVars, pipelineVars
  <1>4. CASE RequestInvalid
    <2>1. Reject(given, 0, FALSE) /\ UNCHANGED <<changes, applied>>
      BY <1>4 DEF RequestInvalid, pipelineVars
    <2>2. 0 \in 0 .. Len(changes) BY <1>1
    <2> QED BY <1>1, <2>1, <2>2, RefusalReject
  <1>5. CASE RequestSettings
    <2>1. settled' = settled /\ Len(changes') = Len(changes) + 1
      BY <1>5, RequestParts DEF RequestSettings, statusVars
    <2> QED BY <1>1, <2>1 DEF RefusalShown
  <1>6. ASSUME NEW g \in SettingsGens, Loader(g) PROVE RefusalShown'
    <2>1. UNCHANGED <<changes, applied>>
      BY <1>6 DEF Loader, SpawnLoader, CheckLoad, CheckInvalid, Acquire,
                  AcquireFails, QueueLoaded, LoaderVars, pipelineVars
    <2>2. CASE SpawnLoader(g) \/ CheckLoad(g) \/ Acquire(g) \/ QueueLoaded(g)
      BY <1>2, <2>1, <2>2 DEF SpawnLoader, CheckLoad, Acquire, QueueLoaded, statusVars
    <2>3. CASE CheckInvalid(g) \/ AcquireFails(g)
      <3>1. loaders[g] # "none"
        BY <2>3 DEF CheckInvalid, AcquireFails
      <3>2. g \in 0 .. Len(changes)
        BY <1>1, <3>1, SettingsGenRange DEF TypeInv, Phases, GensTaken
      <3>3. \E loadError \in BOOLEAN : Reject(changes[g], g, loadError)
        BY <2>3 DEF CheckInvalid, AcquireFails
      <3> QED BY <1>1, <2>1, <3>2, <3>3, RefusalReject
    <2> QED BY <1>6, <2>2, <2>3 DEF Loader
  <1>7. ASSUME NEW s \in StreamGens, Starter(s) PROVE RefusalShown'
    BY <1>2, <1>7 DEF Starter, SpawnStarter, StartStream, StartFails, StartAgain,
                      QueueStream, StarterVars, pipelineVars
  <1>8. CASE \/ Prepared \/ TakeQueue \/ EndRound \/ ApplyIdentity \/ CheckStream
             \/ SwapStream \/ CheckSettings \/ LoadFirst \/ Build
    <2>1. UNCHANGED <<changes, settled, applied, state>>
      BY <1>8 DEF Prepared, TakeQueue, EndRound, ApplyIdentity, CheckStream,
                  SwapStream, CheckSettings, LoadFirst, Build, FixedVars, pipelineVars
    <2> QED BY <1>2, <2>1
  <1>9. CASE FrameDone
    BY <1>9 DEF FrameDone, pipelineVars, RefusalShown
  <1>10. CASE Refuse
    <2>1. gen \in 0 .. Len(changes)
      <3>1. todo # <<>> /\ Head(todo).kind = "settings"
        BY <1>10 DEF Refuse, Ready, TypeInv, Phases, InHand
      <3> QED BY <1>1, <3>1, GenType
    <2>2. Reject(changes[gen], gen, FALSE) /\ UNCHANGED <<changes, applied>>
      BY <1>10 DEF Refuse, pipelineVars
    <2> QED BY <1>1, <2>1, <2>2, RefusalReject
  <1>11. CASE Install \/ Reconfigure
    <2>1. applied' = changes[gen] /\ todo # <<>> /\ Head(todo).kind = "settings"
      BY <1>11 DEF Install, Reconfigure, Ready, Applied, TypeInv, Phases, InHand
    <2>2. applied' # 0
      BY <2>1, GenType, SettingsGenRange
    <2> QED BY <2>2 DEF RefusalShown
  <1>12. ~LoopEnds /\ ~Die /\ ~Cleanup
    BY <1>1 DEF LoopEnds, Die, Leave, Cleanup, Unqueued
  <1>13. CASE UNCHANGED vars
    BY <1>2, <1>13 DEF vars, pipelineVars, statusVars
  <1> QED BY <1>3, <1>4, <1>5, <1>6, <1>7, <1>8, <1>9, <1>10, <1>11, <1>12, <1>13
          DEF Next, Caller, Worker

-----------------------------------------------------------------------------
(* The newest stream.                                                      *)

LEMMA WantedStep ==
    TypeInv /\ StreamWanted /\ [Next]_vars => StreamWanted'
  <1> SUFFICES ASSUME TypeInv, StreamWanted, [Next]_vars PROVE StreamWanted'
    OBVIOUS
  <1>1. CASE UNCHANGED <<config, sources, wanted, applied>>
    BY <1>1 DEF StreamWanted
  <1>2. CASE (\E p \in Positions : Update(p)) \/ Ignore \/ RequestInvalid \/ RequestSettings \/ Stop
    BY <1>1, <1>2 DEF Update, Ignore, RequestInvalid, RequestSettings, Stop, pipelineVars
  <1>3. CASE Take
    <2>1. UNCHANGED <<wanted, applied>> /\ config' = given
      BY <1>3 DEF Take, pipelineVars
    <2>2. CASE wanted /\ Script[given].stream # Script[config].stream
      <3>1. sources' = Append(sources, Script[given].stream)
        BY <1>3, <2>2 DEF Take
      <3>2. sources \in Seq(Streams) /\ Script[given].stream \in Streams
        BY ConfigAt DEF TypeInv, TypeOK
      <3>3. Len(sources') # 0 /\ sources'[Len(sources')] = Script[config'].stream
        BY <2>1, <3>1, <3>2, AppendAt
      <3> QED BY <2>1, <3>3 DEF StreamWanted
    <2>3. CASE ~(wanted /\ Script[given].stream # Script[config].stream)
      <3>1. sources' = sources
        BY <1>3, <2>3 DEF Take
      <3>2. wanted => Script[config'].stream = Script[config].stream
        BY <2>1, <2>3
      <3> QED BY <2>1, <3>1, <3>2 DEF StreamWanted
    <2> QED BY <2>2, <2>3
  <1>4. ASSUME NEW g \in SettingsGens, Loader(g) PROVE StreamWanted'
    <2>1. UNCHANGED LoaderVars
      BY <1>4 DEF Loader, SpawnLoader, CheckLoad, CheckInvalid, Acquire,
                  AcquireFails, QueueLoaded
    <2> QED BY <1>1, <2>1 DEF LoaderVars, callerVars, pipelineVars
  <1>5. ASSUME NEW s \in StreamGens, Starter(s) PROVE StreamWanted'
    <2>1. UNCHANGED StarterVars
      BY <1>5 DEF Starter, SpawnStarter, StartStream, StartFails, StartAgain,
                  QueueStream
    <2> QED BY <1>1, <2>1 DEF StarterVars, callerVars, pipelineVars
  <1>6. CASE Install
    <2>1. wanted' = TRUE /\ config' = config
      BY <1>6 DEF Install, FixedVars, callerVars
    <2>2. CASE wanted
      BY <1>6, <2>1, <2>2 DEF Install, StreamWanted
    <2>3. CASE ~wanted
      <3>1. sources' = Append(sources, Script[config].stream)
        BY <1>6, <2>3 DEF Install
      <3>2. sources \in Seq(Streams) /\ Script[config].stream \in Streams
        BY ConfigAt DEF TypeInv, TypeOK
      <3>3. Len(sources') # 0 /\ sources'[Len(sources')] = Script[config'].stream
        BY <2>1, <3>1, <3>2, AppendAt
      <3> QED BY <2>1, <3>3 DEF StreamWanted
    <2> QED BY <2>2, <2>3
  <1>7. CASE Reconfigure
    <2>1. UNCHANGED <<config, sources, wanted>> /\ applied # 0
      BY <1>7 DEF Reconfigure, Rebuilds, FixedVars, callerVars
    <2> QED BY <2>1 DEF StreamWanted
  <1>8. CASE \/ Prepared \/ TakeQueue \/ EndRound \/ FrameDone \/ ApplyIdentity
             \/ CheckStream \/ SwapStream \/ CheckSettings \/ LoadFirst \/ Refuse
             \/ Build \/ LoopEnds \/ Die \/ Cleanup
    <2>1. UNCHANGED <<config, sources, wanted, applied>>
      BY <1>8 DEF Prepared, TakeQueue, EndRound, FrameDone, ApplyIdentity,
                  CheckStream, SwapStream, CheckSettings, LoadFirst, Refuse, Build,
                  LoopEnds, Die, Leave, Cleanup, FixedVars, callerVars, pipelineVars
    <2> QED BY <1>1, <2>1
  <1>9. CASE UNCHANGED vars
    BY <1>1, <1>9 DEF vars, callerVars, pipelineVars
  <1> QED BY <1>2, <1>3, <1>4, <1>5, <1>6, <1>7, <1>8, <1>9 DEF Next, Caller, Worker

\* The stream in use and the one in hand are not newer than the newest.
LEMMA StreamsTaken ==
    ASSUME OwnInv
    PROVE  /\ stream \in Nat /\ stream <= Len(sources) /\ Len(sources) \in Nat
           /\ \A s \in Arrived : s \in StreamGens /\ s <= Len(sources)
  <1>1. TypeInv /\ Len(sources) \in Nat /\ stream \in StreamGens \cup {0}
    BY CountTypes DEF OwnInv, TypeInv, TypeOK
  <1>2. \A s \in StreamGens : starters[s] # "none" => s <= Len(sources)
    BY <1>1 DEF TypeInv, Phases, GensTaken
  <1>3. \A s \in Arrived : s \in StreamGens /\ starters[s] = "done"
    BY <1>1, WaitingTypes DEF OwnInv, StreamOwners
  <1>4. stream # 0 => starters[stream] = "done"
    BY DEF OwnInv, StreamOwners
  <1> QED BY <1>1, <1>2, <1>3, <1>4, SettingsGenRange

LEMMA StreamKept ==
    ASSUME StreamUnderWay, UNCHANGED <<sources, stream, wpc>>, todo' = todo,
           ~stopping' => ~stopping /\ starters'[Len(sources)] = starters[Len(sources)],
           Arrived \subseteq Arrived'
    PROVE  StreamUnderWay'
  BY DEF StreamUnderWay

\* The next stream generation has a starter.
LEMMA StreamSpawned ==
    ASSUME TypeInv, TypeInv', StreamUnderWay, UNCHANGED <<stream, wpc, todo>>,
           Len(sources') = Len(sources) + 1,
           starters' = [starters EXCEPT ![Len(sources) + 1] = "spawn"]
    PROVE  StreamUnderWay'
  <1>1. Len(sources') \in StreamGens
    BY CountTypes, SettingsGenRange DEF TypeInv, TypeOK
  <1>2. starters'[Len(sources')] = "spawn"
    BY <1>1 DEF TypeInv, TypeOK
  <1> QED BY <1>2 DEF StreamUnderWay

LEMMA StreamUnderWayCaller ==
    ASSUME OwnInv, TypeInv', StreamUnderWay,
           (\E p \in Positions : Update(p)) \/ Caller \/ Stop
    PROVE  StreamUnderWay'
  <1>1. TypeInv /\ Arrived \subseteq Arrived'
    BY OthersKeepWaiting DEF OwnInv
  <1>2. UNCHANGED <<wpc, todo>> /\ (stopping => stopping')
    BY OthersLeaveThread
  <1>3. CASE UNCHANGED <<sources, stream, starters>>
    BY <1>1, <1>2, <1>3, StreamKept
  <1>4. CASE (\E p \in Positions : Update(p)) \/ Ignore \/ RequestInvalid \/ Stop
    BY <1>3, <1>4 DEF Update, Ignore, RequestInvalid, Stop
  <1>5. CASE Take
    BY <1>1, <1>2, <1>3, <1>5, TakeParts, StreamSpawned
  <1>6. CASE RequestSettings
    BY <1>1, <1>3, <1>6, RequestParts
  <1> QED BY <1>4, <1>5, <1>6 DEF Caller

\* A starter goes on trying, or hands its stream on, unless there is a newer one.
LEMMA StreamUnderWayStarter ==
    ASSUME OwnInv, StreamUnderWay, NEW s \in StreamGens, Starter(s)
    PROVE  StreamUnderWay'
  <1> DEFINE n == Len(sources)
  <1>1. /\ TypeInv /\ Arrived \subseteq Arrived' /\ n \in Nat
        /\ starters \in [StreamGens ->
                      {"none", "spawn", "start", "wait", "queue", "done"}]
    BY OthersKeepWaiting, CountTypes DEF OwnInv, TypeInv, TypeOK
  <1>2. UNCHANGED <<sources, stream, wpc, todo, stopping>>
    BY DEF Starter, SpawnStarter, StartStream, StartFails, StartAgain, QueueStream,
           StarterVars, threadVars
  <1>3. \A r \in StreamGens \ {s} : starters'[r] = starters[r]
    BY <1>1 DEF Starter, SpawnStarter, StartStream, StartFails, StartAgain, QueueStream
  <1>4. CASE s # n \/ n = 0
    <2>1. n # 0 => n \in StreamGens
      BY <1>1, SettingsGenRange DEF TypeInv, TypeOK
    <2>2. n # 0 => starters'[n] = starters[n]
      BY <1>3, <1>4, <2>1
    <2> QED BY <1>1, <1>2, <2>2 DEF StreamUnderWay
  <1>5. CASE s = n /\ ~stopping
    <2>1. CASE SpawnStarter(s) \/ StartStream(s) \/ StartFails(s) \/ StartAgain(s)
      <3>1. starters'[n] \in {"start", "wait", "queue"}
        BY <1>1, <1>5, <2>1 DEF SpawnStarter, StartStream, StartFails, StartAgain,
                                CurrentStream
      <3> QED BY <1>2, <3>1 DEF StreamUnderWay
    <2>2. CASE QueueStream(s)
      <3>1. queue' = Append(queue, [kind |-> "stream", gen |-> s])
        BY <1>5, <2>2 DEF QueueStream, CurrentStream
      <3>2. [kind |-> "stream", gen |-> s] \in Change /\ queue \in Seq(Change)
        BY <1>1, ChangeTypes DEF TypeInv, TypeOK
      <3>3. s \in StreamsIn(queue')
        BY <3>1, <3>2, AppendGens DEF StreamOf
      <3>4. n \in Arrived'
        BY <1>5, <3>3 DEF Arrived
      <3> QED BY <1>2, <3>4 DEF StreamUnderWay
    <2> QED BY <2>1, <2>2 DEF Starter
  <1>6. CASE stopping
    BY <1>2, <1>6 DEF StreamUnderWay
  <1> QED BY <1>4, <1>5, <1>6

\* The thread swaps the newest stream in, and drops only older ones.
LEMMA StreamUnderWayWorker ==
    ASSUME OwnInv, TypeInv', StreamUnderWay, Worker \/ Die
    PROVE  StreamUnderWay'
  <1> DEFINE n == Len(sources)
  <1>1. TypeInv /\ n \in Nat /\ (Unqueued => stopping)
    BY CountTypes DEF OwnInv, TypeInv, Phases, InHand
  <1>2. CASE Prepared \/ TakeQueue \/ EndRound \/ FrameDone \/ Build
    <2>1. UNCHANGED <<sources, stream, starters, stopping>> /\ wpc' # "swap"
      BY <1>2 DEF Prepared, TakeQueue, EndRound, FrameDone, Build, threadVars
    <2>2. UNCHANGED <<todo, queue>> \/ (todo = <<>> /\ todo' = queue /\ queue' = <<>>)
      BY <1>1, <1>2 DEF Prepared, TakeQueue, EndRound, FrameDone, Build, threadVars,
                        TypeInv, Phases, InHand
    <2>3. Arrived' = Arrived BY <2>2, HandsKept
    <2> QED BY <2>1, <2>3 DEF StreamUnderWay
  <1>3. CASE CheckStream /\ CurrentStream(Head(todo).gen)
    <2>1. /\ UNCHANGED <<sources, stream, starters, stopping, todo, queue>>
          /\ Head(todo).gen = n
      BY <1>3 DEF CheckStream, CurrentStream
    <2>2. Arrived' = Arrived BY <2>1, HandsKept
    <2>3. stream <= n BY StreamsTaken
    <2> QED BY <2>1, <2>2, <2>3 DEF StreamUnderWay
  <1>4. CASE CheckStream /\ ~CurrentStream(Head(todo).gen)
    <2>1. /\ UNCHANGED <<sources, stream, starters, stopping, queue>> /\ wpc' = "apply"
          /\ todo # <<>> /\ todo' = Tail(todo) /\ Head(todo).kind = "stream"
          /\ stopping \/ Head(todo).gen # n
      BY <1>4 DEF CheckStream, CurrentStream
    <2>2. Arrived = Arrived' \cup {Head(todo).gen}
      BY <2>1, HeadGone DEF StreamOf
    <2> QED BY <2>1, <2>2 DEF StreamUnderWay
  <1>5. CASE SwapStream
    <2>1. /\ UNCHANGED <<sources, starters, stopping, queue>> /\ wpc' = "apply"
          /\ todo # <<>> /\ todo' = Tail(todo) /\ Head(todo).kind = "stream"
          /\ stream' = Head(todo).gen /\ stream <= Head(todo).gen
      BY <1>1, <1>5 DEF SwapStream, StreamUnderWay, TypeInv, Phases, InHand
    <2>2. Arrived = Arrived' \cup {Head(todo).gen}
      BY <2>1, HeadGone DEF StreamOf
    <2>3. Head(todo).gen \in Nat /\ Head(todo).gen <= n /\ stream \in Nat
      BY <2>2, StreamsTaken, WaitingTypes, <1>1
    <2>4. stream = n => stream' = n
      BY <1>1, <2>1, <2>3
    <2> QED BY <2>1, <2>2, <2>4 DEF StreamUnderWay
  <1>6. CASE CheckSettings /\ Current(gen)
    <2>1. UNCHANGED <<sources, stream, starters, stopping, todo, queue>> /\ wpc' = "chosen"
      BY <1>6 DEF CheckSettings
    <2>2. Arrived' = Arrived BY <2>1, HandsKept
    <2> QED BY <2>1, <2>2 DEF StreamUnderWay
  <1>7. CASE \/ ApplyIdentity \/ (CheckSettings /\ ~Current(gen))
             \/ LoadFirst \/ Refuse \/ Reconfigure \/ Install
    <2>1. /\ todo # <<>> /\ todo' = Tail(todo) /\ UNCHANGED <<queue, stream, stopping>>
          /\ Head(todo).kind # "stream" /\ wpc' = "apply"
      BY <1>1, <1>7 DEF ApplyIdentity, CheckSettings, LoadFirst, Refuse, Reconfigure,
                        Install, Ready, TypeInv, Phases, InHand
    <2>2. Arrived' = Arrived
      BY <2>1, HeadGone DEF StreamOf
    <2>3. CASE UNCHANGED <<sources, starters>>
      BY <2>1, <2>2, <2>3 DEF StreamUnderWay
    <2>4. CASE Install /\ ~UNCHANGED <<sources, starters>>
      <3>1. /\ Len(sources') = 1 /\ starters' = [starters EXCEPT ![1] = "spawn"]
        BY <1>1, <2>4, InstallParts
      <3>2. 1 \in StreamGens
        BY SettingsGenRange
      <3>3. starters'[1] = "spawn"
        BY <1>1, <3>1, <3>2 DEF TypeInv, TypeOK
      <3> QED BY <2>1, <3>1, <3>3 DEF StreamUnderWay
    <2>5. ~Install => UNCHANGED <<sources, starters>>
      BY <1>7 DEF ApplyIdentity, CheckSettings, LoadFirst, Refuse, Reconfigure
    <2> QED BY <2>3, <2>4, <2>5
  <1>8. CASE LoopEnds \/ Die \/ Cleanup
    <2>1. stopping' /\ wpc' # "swap"
      BY <1>1, <1>8 DEF LoopEnds, Die, Leave, Cleanup, Unqueued
    <2> QED BY <2>1 DEF StreamUnderWay
  <1> QED BY <1>2, <1>3, <1>4, <1>5, <1>6, <1>7, <1>8 DEF Worker

LEMMA StreamUnderWayStep ==
    OwnInv /\ StreamUnderWay /\ [Next]_vars => StreamUnderWay'
  <1> SUFFICES ASSUME OwnInv, StreamUnderWay, [Next]_vars PROVE StreamUnderWay'
    OBVIOUS
  <1>1. TypeInv /\ TypeInv' BY TypeStep DEF OwnInv
  <1>2. ASSUME NEW g \in SettingsGens, Loader(g) PROVE StreamUnderWay'
    <2>1. UNCHANGED <<sources, stream, wpc, todo, starters, stopping>>
      BY <1>2 DEF Loader, SpawnLoader, CheckLoad, CheckInvalid, Acquire,
                  AcquireFails, QueueLoaded, LoaderVars, threadVars
    <2>2. Arrived \subseteq Arrived'
      BY <1>1, <1>2, OthersKeepWaiting
    <2> QED BY <2>1, <2>2, StreamKept
  <1>3. CASE UNCHANGED vars
    <2>1. UNCHANGED <<sources, stream, wpc, todo, starters, stopping, queue>>
      BY <1>3 DEF vars, threadVars
    <2> QED BY <2>1, StreamKept DEF Arrived
  <1> QED BY <1>1, <1>2, <1>3, StreamUnderWayCaller, StreamUnderWayStarter,
             StreamUnderWayWorker DEF Next

-----------------------------------------------------------------------------
(* The name.                                                               *)

LEMMA LabelKept ==
    ASSUME LabelFollows, UNCHANGED <<applied, label, named>>,
           Script[config'].name = Script[config].name,
           ~stopping' => ~stopping,
           wpc' = "built" => wpc = "built",
           NameIn(todo) \/ NameIn(queue) => NameIn(todo') \/ NameIn(queue')
    PROVE  LabelFollows'
  BY DEF LabelFollows

LEMMA LabelOthers ==
    ASSUME TypeInv, LabelFollows,
           \/ \E p \in Positions : Update(p)
           \/ Caller \/ Stop
           \/ \E g \in SettingsGens : Loader(g)
           \/ \E s \in StreamGens : Starter(s)
    PROVE  LabelFollows'
  <1>1. /\ UNCHANGED <<wpc, named>> /\ (stopping => stopping')
        /\ NameIn(todo) \/ NameIn(queue) => NameIn(todo') \/ NameIn(queue')
    BY OthersLeaveThread, OthersKeepWaiting
  <1>2. CASE UNCHANGED <<config, applied, label>>
    BY <1>1, <1>2, LabelKept
  <1>3. CASE Take
    <2>1. UNCHANGED <<applied, label>> /\ config' = given
      BY <1>3 DEF Take, pipelineVars
    <2>2. CASE Script[given].name # Script[config].name
      <3>1. queue' = Append(queue, [kind |-> "identity"])
        BY <1>3, <2>2 DEF Take
      <3>2. queue \in Seq(Change) /\ [kind |-> "identity"] \in Change
        BY ChangeTypes DEF TypeInv, TypeOK
      <3>3. /\ Len(queue') = Len(queue) + 1 /\ Len(queue) \in Nat
            /\ queue'[Len(queue) + 1] = [kind |-> "identity"]
        BY <3>1, <3>2, AppendAt
      <3>4. NameIn(queue')
        <4>1. Len(queue) + 1 \in 1 .. Len(queue') BY <3>3
        <4> QED BY <3>3, <4>1 DEF NameIn
      <3> QED BY <3>4 DEF LabelFollows
    <2>3. CASE Script[given].name = Script[config].name
      BY <1>1, <2>1, <2>3, LabelKept
    <2> QED BY <2>2, <2>3
  <1>4. CASE \/ \E p \in Positions : Update(p)
             \/ Ignore \/ RequestInvalid \/ RequestSettings \/ Stop
    BY <1>2, <1>4 DEF Update, Ignore, RequestInvalid, RequestSettings, Stop, pipelineVars
  <1>5. ASSUME NEW g \in SettingsGens, Loader(g) PROVE LabelFollows'
    <2>1. UNCHANGED LoaderVars
      BY <1>5 DEF Loader, SpawnLoader, CheckLoad, CheckInvalid, Acquire,
                  AcquireFails, QueueLoaded
    <2> QED BY <1>2, <2>1 DEF LoaderVars, callerVars, pipelineVars
  <1>6. ASSUME NEW s \in StreamGens, Starter(s) PROVE LabelFollows'
    <2>1. UNCHANGED StarterVars
      BY <1>6 DEF Starter, SpawnStarter, StartStream, StartFails, StartAgain,
                  QueueStream
    <2> QED BY <1>2, <2>1 DEF StarterVars, callerVars, pipelineVars
  <1> QED BY <1>3, <1>4, <1>5, <1>6 DEF Caller

LEMMA LabelWorker ==
    ASSUME TypeInv, LabelFollows, Worker \/ Die
    PROVE  LabelFollows'
  <1>1. (Unqueued => stopping) /\ config' = config
    BY DEF TypeInv, Phases, InHand, Worker, Prepared, TakeQueue, EndRound, FrameDone,
           ApplyIdentity, CheckStream, SwapStream, CheckSettings, LoadFirst, Refuse,
           Build, Install, Reconfigure, LoopEnds, Die, Leave, Cleanup, FixedVars,
           callerVars
  <1>2. CASE Prepared \/ TakeQueue \/ EndRound \/ FrameDone
    <2>1. UNCHANGED <<applied, label, named, stopping>> /\ wpc' # "built"
      BY <1>2 DEF Prepared, TakeQueue, EndRound, FrameDone, pipelineVars, threadVars
    <2>2. UNCHANGED <<todo, queue>> \/ (todo = <<>> /\ todo' = queue)
      BY <1>2 DEF Prepared, TakeQueue, EndRound, FrameDone, threadVars,
                  TypeInv, Phases, InHand
    <2>3. NameIn(todo) \/ NameIn(queue) => NameIn(todo') \/ NameIn(queue')
      BY <2>2 DEF NameIn
    <2> QED BY <1>1, <2>1, <2>3, LabelKept
  <1>3. CASE ApplyIdentity
    BY <1>1, <1>3 DEF ApplyIdentity, LabelFollows
  <1>4. CASE Build
    <2>1. /\ UNCHANGED <<applied, label, stopping, todo, queue>>
          /\ named' = Script[config].name
      BY <1>4 DEF Build, pipelineVars
    <2>2. NameIn(todo) \/ NameIn(queue) => NameIn(todo') \/ NameIn(queue')
      BY <2>1
    <2> QED BY <1>1, <2>1, <2>2 DEF LabelFollows
  <1>5. CASE CheckStream \/ SwapStream \/ CheckSettings \/ LoadFirst \/ Refuse
    <2>1. UNCHANGED <<applied, label, named, stopping, queue>> /\ wpc' # "built"
      BY <1>5 DEF CheckStream, SwapStream, CheckSettings, LoadFirst, Refuse, pipelineVars
    <2>2. \/ todo' = todo
          \/ todo # <<>> /\ todo' = Tail(todo) /\ Head(todo).kind # "identity"
      BY <1>5 DEF CheckStream, SwapStream, CheckSettings, LoadFirst, Refuse, Ready,
                  TypeInv, Phases, InHand
    <2>3. NameIn(todo) \/ NameIn(queue) => NameIn(todo') \/ NameIn(queue')
      BY <2>1, <2>2, HeadNames
    <2> QED BY <1>1, <2>1, <2>3, LabelKept
  <1>6. CASE Install \/ Reconfigure
    <2>1. /\ todo # <<>> /\ todo' = Tail(todo) /\ UNCHANGED <<queue, stopping>>
          /\ Head(todo).kind # "identity" /\ wpc' = "apply"
          /\ \/ wpc = "built" /\ label' = named
             \/ applied # 0 /\ label' = label
      BY <1>6 DEF Install, Reconfigure, Ready, Rebuilds, TypeInv, Phases, InHand
    <2>2. NameIn(todo) \/ NameIn(queue) => NameIn(todo') \/ NameIn(queue')
      BY <2>1, HeadNames
    <2> QED BY <1>1, <2>1, <2>2 DEF LabelFollows
  <1>7. CASE LoopEnds \/ Die \/ Cleanup
    <2>1. stopping'
      BY <1>1, <1>7 DEF LoopEnds, Die, Leave, Cleanup, Unqueued
    <2> QED BY <2>1 DEF LabelFollows
  <1> QED BY <1>2, <1>3, <1>4, <1>5, <1>6, <1>7 DEF Worker

LEMMA LabelStep ==
    TypeInv /\ LabelFollows /\ [Next]_vars => LabelFollows'
  <1> SUFFICES ASSUME TypeInv, LabelFollows, [Next]_vars PROVE LabelFollows'
    OBVIOUS
  <1>1. CASE UNCHANGED vars
    BY <1>1 DEF vars, callerVars, pipelineVars, threadVars, LabelFollows, NameIn
  <1> QED BY <1>1, LabelOthers, LabelWorker DEF Next

-----------------------------------------------------------------------------
(* A worker at rest.                                                       *)

LEMMA RestInit == Init => RestInv
  <1> SUFFICES ASSUME Init PROVE RestInv
    OBVIOUS
  <1>1. OwnInv BY OwnInit
  <1>2. Len(changes) = 1 /\ Len(sources) = 0 /\ 1 \in SettingsGens
    BY SettingsGenRange DEF Init
  <1>3. loaders[1] = "check" BY <1>2 DEF Init
  <1>4. NewestUnderWay BY <1>2, <1>3 DEF NewestUnderWay
  <1>5. RefusalShown BY <1>2 DEF Init, RefusalShown
  <1>6. StreamWanted BY DEF Init, StreamWanted
  <1>7. StreamUnderWay BY <1>2 DEF Init, StreamUnderWay
  <1>8. LabelFollows BY DEF Init, LabelFollows
  <1> QED BY <1>1, <1>4, <1>5, <1>6, <1>7, <1>8 DEF RestInv

LEMMA RestInductive == Spec => []RestInv
  <1>1. RestInv /\ [Next]_vars => RestInv'
    <2> SUFFICES ASSUME RestInv, [Next]_vars PROVE RestInv'
      OBVIOUS
    <2>1. OwnInv /\ TypeInv BY DEF RestInv, OwnInv
    <2>2. OwnInv' BY <2>1, TypeStep, NoneTwiceStep, DetectorStep, StreamStep DEF OwnInv
    <2>3. NewestUnderWay' BY <2>1, NewestStep DEF RestInv
    <2>4. RefusalShown' BY <2>1, RefusalStep DEF RestInv
    <2>5. StreamWanted' BY <2>1, WantedStep DEF RestInv
    <2>6. StreamUnderWay' BY <2>1, StreamUnderWayStep DEF RestInv
    <2>7. LabelFollows' BY <2>1, LabelStep DEF RestInv
    <2> QED BY <2>2, <2>3, <2>4, <2>5, <2>6, <2>7 DEF RestInv
  <1> QED BY <1>1, RestInit, PTL DEF Spec

\* At rest nothing waits and no helper has anything.
LEMMA RestIsQuiet ==
    ASSUME RestInv, AtRest
    PROVE  /\ ~stopping /\ Requested = {} /\ Arrived = {}
           /\ ~NameIn(todo) /\ ~NameIn(queue)
           /\ settled = Len(changes)
           /\ Len(sources) # 0 => stream = Len(sources)
  <1>1. TypeInv BY DEF RestInv, OwnInv
  <1>2. queue = <<>> /\ todo = <<>> /\ ~stopping
    BY <1>1 DEF AtRest, TypeInv, Phases, InHand
  <1>3. Requested = {} /\ Arrived = {} /\ ~NameIn(todo) /\ ~NameIn(queue)
    BY <1>2, EmptyGens DEF Requested, Arrived, NameIn
  <1>4. loaders[Len(changes)] \in {"none", "done"}
    BY <1>1 DEF AtRest, TypeInv, TypeOK
  <1>5. Len(sources) # 0 => starters[Len(sources)] \in {"none", "done"}
    <2>1. Len(sources) # 0 => Len(sources) \in StreamGens
      BY <1>1, CountTypes, SettingsGenRange DEF TypeInv, TypeOK
    <2> QED BY <2>1 DEF AtRest
  <1>6. settled = Len(changes)
    BY <1>2, <1>3, <1>4 DEF RestInv, NewestUnderWay
  <1>7. Len(sources) # 0 => stream = Len(sources)
    BY <1>2, <1>3, <1>5 DEF RestInv, StreamUnderWay
  <1> QED BY <1>2, <1>3, <1>6, <1>7

\* Once nothing is under way, a pipeline runs on the stream and under the name
\* of the newest config, whichever order update(), the first pipeline and the
\* starters came in.
THEOREM RunsNewestConfig == Spec => []FollowsConfig
  <1>1. ASSUME RestInv, AtRest, applied # 0
        PROVE  /\ stream # 0 /\ sources[stream] = Script[config].stream
               /\ label = Script[config].name
    <2>1. Len(sources) # 0 /\ sources[Len(sources)] = Script[config].stream
      BY <1>1 DEF RestInv, StreamWanted
    <2>2. stream = Len(sources)
      BY <1>1, <2>1, RestIsQuiet
    <2>3. label = Script[config].name
      BY <1>1, RestIsQuiet DEF RestInv, LabelFollows
    <2> QED BY <2>1, <2>2, <2>3
  <1>2. RestInv => FollowsConfig
    BY <1>1 DEF FollowsConfig
  <1> QED BY <1>2, RestInductive, PTL

\* A camera without a pipeline for which nothing is under way says "error",
\* not "starting".
THEOREM ErrorIsShown == Spec => []NoSilentWait
  <1>1. RestInv => NoSilentWait
    BY RestIsQuiet DEF NoSilentWait, RestInv, RefusalShown
  <1> QED BY <1>1, RestInductive, PTL

=============================================================================
