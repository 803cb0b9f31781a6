------------------------------- MODULE Reports -------------------------------
(***************************************************************************)
(* The reports: intervals, events and metrics summed over buckets that are *)
(* cut on the site's wall clock, whose offset may change once.  Instants   *)
(* are natural numbers, the smallest unit is the microsecond of the        *)
(* queries.  Grouping and filters by camera, type and field are left out:  *)
(* a report is about one interval, and about an event or a minute of a     *)
(* metric at any instant.                                                  *)
(***************************************************************************)
EXTENDS Integers, FiniteSets

CONSTANTS
    Instants,          \* 0 .. n
    Edges,             \* the instants a range starts or ends at
    Clocks,            \* what time it may be when a report is asked for
    Zones,             \* [at, by]: from `at` on, the wall clock is `by` ahead
    Step,              \* bucket -> its length on the wall clock
    MaxRange           \* bucket -> the longest range

Buckets == DOMAIN Step

ASSUME ReportsAssumption ==
    /\ Instants \subseteq Nat /\ Edges \subseteq Nat /\ Clocks \subseteq Nat
    /\ "day" \in Buckets /\ \A b \in Buckets : Step[b] \in Nat \ {0}

\* An offset changes by whole hours and by less than a day.  What is repeated
\* does not begin a day (where it does, as in Havana, the instants before it have
\* no bucket), and midnight is at most the first moment of what is skipped.
ASSUME ZonesAssumption ==
    \A z \in Zones :
        /\ z.at \in Int /\ z.by \in Int /\ z.by < Step["day"]
        /\ \A b \in Buckets \ {"day"} : z.by % Step[b] = 0
        /\ \A l \in (z.at + z.by .. z.at - 1) \cup (z.at + 1 .. z.at + z.by - 1) :
              l % Step["day"] # 0

VARIABLES
    zone,       \* the site's time zone
    interval,   \* a row of Interval, end = NotClosed while it is not closed
    clock,      \* now() of the query
    asked       \* the report asked for

reportsVars == <<zone, interval, clock, asked>>

NotClosed == -1
Nothing == [bucket |-> "none", from |-> 0, to |-> 0]

ReportsInit ==
    /\ zone \in Zones
    /\ interval \in [start : Instants, end : Instants \cup {NotClosed}]
    /\ interval.end = NotClosed \/ interval.end >= interval.start
    /\ clock \in Clocks
    /\ asked = Nothing

-----------------------------------------------------------------------------
(* AT TIME ZONE, both ways.  Postgres takes a time that is repeated for the *)
(* later one, and one that is skipped by the offset before.                 *)

Local(t) == IF t >= zone.at THEN t + zone.by ELSE t
Instant(l) == IF l - zone.by >= zone.at THEN l - zone.by ELSE l

Floor(l, step) == l - (l % step)

\* Days begin at local midnight; hours and minutes are cut by subtracting what
\* passed since the local hour began.
BucketStart(bucket, t) ==
    IF bucket = "day" THEN Instant(Floor(Local(t), Step["day"]))
    ELSE t - (Local(t) % Step[bucket])

\* Mutant: every day is as long.
EqualDays(bucket, first, last) ==
    {[start |-> s, end |-> s + Step[bucket]] :
        s \in {BucketStart(bucket, t) : t \in first .. last}}

\* The buckets from the one of `first` to the one of `last`; a day ends at the
\* next midnight.
BucketsBetween(bucket, first, last) ==
    IF bucket = "day"
    THEN {[start |-> Instant(d), end |-> Instant(d + Step["day"])] :
            d \in {l \in Floor(Local(first), Step["day"]) .. Local(last) : l % Step["day"] = 0}}
    ELSE LET s == BucketStart(bucket, first)
         IN  {[start |-> b, end |-> b + Step[bucket]] :
                b \in {x \in s .. BucketStart(bucket, last) : (x - s) % Step[bucket] = 0}}

-----------------------------------------------------------------------------
(* IntervalStats *)

InBucket(t, b) == b.start <= t /\ t < b.end

Later(x, y) == IF x > y THEN x ELSE y
Earlier(x, y) == IF x < y THEN x ELSE y

\* One that is open has lasted until now.
Finish(i, q) == IF i.end = NotClosed THEN Earlier(clock, q.to) ELSE i.end

\* Overlaps the range, or starts in it without a length.
Selected(i, q) ==
    /\ i.start < q.to
    /\ i.end = NotClosed \/ i.end >= q.from
    /\ i.start >= q.from \/ Finish(i, q) > q.from

Lo(i, q) == Later(i.start, q.from)
Hi(i, q) == Later(Earlier(Finish(i, q), q.to), i.start)

\* What an interval gives each bucket it touches.
Pieces(i, q) ==
    LET lo == Lo(i, q)
        hi == Hi(i, q)
    IN  IF ~Selected(i, q) THEN {}
        ELSE {[bucket |-> b,
               startsHere |-> i.start >= q.from /\ InBucket(i.start, b),
               inside |-> Earlier(hi, b.end) - Later(lo, b.start),
               whole |-> Later(Finish(i, q) - i.start, 0)] :
                b \in BucketsBetween(q.bucket, lo, Later(hi - 1, lo))}

\* A row per bucket: how many start in it, their lengths, and the time inside.
IntervalRows(q) ==
    {[bucketStart |-> p.bucket.start, totalSec |-> p.inside,
      count |-> IF p.startsHere THEN 1 ELSE 0,
      maxSec |-> IF p.startsHere THEN p.whole ELSE 0] : p \in Pieces(interval, q)}

\* EventStats and MetricSeries: the bucket of an event, or a minute, at t, if
\* the range has it.
EventRows(q, t) ==
    IF t >= q.from /\ t < q.to THEN {BucketStart(q.bucket, t)} ELSE {}

MetricRows(q, t) == EventRows(q, t)

\* SummaryTable: a row per bucket that any of the three gave one.
SummaryRows(q, t) ==
    {r.bucketStart : r \in IntervalRows(q)} \cup EventRows(q, t) \cup MetricRows(q, t)

-----------------------------------------------------------------------------

\* parseRange and assertRange: anything else is answered with 400.
Ask(bucket, from, to) ==
    /\ asked = Nothing
    /\ from < to /\ to - from <= MaxRange[bucket]
    /\ asked' = [bucket |-> bucket, from |-> from, to |-> to]
    /\ UNCHANGED <<zone, interval, clock>>

ReportsNext == \E bucket \in Buckets, from, to \in Edges : Ask(bucket, from, to)

-----------------------------------------------------------------------------
(* Properties *)

ReportsTypeOK ==
    /\ zone \in Zones /\ clock \in Clocks
    /\ interval \in [start : Instants, end : Instants \cup {NotClosed}]
    /\ asked = Nothing \/ asked \in [bucket : Buckets, from : Edges, to : Edges]

\* The instants of a range at which the interval lasts.
Lasting(q) == {t \in q.from .. q.to - 1 : t >= interval.start /\ t < Finish(interval, q)}

\* The buckets share the time of an interval inside the range without a rest
\* and without a second counted twice, also where a day has an hour more or
\* less; its start is counted once, if the range has it; and each instant is
\* in the bucket that an event at that instant is counted in, so that the rows
\* of the summary are those of the charts.
SumsAreRight ==
    asked # Nothing =>
      LET pieces == Pieces(interval, asked)
      IN  /\ \A p \in pieces :
                /\ p.inside = Cardinality({t \in Lasting(asked) : InBucket(t, p.bucket)})
                /\ p.inside > 0 \/ Lasting(asked) = {}
          /\ Cardinality({p \in pieces : p.startsHere}) =
                IF interval.start \in asked.from .. asked.to - 1 THEN 1 ELSE 0
          /\ \A t \in Lasting(asked) :
                /\ Cardinality({p \in pieces : InBucket(t, p.bucket)}) = 1
                /\ SummaryRows(asked, t) = {r.bucketStart : r \in IntervalRows(asked)}

=============================================================================
