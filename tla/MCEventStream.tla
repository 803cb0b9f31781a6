--------------------------- MODULE MCEventStream ---------------------------
(***************************************************************************)
(* EventStream for TLC, and the claim of its docstring that TLC refutes.   *)
(***************************************************************************)
EXTENDS EventStream, Functions, FiniteSetsExt

Arrived == Range(stream)

\* The callers' messages that were lost and that Redis never got.
NeverArrived == {m \in lost : m.count = 0} \ Arrived

\* "it is dropped and counted; after the next successful XADD the count goes
\* out as an events_dropped event": once the buffer is empty and no drop is
\* unreported, the reports in Redis account for every message that never got
\* there.
DropCountArrives ==
    (queue = <<>> /\ unreported = 0)
        => MapThenSumSet(LAMBDA m : m.count, Arrived)
             >= Cardinality(NeverArrived)

=============================================================================
