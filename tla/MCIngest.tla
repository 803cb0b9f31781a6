------------------------------ MODULE MCIngest ------------------------------
(***************************************************************************)
(* Ingest for TLC: two boots of an engine with two cameras, and the two    *)
(* claims about the consumer that TLC refutes.                             *)
(***************************************************************************)
EXTENDS Ingest

CONSTANTS c1, c2

MCCameras == {c1, c2}
MCKeys == {"s1", "boot", "alert", "s2", "rate"}

Sent(kind, camera, key) ==
    [kind |-> kind, camera |-> camera, key |-> key,
     important |-> kind = "event"]

\* Session s1 is open when the engine restarts; the new boot opens s2.
TwoBoots ==
    << Sent("open", c1, "s1"),
       Sent("engine_started", NoCamera, "boot"),
       Sent("open", c1, "s2"),
       Sent("metric", c2, "rate"),
       Sent("metric", c2, "rate"),
       Sent("close", c1, "s2") >>

\* The same with an alert and a message that fails the contract.
AllKinds ==
    TwoBoots \o << Sent("event", c2, "alert"), Sent("invalid", c2, "alert") >>

\* One session, opened and closed.
OneSession == << Sent("open", c1, "s1"), Sent("close", c1, "s1") >>

\* What Postgres may refuse: a row of the old boot, the restart ...
MCFaultyPair == {"s1", "boot"}

\* ... a metric.
MCFaulty == MCFaultyPair \cup {"rate"}

=============================================================================
