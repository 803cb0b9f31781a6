--------------------------- MODULE MCCameraWorker ---------------------------
(***************************************************************************)
(* CameraWorker for TLC.  A worker may start from each config of a script  *)
(* and miss some.                                                          *)
(***************************************************************************)
EXTENDS CameraWorker

Step(version, useCase, model, where, name, valid) ==
    [version |-> version, useCase |-> useCase, model |-> model,
     stream |-> where, name |-> name, valid |-> valid]

\* A first version; one that cannot be parsed; a new use case, model, stream
\* and name; and a last version back on the first model.
MCScript == <<Step(1, "count", "m", "a", "x", TRUE),
              Step(2, "zone", "n", "a", "x", FALSE),
              Step(3, "zone", "n", "b", "y", TRUE),
              Step(4, "count", "m", "b", "y", TRUE)>>

\* Three versions that go from one model to another and back.
MCSwapScript == <<Step(1, "count", "m", "a", "x", TRUE),
                  Step(2, "count", "n", "b", "x", TRUE),
                  Step(3, "count", "m", "b", "x", TRUE)>>

\* A version, and one that cannot be parsed.
MCErrorScript == <<Step(1, "count", "m", "a", "x", TRUE),
                   Step(2, "count", "m", "a", "x", FALSE)>>
=============================================================================
