------------------------------- MODULE MCApi ---------------------------------
(***************************************************************************)
(* A small instance of each component of the API.                          *)
(***************************************************************************)
EXTENDS Api, TLC

\* What operators change: an enabled flag, a URL, a source with its URL.
MCEdits == {"enabled" :> FALSE, "url" :> "rtsp2",
            ("sourceType" :> "FILE") @@ ("url" :> "file"),
            ("sourceType" :> "IP_CAMERA") @@ ("url" :> "rtsp1")}

\* Hours are two long and days eight: no change of the clock, one that repeats an
\* hour and one that skips an hour.
MCInstants == 0 .. 14
MCStep == "hour" :> 2 @@ "day" :> 8
MCMaxRange == "hour" :> 12 @@ "day" :> 14
MCZones == {[at |-> 0, by |-> 0], [at |-> 6, by |-> -2], [at |-> 8, by |-> 2]}

\* A day with two stays at a table, then one with two absences from a desk and
\* nothing between them; a clock that may jump over a time of silence and back.
MCDays == <<{{[from |-> 1, to |-> 2], [from |-> 3, to |-> 4]}},
            {{[from |-> 1, to |-> 3], [from |-> 3, to |-> 5]}}>>
MCJumps == {1, 3, -1}

\* Two of the folders.
MCFolders == <<"recordings", "evidence">>

==============================================================================
