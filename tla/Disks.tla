-------------------------------- MODULE Disks ---------------------------------
(***************************************************************************)
(* The watch over the disks that hold the API's folders: a level for each  *)
(* disk, and a system event with a message for the managers when it rises. *)
(***************************************************************************)
EXTENDS Naturals, Sequences

CONSTANTS
    Folders,         \* the four folders, in the order the job reads them
    Volumes,         \* the disks they are on
    Usages,          \* percent of a disk in use
    MaxReadings,
    MaxDiskFailures  \* failures and restarts

ASSUME DisksAssumption ==
    /\ Folders \in Seq({Folders[i] : i \in DOMAIN Folders}) /\ Folders # <<>>
    /\ Usages \subseteq Nat

VARIABLES
    diskOf,      \* folder -> its disk, Missing if it does not exist
    used,        \* disk -> percent in use
    level,       \* disk -> the level the job holds
    told,        \* disk -> severities managers were told, since a reading below their lower figure
    reading,     \* disk -> the last reading, and if it was dealt with
    toldTwice,   \* a severity was told that managers knew of
    round,       \* the job's pass
    readings, diskFailures

diskRest == <<diskOf, used>>
disksVars == <<diskRest, level, told, reading, toldTwice, round, readings, diskFailures>>

Missing == "missing"
NoRound == [at |-> "idle"]
Unchecked == [used |-> 0, done |-> FALSE]

DisksInit ==
    /\ diskOf \in [{Folders[i] : i \in DOMAIN Folders} -> Volumes \cup {Missing}]
    /\ used \in [Volumes -> Usages]
    /\ level = [d \in Volumes |-> "ok"]
    /\ told = [d \in Volumes |-> {}]
    /\ reading = [d \in Volumes |-> Unchecked]
    /\ toldTwice = FALSE
    /\ round = NoRound
    /\ readings = 0 /\ diskFailures = 0

Breaks(fails) ==
    /\ fails => diskFailures < MaxDiskFailures
    /\ diskFailures' = diskFailures + (IF fails THEN 1 ELSE 0)

-----------------------------------------------------------------------------
(* disk-levels *)

Severities == {"warning", "critical"}
Rank == [ok |-> 0, warning |-> 1, critical |-> 2]
Reach == [warning |-> 85, critical |-> 95]
Hold == [warning |-> 83, critical |-> 93]

LevelAt(percent, figures) ==
    IF percent >= figures.critical THEN "critical"
    ELSE IF percent >= figures.warning THEN "warning" ELSE "ok"

\* A level is reached at one figure and held down to a lower one.
NextLevel(prev, percent) ==
    LET reached == LevelAt(percent, Reach)
        kept == LevelAt(percent, Hold)
    IN  IF Rank[reached] > Rank[prev] THEN reached
        ELSE IF Rank[kept] < Rank[prev] THEN kept ELSE prev

-----------------------------------------------------------------------------
(* DiskJob *)

DiskTick ==
    /\ round.at = "idle"
    /\ round' = [at |-> "folders", todo |-> Folders, seen |-> {}]
    /\ UNCHANGED <<diskRest, level, told, reading, toldTwice, readings, diskFailures>>

NextFolder(seen) ==
    IF Len(round.todo) = 1 THEN NoRound
    ELSE [at |-> "folders", todo |-> Tail(round.todo), seen |-> seen]

\* The folder is not there, its disk was read in this pass, or stat fails, or
\* statfs does: then the disk is not tried again through another folder.
SkipFolder(fails) ==
    LET d == diskOf[Head(round.todo)]
    IN  /\ round.at = "folders"
        /\ fails <=> d \notin round.seen \cup {Missing}
        /\ Breaks(fails)
        /\ \E tried \in IF fails THEN {{}, {d}} ELSE {{}} :
              round' = NextFolder(round.seen \cup tried)
        /\ UNCHANGED <<diskRest, level, told, reading, toldTwice, readings>>

\* A disk is read; what it rose to is told before it is the level.
Check ==
    LET d == diskOf[Head(round.todo)]
        next == NextLevel(level[d], used[d])
        rises == Rank[next] > Rank[level[d]]
        seen == round.seen \cup {d}
    IN  /\ round.at = "folders" /\ d \notin round.seen \cup {Missing}
        /\ readings < MaxReadings /\ readings' = readings + 1
        /\ told' = [told EXCEPT ![d] = {s \in @ : used[d] >= Hold[s]}]
        /\ reading' = [reading EXCEPT ![d] = [used |-> used[d], done |-> ~rises]]
        /\ IF rises
           THEN /\ round' = [at |-> "tells", todo |-> round.todo, seen |-> seen,
                             disk |-> d, rose |-> next]
                /\ UNCHANGED level
           ELSE /\ round' = NextFolder(seen)
                /\ level' = [level EXCEPT ![d] = next]
        /\ UNCHANGED <<diskRest, toldTwice, diskFailures>>

\* Mutant: the level is set whatever becomes of the event.
LevelAnyway(d, rose, fails) == [level EXCEPT ![d] = rose]

\* The level is set when the event is written, so the next tick tries again.
LevelOnceTold(d, rose, fails) == IF fails THEN level ELSE [level EXCEPT ![d] = rose]

\* The event is written and the managers hear of it, or the insert fails, or its
\* answer is lost, and the event is there, will be written again, and nobody heard.
TellManagers(fails) ==
    LET d == round.disk
    IN  /\ round.at = "tells"
        /\ Breaks(fails)
        /\ level' = LevelOnceTold(d, round.rose, fails)
        /\ IF fails THEN UNCHANGED <<told, reading, toldTwice>>
           ELSE /\ told' = [told EXCEPT ![d] = {s \in Severities : Rank[s] <= Rank[round.rose]}]
                /\ reading' = [reading EXCEPT ![d].done = TRUE]
                /\ toldTwice' = (toldTwice \/ round.rose \in told[d])
        /\ round' = NextFolder(round.seen)
        /\ UNCHANGED <<diskRest, readings>>

Fills(d, percent) ==
    /\ used[d] # percent /\ used' = [used EXCEPT ![d] = percent]
    /\ UNCHANGED <<diskOf, level, told, reading, toldTwice, round, readings, diskFailures>>

\* The levels are in memory.
DisksRestart ==
    /\ Breaks(TRUE)
    /\ level' = [d \in Volumes |-> "ok"] /\ told' = [d \in Volumes |-> {}]
    /\ reading' = [d \in Volumes |-> Unchecked]
    /\ round' = NoRound
    /\ UNCHANGED <<diskRest, toldTwice, readings>>

DisksNext ==
    \/ DiskTick \/ Check \/ DisksRestart
    \/ \E fails \in BOOLEAN : SkipFolder(fails) \/ TellManagers(fails)
    \/ \E d \in Volumes, percent \in Usages : Fills(d, percent)

-----------------------------------------------------------------------------
(* Properties *)

DisksTypeOK ==
    /\ used \in [Volumes -> Usages]
    /\ level \in [Volumes -> Severities \cup {"ok"}]
    /\ told \in [Volumes -> SUBSET Severities]
    /\ round.at \in {"idle", "folders", "tells"}

\* Of a disk that was read above a figure the managers have been told, once until
\* it is read below the lower figure, whichever folders are on it and whichever
\* insert fails.
DisksAreTold ==
    /\ ~toldTwice
    /\ \A d \in Volumes : \A s \in Severities :
          reading[d].done /\ reading[d].used >= Reach[s] => s \in told[d]

=============================================================================
