---------------------------- MODULE ModelHandles ----------------------------
(***************************************************************************)
(* What the model pool promises its callers (services/engine/core/         *)
(* model_pool.py), without locks, queues, threads or counts: a model is    *)
(* loaded once for all who want it, nobody gets a handle before it is      *)
(* loaded, and it goes away exactly with the last one who joined it, or    *)
(* when the pool closes.                                                   *)
(*                                                                         *)
(* A model that goes away and is wanted again is a new instance.           *)
(***************************************************************************)
EXTENDS Naturals

CONSTANTS Callers, Keys, MaxEntries

VARIABLES
    open,     \* FALSE once the pool is closed
    current,  \* current[k]: the instance that a caller of k joins, 0 if none
    users,    \* users[i]: who joined instance i and has not left it
    granted,  \* granted[i]: those of them who have their handle
    loaded    \* the instances that finished loading

handleVars == <<open, current, users, granted, loaded>>

Instances == 1 .. MaxEntries

HandlesInit ==
    /\ open = TRUE
    /\ current = [k \in Keys |-> 0]
    /\ users = [i \in Instances |-> {}]
    /\ granted = [i \in Instances |-> {}]
    /\ loaded = {}

\* A caller joins the instance of its model, or a new one that nobody joined.
Join(c, k, i) ==
    /\ open
    /\ \A j \in Instances : c \notin users[j]
    /\ current[k] \in {0, i}
    /\ current[k] = 0 => users[i] = {} /\ i \notin loaded
    /\ \A other \in Keys \ {k} : current[other] # i
    /\ users' = [users EXCEPT ![i] = @ \cup {c}]
    /\ current' = [current EXCEPT ![k] = i]
    /\ UNCHANGED <<open, granted, loaded>>

Load(i) ==
    /\ open
    /\ \E k \in Keys : current[k] = i
    /\ loaded' = loaded \cup {i}
    /\ UNCHANGED <<open, current, users, granted>>

Grant(c, i) ==
    /\ i \in loaded
    /\ c \in users[i]
    /\ granted' = [granted EXCEPT ![i] = @ \cup {c}]
    /\ UNCHANGED <<open, current, users, loaded>>

\* An instance that does not load goes away while its callers still wait.
LoadFails(i) ==
    /\ i \notin loaded
    /\ \E k \in Keys : current[k] = i /\ current' = [current EXCEPT ![k] = 0]
    /\ UNCHANGED <<open, users, granted, loaded>>

Refused(c, i) ==
    /\ i \notin loaded
    /\ \A k \in Keys : current[k] # i
    /\ users' = [users EXCEPT ![i] = @ \ {c}]
    /\ UNCHANGED <<open, current, granted, loaded>>

\* The last one to leave takes the instance along.
Leave(c, i) ==
    /\ c \in granted[i]
    /\ users' = [users EXCEPT ![i] = @ \ {c}]
    /\ granted' = [granted EXCEPT ![i] = @ \ {c}]
    /\ current' = [k \in Keys |->
                     IF current[k] = i /\ users[i] = {c} THEN 0 ELSE current[k]]
    /\ UNCHANGED <<open, loaded>>

Shut ==
    /\ open' = FALSE
    /\ current' = [k \in Keys |-> 0]
    /\ UNCHANGED <<users, granted, loaded>>

HandlesNext ==
    \/ \E i \in Instances :
         \/ Load(i) \/ LoadFails(i)
         \/ \E c \in Callers : Grant(c, i) \/ Refused(c, i) \/ Leave(c, i)
         \/ \E c \in Callers, k \in Keys : Join(c, k, i)
    \/ Shut

HandlesSpec == HandlesInit /\ [][HandlesNext]_handleVars
=============================================================================
