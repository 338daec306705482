--------------------------- MODULE AtomicJobTable ---------------------------
(***************************************************************************)
(* What the job store promises its callers: a table in which submitting,   *)
(* updating and removing a job each take effect in a single step, so that  *)
(* every update works on the result of the one before it.                  *)
(*                                                                         *)
(* The one thing that is not as simple as that is an update in progress    *)
(* when its job is removed: the removal may leave the record "held", and   *)
(* the update then puts the job back, updated.                             *)
(***************************************************************************)
EXTENDS JobRecords

CONSTANTS Jobs, Requested

VARIABLES
    table,     \* the jobs there are
    held,      \* the records of removed jobs that an update may put back
    used       \* the IDs given out so far

tableVars == <<table, held, used>>

TableInit ==
    /\ table = [j \in Jobs |-> Absent]
    /\ held = [j \in Jobs |-> Absent]
    /\ used = {}

Submit(j, time) ==
    /\ j \notin used
    /\ used' = used \cup {j}
    /\ table' = [table EXCEPT ![j] = [status |-> "queued", submittedAt |-> time,
                                      startedAt |-> 0, completedAt |-> 0]]
    /\ UNCHANGED held

Update(j, status, time) ==
    /\ table[j] # Absent
    /\ table' = [table EXCEPT ![j] = Updated(@, status, time)]
    /\ UNCHANGED <<held, used>>

Remove(j) ==
    /\ table[j] # Absent
    /\ table' = [table EXCEPT ![j] = Absent]
    /\ held' \in {held, [held EXCEPT ![j] = table[j]]}
    /\ UNCHANGED used

Reinstate(j, status, time) ==
    /\ held[j] # Absent
    /\ table' = [table EXCEPT ![j] = Updated(held[j], status, time)]
    /\ held' = [held EXCEPT ![j] = Absent]
    /\ UNCHANGED used

TableNext ==
    \E j \in Jobs :
        \/ Remove(j)
        \/ \E time \in Time \ {0} :
              \/ Submit(j, time)
              \/ \E status \in Requested : Update(j, status, time) \/ Reinstate(j, status, time)

TableSpec == TableInit /\ [][TableNext]_tableVars
=============================================================================
