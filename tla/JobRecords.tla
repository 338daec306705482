----------------------------- MODULE JobRecords -----------------------------
(***************************************************************************)
(* The record the store keeps of a job, JobInfo of                         *)
(* internal/storage/job_store.go, and what an update of its status makes   *)
(* of it.  User, type, name and message of a job are left out: the store   *)
(* copies them and never looks at them.                                    *)
(***************************************************************************)
EXTENDS Integers

CONSTANTS
    MaxTime,     \* bound: the clock stops here
    Absent       \* "no such key"

Status == {"queued", "processing", "completed", "failed", "cancelled"}
Terminal == {"completed", "failed", "cancelled"}

\* Moments; 0 is the zero time.Time, which IsZero recognises.
Time == 0..MaxTime

JobInfo == [status : Status, submittedAt : Time \ {0},
            startedAt : Time, completedAt : Time]

ASSUME RecordAssumption ==
    /\ MaxTime \in Nat \ {0}
    /\ Absent \notin JobInfo

\* Mutant: the switch forgets that a cancelled job is finished.
UpdatedNotCancelled(job, status, time) ==
    [job EXCEPT !.status = status,
                !.startedAt = IF status = "processing" /\ @ = 0 THEN time ELSE @,
                !.completedAt = IF status \in {"completed", "failed"} THEN time ELSE @]

\* The record UpdateJobStatus makes of the one it loaded.
Updated(job, status, time) ==
    [job EXCEPT !.status = status,
                !.startedAt = IF status = "processing" /\ @ = 0 THEN time ELSE @,
                !.completedAt = IF status \in Terminal THEN time ELSE @]
=============================================================================
