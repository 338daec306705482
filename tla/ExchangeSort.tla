---------------------------- MODULE ExchangeSort ----------------------------
(***************************************************************************)
(* The loops with which cleanupOldJobs of internal/storage/job_store.go    *)
(* sorts the slice of all jobs by submission time, and then deletes from   *)
(* its front.  JobStore has only their result (OldestOf); MCJobStoreLocked *)
(* compares the two.                                                       *)
(***************************************************************************)
EXTENDS Integers, Sequences
LOCAL INSTANCE SequencesExt

\* One round of the inner loop: the earlier of two jobs comes first.
Exchange(slice, i, j) ==
    IF slice[i].time > slice[j].time
    THEN [slice EXCEPT ![i] = slice[j], ![j] = slice[i]]
    ELSE slice

\* The pairs of indices the two loops go through, in their order.
Rounds(n) ==
    SetToSortSeq({p \in (1..n) \X (1..n) : p[1] < p[2]},
                 LAMBDA p, q : p[1] < q[1] \/ (p[1] = q[1] /\ p[2] < q[2]))

Sorted(slice) ==
    FoldLeft(LAMBDA s, p : Exchange(s, p[1], p[2]), slice, Rounds(Len(slice)))

\* The jobs the last loop deletes: all but the last max of the sorted slice.
Deleted(slice, max) == LET s == Sorted(slice) IN {s[i] : i \in 1..(Len(s) - max)}
=============================================================================
