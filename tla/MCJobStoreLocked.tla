-------------------------- MODULE MCJobStoreLocked ---------------------------
(* JobStore for TLC where every change of a record takes the mutex, and the *)
(* check of the sort that JobStore abstracts.                               *)
EXTENDS JobStore, ExchangeSort

\* The slices of up to four jobs, with up to three different times.
Slices == UNION {{[i \in 1..n |-> [id |-> i, time |-> t[i]]] : t \in [1..n -> 1..3]} : n \in 0..4}

\* The exchange sort of the cleanup puts a slice in the order of submission, and the
\* loop that follows deletes what JobStore says: the oldest jobs beyond the capacity.
ASSUME SortEvictsTheOldest ==
    \A slice \in Slices :
        LET all == {slice[i] : i \in 1..Len(slice)}
        IN  /\ \A i, j \in 1..Len(slice) : i < j => Sorted(slice)[i].time <= Sorted(slice)[j].time
            /\ {Sorted(slice)[i] : i \in 1..Len(slice)} = all
            /\ OldestOf(all, Deleted(slice, maxJobs))
=============================================================================
