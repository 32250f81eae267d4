------------------------------ MODULE TaskRuns ------------------------------
(***************************************************************************)
(* What the models of the smaller tasks share: the runs of a task that may *)
(* overlap (see TaskDispatch), a bounded number of failures, and the reads *)
(* that are sorted by one field and cut by a limit.                        *)
(***************************************************************************)
EXTENDS Integers, FiniteSets, FiniteSetsExt

CONSTANTS
    Runs,       \* runs of one task that may be under way at once
    MaxFaults   \* requests, writes or processes that fail (bound)

ASSUME RunSettings == MaxFaults \in Nat

VARIABLE faults

Fails == faults < MaxFaults /\ faults' = faults + 1

(* find().sort({key: 1}).limit(n): the elements with the smallest keys.    *)
(* Which of those with equal keys come first is up to the database.        *)
Smallest(S, key, n) ==
    {B \in SUBSET S :
        /\ Cardinality(B) = IF Cardinality(S) < n THEN Cardinality(S) ELSE n
        /\ \A x \in B, y \in S \ B : key[x] <= key[y]}

(* What a limit leaves behind at the last key it admits. *)
CutOff(S, B, key) == {y \in S \ B : \E x \in B : key[x] = key[y]}
=============================================================================
