------------------------------- MODULE Paging -------------------------------
(***************************************************************************)
(* A reader that turns the pages of a list while the list changes.  Every  *)
(* list of the web layer is answered by find().sort().skip().limit() and,  *)
(* in a command of its own, by a count.  shown maps what the list has at   *)
(* present to its sort key, the largest key first; counted is what the     *)
(* count would say.  Elements with equal keys come in any order, and in    *)
(* another one for the next page.                                          *)
(***************************************************************************)
EXTENDS Integers, FiniteSets, FiniteSetsExt

CONSTANTS
    Items,      \* what lists are made of
    PerPage     \* pageSize of the reader

VARIABLES shown, counted, walk

(* The reader.  wanted, unsure, found and steady are history: what the     *)
(* list had at first, what may escape the reader, how long the list was    *)
(* when its page was read, and whether it is unchanged since.              *)
Walks == [at : {"idle", "turn", "count", "over"}, page : Nat, full : BOOLEAN,
          seen : SUBSET Items, wanted : SUBSET Items, unsure : SUBSET Items,
          found : Nat, total : Nat, steady : BOOLEAN]

NotReading == [at |-> "idle", page |-> 1, full |-> TRUE, seen |-> {}, wanted |-> {},
               unsure |-> {}, found |-> 0, total |-> 0, steady |-> TRUE]

Listed == DOMAIN shown

(* The first n elements of the list, in one of the orders it may have. *)
Firsts(n) ==
    {B \in SUBSET Listed :
        /\ Cardinality(B) = Min({n, Cardinality(Listed)})
        /\ \A x \in B, y \in Listed \ B : shown[x] >= shown[y]}

(* Mutant: the first page is page 0. *)
SkipOnePage(k) == k * PerPage

Skipped(k) == (k - 1) * PerPage

Page(k) ==
    {p[2] \ p[1] : p \in {q \in Firsts(Skipped(k)) \X Firsts(Skipped(k) + PerPage) :
                              q[1] \subseteq q[2]}}

Tied == {x \in Listed : \E y \in Listed \ {x} : shown[x] = shown[y]}

OpenList ==
    /\ walk.at = "idle"
    /\ walk' = [NotReading EXCEPT !.at = "turn", !.wanted = Listed]

TurnPage ==
    /\ walk.at = "turn"
    /\ \E P \in Page(walk.page) :
           walk' = [walk EXCEPT
               !.at = "count", !.full = Cardinality(P) = PerPage,
               !.seen = @ \cup P, !.unsure = @ \cup Tied,
               !.found = Cardinality(Listed), !.steady = TRUE]

(* The reader goes on until a page is not full. *)
CountList ==
    /\ walk.at = "count"
    /\ walk' = [walk EXCEPT !.at = IF walk.full THEN "turn" ELSE "over",
                            !.page = @ + 1, !.total = counted]

ReaderStep == OpenList \/ TurnPage \/ CountList

(* What a change of the list does to a reader: an element that goes, or    *)
(* that falls back, moves all behind its old place one place up.           *)
Backwards == {x \in Listed : x \notin Listed' \/ shown'[x] < shown[x]}
Moved == {x \in Listed : x \notin Listed' \/ shown'[x] # shown[x]}
ListChanges ==
    walk' = IF walk.at \in {"idle", "over"} THEN walk
            ELSE [walk EXCEPT
                !.unsure = @ \cup Moved \cup
                    {x \in Listed : \E y \in Backwards : shown[x] <= shown[y]},
                !.steady = @ /\ shown' = shown]

(* Whoever turns the pages to the end has been shown everything the list   *)
(* had when the reading began, unless its key was not the only one of its  *)
(* value, it moved, or something before it went or fell back.              *)
ReaderMissesNothing == walk.at = "over" => walk.wanted \ walk.unsure \subseteq walk.seen

(* The count that goes with a page is the length of the list the page was  *)
(* cut from, if the list did not change between the two commands.          *)
CountMatchesPage ==
    walk.at \in {"turn", "over"} /\ walk.page > 1 /\ walk.steady
        => walk.total = walk.found
=============================================================================
