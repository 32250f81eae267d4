--------------------------- MODULE ValidatorsSync ---------------------------
(***************************************************************************)
(* ValidatorsTaskService.doTask: the validators of the node are read page  *)
(* by page and compared by name with the collection; what is new is        *)
(* inserted, what differs is updated, what is gone is deleted.             *)
(* Names are numbers: the node lists them in their order.  What a name     *)
(* stands for (operator, power, jailed, details) is one value, and so is   *)
(* its hash.                                                               *)
(***************************************************************************)
EXTENDS TaskRuns

CONSTANTS
    Names,          \* names of validators
    Infos, Gone,    \* what is known of a validator, and that there is none
    PageSize,       \* limitSize, the 100 of doTask
    MaxMoves        \* changes of the node's list (bound)

ASSUME ValidatorSettings ==
    /\ Names \subseteq Nat /\ IsFiniteSet(Names)
    /\ Gone \notin Infos
    /\ PageSize \in Nat \ {0} /\ MaxMoves \in Nat

VARIABLES
    node,           \* the node's validators
    moves,          \* how often they have changed
    table,          \* ex_validators
    valRun,         \* the runs: the await, the page, what was found and is due
    dropped         \* deletions nobody waits for

valVars == <<node, moves, table, valRun, dropped>>

Nobody == [v \in Names |-> Gone]
(* shaky is a history field: whom the pages of the run may have missed. *)
ValIdle == [at |-> "idle", page |-> 1, found |-> Nobody, inserts |-> {},
            updates |-> {}, deletes |-> {}, shaky |-> {}]
Known(list) == {v \in Names : list[v] # Gone}

ValTypeOK ==
    /\ node \in [Names -> Infos \cup {Gone}] /\ moves \in 0..MaxMoves
    /\ table \in [Names -> Infos \cup {Gone}]
    /\ \A r \in Runs :
           /\ valRun[r].at \in {"idle", "pages", "compare", "insert", "update"}
           /\ valRun[r].found \in [Names -> Infos \cup {Gone}]
           /\ valRun[r].updates \subseteq Known(valRun[r].found)
           /\ valRun[r].deletes \cap Known(valRun[r].found) = {}
    /\ dropped \subseteq Names

ValInit ==
    /\ node \in [Names -> Infos \cup {Gone}] /\ moves = 0
    /\ table = Nobody
    /\ valRun = [r \in Runs |-> ValIdle]
    /\ dropped = {}

(* A validator appears, changes or goes.  Those behind one that goes move  *)
(* up, maybe onto a page that has been read.                               *)
NodeMoves(v, i) ==
    /\ moves < MaxMoves /\ node[v] # i
    /\ moves' = moves + 1
    /\ node' = [node EXCEPT ![v] = i]
    /\ valRun' = [r \in Runs |->
           IF i = Gone /\ valRun[r].at = "pages"
           THEN [valRun[r] EXCEPT !.shaky = @ \cup {u \in Names : u >= v}]
           ELSE valRun[r]]
    /\ UNCHANGED <<table, dropped, faults>>

Page(k) ==
    {v \in Known(node) :
        LET place == Cardinality({u \in Known(node) : u <= v}) IN
        (k - 1) * PageSize < place /\ place <= k * PageSize}

(* Mutant: the reading ends with the first page. *)
MoreAfterFirst(k, read) == FALSE

More(k, read) == Cardinality(read) = PageSize

BeginPages(r) ==
    /\ valRun[r].at = "idle"
    /\ valRun' = [valRun EXCEPT ![r].at = "pages",
                                 ![r].shaky = Names \ Known(node)]
    /\ UNCHANGED <<node, moves, table, dropped, faults>>

(* A page that is full is followed by the next one. *)
ReadPage(r) ==
    LET k == valRun[r].page IN
    /\ valRun[r].at = "pages"
    /\ valRun' = [valRun EXCEPT
           ![r].found = [v \in Names |-> IF v \in Page(k) THEN node[v] ELSE @[v]],
           ![r].page = k + 1,
           ![r].at = IF More(k, Page(k)) THEN "pages" ELSE "compare"]
    /\ UNCHANGED <<node, moves, table, dropped, faults>>

(* Without the first page the run returns; a later one that is missing is  *)
(* concatenated as undefined, and reading its jailed field throws.         *)
PageFails(r) ==
    /\ valRun[r].at = "pages"
    /\ Fails
    /\ valRun' = [valRun EXCEPT ![r] = ValIdle]
    /\ UNCHANGED <<node, moves, table, dropped>>

ShouldInsert(found) == Known(found) \ Known(table)

ShouldUpdate(found) ==
    {v \in Known(found) \cap Known(table) : found[v] # table[v]}

(* Mutant: the documents the run compared with are replaced. *)
ShouldReplace(found) == Known(table)

ShouldDelete(found) == Known(table) \ Known(found)

(* The collection is read and the three lists are made. *)
Compare(r) ==
    LET found == valRun[r].found IN
    /\ valRun[r].at = "compare"
    /\ valRun' = [valRun EXCEPT ![r].at = "insert",
           ![r].inserts = ShouldInsert(found),
           ![r].updates = ShouldUpdate(found),
           ![r].deletes = ShouldDelete(found)]
    /\ UNCHANGED <<node, moves, table, dropped, faults>>

(* insertMany, not ordered.  It rejects when another run has inserted one  *)
(* of the names meanwhile: the others are stored, and the run ends.        *)
SaveValidators(r) ==
    LET due == valRun[r].inserts IN
    /\ valRun[r].at = "insert"
    /\ table' = [v \in Names |-> IF v \in due \ Known(table)
                                 THEN valRun[r].found[v] ELSE table[v]]
    /\ valRun' = [valRun EXCEPT ![r] = IF due \cap Known(table) = {}
                                       THEN [@ EXCEPT !.at = "update"]
                                       ELSE ValIdle]
    /\ UNCHANGED <<node, moves, dropped, faults>>

(* One updateOne after the other; it finds nothing if the name is gone. *)
UpdateValidator(r, v) ==
    /\ valRun[r].at = "update" /\ v \in valRun[r].updates
    /\ table' = [table EXCEPT ![v] = IF @ = Gone THEN Gone ELSE valRun[r].found[v]]
    /\ valRun' = [valRun EXCEPT ![r].updates = @ \ {v}]
    /\ UNCHANGED <<node, moves, dropped, faults>>

(* forEach with an async callback: nobody waits for the deletions. *)
DeleteValidators(r) ==
    /\ valRun[r].at = "update" /\ valRun[r].updates = {}
    /\ dropped' = dropped \cup valRun[r].deletes
    /\ valRun' = [valRun EXCEPT ![r] = ValIdle]
    /\ UNCHANGED <<node, moves, table, faults>>

ValRunFails(r) ==
    /\ valRun[r].at \in {"compare", "insert", "update"}
    /\ Fails
    /\ valRun' = [valRun EXCEPT ![r] = ValIdle]
    /\ UNCHANGED <<node, moves, table, dropped>>

DeleteLands(v) ==
    /\ v \in dropped
    /\ table' = [table EXCEPT ![v] = Gone]
    /\ dropped' = dropped \ {v}
    /\ UNCHANGED <<node, moves, valRun, faults>>

DeleteLost(v) ==
    /\ v \in dropped
    /\ Fails
    /\ dropped' = dropped \ {v}
    /\ UNCHANGED <<node, moves, table, valRun>>

ValRunStep(r) ==
    \/ BeginPages(r) \/ ReadPage(r) \/ Compare(r) \/ SaveValidators(r)
    \/ \E v \in Names : UpdateValidator(r, v)
    \/ DeleteValidators(r)

ValNext ==
    \/ \E v \in Names, i \in Infos \cup {Gone} : NodeMoves(v, i)
    \/ \E r \in Runs : ValRunStep(r) \/ PageFails(r) \/ ValRunFails(r)
    \/ \E v \in Names : DeleteLands(v) \/ DeleteLost(v)

ValSpec == ValInit /\ faults = 0 /\ [][ValNext]_<<valVars, faults>>

(* A run decides to delete only validators that were away at some moment   *)
(* of its reading, or that moved up a page because one before them went.   *)
NobodyIsDropped == \A r \in Runs : valRun[r].deletes \subseteq valRun[r].shaky

(* Once the node and the faults rest, the collection shows the node's list *)
(* again and again.                                                        *)
ListSettles == []<>(table = node)
=============================================================================
