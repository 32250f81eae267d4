------------------------------ MODULE DenomSync ------------------------------
(***************************************************************************)
(* DenomTaskService.doTask: the denoms of the issue_denom transactions are *)
(* copied into a collection that carries its own cursor, the highest       *)
(* last_block_height.  Of a transaction only msgs[0] is read; denom_id is  *)
(* unique, and a document without one counts as an id of its own.          *)
(***************************************************************************)
EXTENDS TaskRuns

CONSTANTS
    IssueTxs,       \* successful transactions with an issue_denom message
    Ids, NoId,      \* denom ids; the id of a first message of another type
    firstId,        \* the id in msgs[0] of each of them
    issues,         \* the denoms it issues, in whichever of its messages
    DenomBatch,     \* MAX_OPERATE_TX_COUNT
    MaxDenomHeight  \* height at which the chain stops (bound)

ASSUME DenomSettings ==
    /\ firstId \in [IssueTxs -> Ids \cup {NoId}]
    /\ issues \in [IssueTxs -> SUBSET Ids \ {{}}]
    /\ DenomBatch \in Nat \ {0}
    /\ MaxDenomHeight \in Nat

VARIABLES
    issued,         \* the height of each transaction, 0 before it exists
    denoms,         \* last_block_height of each document, 0 without one
    denomRun,       \* the runs: the await, the cursor and the batch
    cutTxs,         \* history: left behind at the last height of a batch
    brokenTxs       \* history: not stored by an insertMany that broke off

denomVars == <<issued, denoms, denomRun, cutTxs, brokenTxs>>

DenomIdle == [at |-> "idle", cursor |-> 0, batch |-> {}]

DenomTypeOK ==
    /\ issued \in [IssueTxs -> 0..MaxDenomHeight]
    /\ denoms \in [Ids \cup {NoId} -> 0..MaxDenomHeight]
    /\ denomRun \in [Runs -> [at : {"idle", "query", "insert"},
                              cursor : 0..MaxDenomHeight,
                              batch : SUBSET IssueTxs]]
    /\ cutTxs \subseteq IssueTxs /\ brokenTxs \subseteq IssueTxs

DenomInit ==
    /\ issued = [x \in IssueTxs |-> 0]
    /\ denoms = [i \in Ids \cup {NoId} |-> 0]
    /\ denomRun = [r \in Runs |-> DenomIdle]
    /\ cutTxs = {} /\ brokenTxs = {}

(* The next block with issue_denom transactions is stored as a whole. *)
DenomBlock(S) ==
    LET top == Max({issued[x] : x \in IssueTxs}) IN
    /\ S # {} /\ top < MaxDenomHeight
    /\ \A x \in S : issued[x] = 0
    /\ issued' = [x \in IssueTxs |-> IF x \in S THEN top + 1 ELSE issued[x]]
    /\ UNCHANGED <<denoms, denomRun, cutTxs, brokenTxs, faults>>

DenomCursor == Max({denoms[i] : i \in Ids \cup {NoId}})

FindLastBlockHeight(r) ==
    /\ denomRun[r].at = "idle"
    /\ denomRun' = [denomRun EXCEPT
           ![r] = [at |-> "query", cursor |-> DenomCursor, batch |-> {}]]
    /\ UNCHANGED <<issued, denoms, cutTxs, brokenTxs, faults>>

(* Mutant: the list is not sorted by height. *)
DenomBatchesUnsorted(S) ==
    {B \in SUBSET S : Cardinality(B) = Min({Cardinality(S), DenomBatch})}

DenomBatches(S) == Smallest(S, issued, DenomBatch)

(* The highest height only saves a read that would find nothing. *)
QueryDenomTxList(r) ==
    LET above == {x \in IssueTxs : issued[x] > denomRun[r].cursor} IN
    /\ denomRun[r].at = "query"
    /\ \E B \in DenomBatches(above) :
           /\ denomRun' = [denomRun EXCEPT
                  ![r] = IF B = {} THEN DenomIdle
                         ELSE [@ EXCEPT !.at = "insert", !.batch = B]]
           /\ cutTxs' = cutTxs \cup CutOff(above, B, issued)
    /\ UNCHANGED <<issued, denoms, brokenTxs, faults>>

(* insertMany, not ordered: ids that are there already are rejected, of    *)
(* equal ids the lower height is stored.                                   *)
DenomsWith(S) ==
    [i \in Ids \cup {NoId} |->
        IF denoms[i] = 0 /\ \E x \in S : firstId[x] = i
        THEN Min({issued[x] : x \in {y \in S : firstId[y] = i}})
        ELSE denoms[i]]

(* The run ends here whether or not insertMany rejects. *)
InsertManyDenom(r) ==
    /\ denomRun[r].at = "insert"
    /\ denoms' = DenomsWith(denomRun[r].batch)
    /\ denomRun' = [denomRun EXCEPT ![r] = DenomIdle]
    /\ UNCHANGED <<issued, cutTxs, brokenTxs, faults>>

(* Some of the documents are written when the connection breaks. *)
InsertBreaks(r) ==
    /\ denomRun[r].at = "insert"
    /\ Fails
    /\ \E S \in SUBSET denomRun[r].batch :
           /\ denoms' = DenomsWith(S)
           /\ brokenTxs' = brokenTxs \cup (denomRun[r].batch \ S)
    /\ denomRun' = [denomRun EXCEPT ![r] = DenomIdle]
    /\ UNCHANGED <<issued, cutTxs>>

DenomRunStep(r) ==
    FindLastBlockHeight(r) \/ QueryDenomTxList(r) \/ InsertManyDenom(r)

DenomNext ==
    \/ \E S \in SUBSET IssueTxs : DenomBlock(S)
    \/ \E r \in Runs : DenomRunStep(r) \/ InsertBreaks(r)

DenomSpec == DenomInit /\ faults = 0 /\ [][DenomNext]_<<denomVars, faults>>

(* Denoms the task does not look at: those behind the first message. *)
Unread(x) == issues[x] \ {firstId[x]}

(* The cursor goes on above the last stored height: no denom issued at or  *)
(* below it is missing, save those of a height that a full batch cut in    *)
(* two, those of an insertMany that broke off, and those that are not in   *)
(* the first message, which are lost at once: every document is of the     *)
(* first message of a transaction.                                         *)
NoDenomSkipped ==
    /\ \A x \in IssueTxs \ (cutTxs \cup brokenTxs) : \A i \in issues[x] \ Unread(x) :
           0 < issued[x] /\ issued[x] <= DenomCursor => denoms[i] # 0
    /\ \A i \in Ids \cup {NoId} : denoms[i] # 0 =>
           \E x \in IssueTxs : firstId[x] = i /\ issued[x] = denoms[i]
=============================================================================
