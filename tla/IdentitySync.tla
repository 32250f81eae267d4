---------------------------- MODULE IdentitySync ----------------------------
(***************************************************************************)
(* The task that keeps identities, their public keys and certificates in   *)
(* step with the create_identity and update_identity transactions          *)
(* (IdentityTaskService).  A run reads at most IdentityLimitSize           *)
(* transactions from the highest update_block_height of the collection     *)
(* on, that height included; it waits for the new identities to be         *)
(* inserted and then sends every other write without waiting for it.       *)
(*                                                                         *)
(* A transaction has one message; a block may become visible one           *)
(* transaction at a time.  Credentials are the number of the transaction   *)
(* that set them, 0 for none.  Keys stands for public keys, public keys of *)
(* certificates and certificates: all three are upserts by identity and    *)
(* hash.  Of the same write sent again before it landed one is kept.       *)
(***************************************************************************)
EXTENDS Integers, Sequences, SequencesExt, FiniteSetsExt

CONSTANTS
    Identities,
    Keys,               \* public keys and certificates
    IdentityLimitSize,
    MaxTxs,             \* bound: transactions on the chain
    MaxGap,             \* bound: heights between two transactions
    MaxFailures         \* bound: runs aborted and writes lost

ASSUME IdentitySettings ==
    /\ IdentityLimitSize \in Nat \ {0}
    /\ {MaxTxs, MaxGap, MaxFailures} \subseteq Nat

VARIABLES
    txs,        \* the successful identity transactions, by height
    identities, \* the identities; height 0 stands for no document
    keyTable,   \* the height of every key's document, 0 if there is none
    stage,      \* where doTask stands
    from,       \* height, the cursor of the run
    batch,      \* txlist
    todo,       \* creations of insertMany not applied yet
    clash,      \* insertMany met an identity that is there already
    sent,       \* updates and key writes nobody waits for
    lost,       \* history: identities whose insertion was given up
    failures    \* runs aborted and writes lost so far

vars == <<txs, identities, keyTable, stage, from, batch, todo, clash, sent, lost, failures>>
runVars == <<stage, from, batch, todo, clash>>

Tx == [id : Identities, op : {"create", "update"}, cred : Nat, keys : SUBSET Keys, height : Nat]
Doc == [made : Nat, cred : Nat, height : Nat]
Update == [id : Identities, cred : Nat, height : Nat]
KeyWrite == [id : Identities, key : Keys, height : Nat]
NoDoc == [made |-> 0, cred |-> 0, height |-> 0]

TypeOK ==
    /\ txs \in Seq(Tx)
    /\ identities \in [Identities -> Doc]
    /\ keyTable \in [Identities \X Keys -> Nat]
    /\ stage \in {"idle", "querying", "inserting"}
    /\ from \in Nat
    /\ batch \in Seq(Tx)
    /\ todo \subseteq Tx
    /\ clash \in BOOLEAN
    /\ sent \subseteq Update \cup KeyWrite
    /\ lost \subseteq Identities
    /\ failures \in 0..MaxFailures

Init ==
    /\ txs = <<>>
    /\ identities = [i \in Identities |-> NoDoc]
    /\ keyTable = [k \in Identities \X Keys |-> 0]
    /\ stage = "idle"
    /\ from = 0 /\ batch = <<>> /\ todo = {} /\ clash = FALSE
    /\ sent = {}
    /\ lost = {}
    /\ failures = 0

-----------------------------------------------------------------------------
(* The chain: the first transaction of an identity creates it. *)

Top == IF txs = <<>> THEN 0 ELSE Last(txs).height
Of(i) == {j \in 1..Len(txs) : txs[j].id = i}
Created(i) == Of(i) # {}

NewTx ==
    \E i \in Identities, sets \in BOOLEAN, ks \in SUBSET Keys, gap \in 0..MaxGap :
        /\ Len(txs) < MaxTxs
        /\ Top + gap > 0
        /\ txs' = Append(txs,
                   [id |-> i, op |-> IF Created(i) THEN "update" ELSE "create",
                    cred |-> IF sets THEN Len(txs) + 1 ELSE 0,
                    keys |-> ks, height |-> Top + gap])
        /\ UNCHANGED <<identities, keyTable, runVars, sent, lost, failures>>

-----------------------------------------------------------------------------
(* doTask. *)

(* Mutant: the run starts one height earlier. *)
CursorBelow == Max({0} \cup {identities[i].height : i \in Identities}) - 1

(* queryHeight: the highest update_block_height, 0 without documents. *)
Cursor == Max({0} \cup {identities[i].height : i \in Identities})

Start ==
    /\ stage = "idle"
    /\ stage' = "querying"
    /\ from' = Cursor
    /\ UNCHANGED <<txs, identities, keyTable, batch, todo, clash, sent, lost, failures>>

(* How many transactions there are below height h: heights never decrease. *)
Below(h) == Max({0} \cup {j \in 1..Len(txs) : txs[j].height < h})

(* Transactions from the k-th on, limited. *)
TxsFrom(k) ==
    SubSeq(txs, k, Min({Len(txs), k + IdentityLimitSize - 1}))

(* Mutant: the heights after the cursor only. *)
TxListAbove(h) == TxsFrom(Below(h + 1) + 1)

(* queryListByCreateAndUpDateIdentity: height >= h, by height, limited. *)
TxList(h) == TxsFrom(Below(h) + 1)

(* newIdentityUpdateDataMap.  The updates are gone through from the newest *)
(* to the oldest and each takes the place of the one before it; only       *)
(* credentials are handed on to an update that has none.  So the oldest    *)
(* update prevails, and the oldest credentials.                            *)
UpdateOf(i) ==
    LET ups == {j \in 1..Len(batch) : batch[j].id = i /\ batch[j].op = "update"}
        set == {j \in ups : batch[j].cred # 0} IN
    [id |-> i, height |-> batch[Min(ups)].height,
     cred |-> IF set = {} THEN 0 ELSE batch[Min(set)].cred]

Updates == {UpdateOf(t.id) : t \in {b \in ToSet(batch) : b.op = "update"}}
KeyWrites ==
    UNION {{[id |-> t.id, key |-> k, height |-> t.height] : k \in t.keys} : t \in ToSet(batch)}

(* Mutant: the keys are sent before the identities are inserted. *)
QueryAndSend ==
    /\ stage = "querying"
    /\ stage' = "inserting"
    /\ batch' = TxList(from)
    /\ todo' = {t \in ToSet(batch') : t.op = "create"}
    /\ from' = 0
    /\ sent' = sent \cup KeyWrites'
    /\ UNCHANGED <<txs, identities, keyTable, clash, lost, failures>>

Query ==
    /\ stage = "querying"
    /\ stage' = "inserting"
    /\ batch' = TxList(from)
    /\ todo' = {t \in ToSet(batch') : t.op = "create"}
    /\ from' = 0
    /\ UNCHANGED <<txs, identities, keyTable, clash, sent, lost, failures>>

(* Mutant: the first failure ends insertMany, and the run with it. *)
InsertOrdered(t) ==
    /\ t \in todo
    /\ \/ /\ identities[t.id] = NoDoc
          /\ identities' = [identities EXCEPT ![t.id] =
                              [made |-> t.height, cred |-> t.cred, height |-> t.height]]
          /\ todo' = todo \ {t}
          /\ UNCHANGED clash
       \/ /\ identities[t.id] # NoDoc
          /\ todo' = {}
          /\ clash' = TRUE
          /\ UNCHANGED identities
    /\ UNCHANGED <<txs, keyTable, stage, from, batch, sent, lost, failures>>

(* insertMany, ordered: false: a duplicate does not stop the others. *)
Insert(t) ==
    /\ t \in todo
    /\ todo' = todo \ {t}
    /\ \/ /\ identities[t.id] = NoDoc
          /\ identities' = [identities EXCEPT ![t.id] =
                              [made |-> t.height, cred |-> t.cred, height |-> t.height]]
          /\ UNCHANGED clash
       \/ /\ identities[t.id] # NoDoc
          /\ clash' = TRUE
          /\ UNCHANGED identities
    /\ UNCHANGED <<txs, keyTable, stage, from, batch, sent, lost, failures>>

Ended ==
    /\ stage' = "idle"
    /\ from' = 0 /\ batch' = <<>> /\ todo' = {} /\ clash' = FALSE

(* The identities are in: the other writes are sent and the run ends. *)
Send ==
    /\ stage = "inserting"
    /\ todo = {}
    /\ ~clash
    /\ sent' = sent \cup Updates \cup KeyWrites
    /\ Ended
    /\ UNCHANGED <<txs, identities, keyTable, lost, failures>>

(* insertMany rejects with a BulkWriteError, and doTask with it. *)
Throw ==
    /\ stage = "inserting"
    /\ todo = {}
    /\ clash
    /\ Ended
    /\ UNCHANGED <<txs, identities, keyTable, sent, lost, failures>>

(* updateIdentityInfo: updateOne without upsert. *)
UpdateLands(w) ==
    /\ w \in sent \cap Update
    /\ sent' = sent \ {w}
    /\ identities' = IF identities[w.id] = NoDoc THEN identities
                ELSE [identities EXCEPT ![w.id] =
                        [made |-> @.made, height |-> w.height,
                         cred |-> IF w.cred = 0 THEN @.cred ELSE w.cred]]
    /\ UNCHANGED <<txs, keyTable, runVars, lost, failures>>

(* insertPubkey, insertCertificate: findOneAndUpdate with upsert. *)
KeyLands(w) ==
    /\ w \in sent \cap KeyWrite
    /\ sent' = sent \ {w}
    /\ keyTable' = [keyTable EXCEPT ![<<w.id, w.key>>] = w.height]
    /\ UNCHANGED <<txs, identities, runVars, lost, failures>>

-----------------------------------------------------------------------------
(* Failures. *)

(* The run dies with its process, or a command of it is rejected.  What    *)
(* the server has of insertMany by then is in the collection.              *)
Abort ==
    /\ failures < MaxFailures
    /\ failures' = failures + 1
    /\ stage # "idle"
    /\ lost' = lost \cup {t.id : t \in {c \in todo : identities[c.id] = NoDoc}}
    /\ Ended
    /\ UNCHANGED <<txs, identities, keyTable, sent>>

(* Nobody learns that one of the other writes was not applied. *)
WriteLost(w) ==
    /\ failures < MaxFailures
    /\ failures' = failures + 1
    /\ w \in sent
    /\ sent' = sent \ {w}
    /\ UNCHANGED <<txs, identities, keyTable, runVars, lost>>

RunStep ==
    \/ Start \/ Query \/ Send \/ Throw
    \/ \E t \in todo : Insert(t)
WriteStep == \E w \in sent : UpdateLands(w) \/ KeyLands(w)
UpdateLandsFor(i, h) == \E w \in sent : w.id = i /\ w.height = h /\ UpdateLands(w)
KeyLandsFor(i, k) == \E w \in sent : KeyLands(w) /\ w.id = i /\ w.key = k

Next ==
    \/ NewTx \/ RunStep \/ WriteStep \/ Abort
    \/ \E w \in sent : WriteLost(w)

Spec == Init /\ [][Next]_vars

(* Cron starts the task again and again, a run goes on, and every write    *)
(* that was sent lands.                                                    *)
LiveSpec ==
    /\ Spec /\ WF_vars(RunStep)
    /\ \A i \in Identities, h \in 1..(MaxTxs * MaxGap) : WF_vars(UpdateLandsFor(i, h))
    /\ \A i \in Identities, k \in Keys : WF_vars(KeyLandsFor(i, k))
-----------------------------------------------------------------------------
(* Correctness. *)

(* An identity is in the collection, about to be inserted, or lost with an *)
(* aborted run.                                                            *)
Covered(i) == identities[i] # NoDoc \/ i \in lost \/ \E t \in todo : t.id = i

(* Below the cursor nothing is read again: every identity created there is *)
(* covered.                                                                *)
NoCreationSkipped ==
    \A t \in ToSet(txs) : t.op = "create" /\ t.height < Cursor => Covered(t.id)

(* A key is shown only for an identity that is shown, or was lost: the     *)
(* insertion is awaited before keys are sent.                              *)
KeysFollowIdentity ==
    \A i \in Identities, k \in Keys :
        keyTable[<<i, k>>] # 0 => identities[i] # NoDoc \/ i \in lost

(* A full batch that creates nobody new and leaves the cursor where it is: *)
(* the run after it reads the same one.                                    *)
Stuck ==
    /\ Len(TxList(Cursor)) = IdentityLimitSize
    /\ \A t \in ToSet(TxList(Cursor)) : t.op = "create" => identities[t.id] # NoDoc

(* Every identity gets its document unless an aborted run lost it, as long *)
(* as the batch is not full.                                               *)
EveryIdentityArrives ==
    []<>(Stuck \/ \A i \in Identities : Created(i) => identities[i] # NoDoc \/ i \in lost)

(* An update_identity transaction updates the identity: when the chain     *)
(* rests every document comes to show the height of the latest one.        *)
UpdatesArrive ==
    \A i \in Identities : <>[](Created(i) => identities[i].height = txs[Max(Of(i))].height)
=============================================================================
