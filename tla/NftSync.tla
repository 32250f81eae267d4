------------------------------ MODULE NftSync ------------------------------
(***************************************************************************)
(* The task that keeps the collection ex_sync_nft in step with the mint,   *)
(* edit, transfer and burn messages of the chain (NftTaskService).  The    *)
(* collection has no cursor of its own: a run starts after the highest     *)
(* last_block_height it finds among the documents, reads windows of        *)
(* INCREASE_HEIGHT heights until it has MAX_OPERATE_TX_COUNT messages or   *)
(* has reached the highest message, folds them per NFT and sends one       *)
(* write per NFT, all at once.                                             *)
(*                                                                         *)
(* A payload is the number of the message that carried it, so two values   *)
(* are equal only if they come from the same message; 0 is "not set".      *)
(* Runs of this task do not overlap here: what the lock guarantees is the  *)
(* subject of TaskDispatch.  Blocks become visible whole and in order.     *)
(***************************************************************************)
EXTENDS Integers, Sequences, SequencesExt, FiniteSetsExt

CONSTANTS
    Nfts,               \* denom-id pairs
    IncreaseHeight,     \* INCREASE_HEIGHT
    MaxOperateTxCount,  \* MAX_OPERATE_TX_COUNT
    MaxMessages,        \* bound: messages on the chain
    MaxHeight,          \* bound: height of the last message
    MaxFaults           \* bound: crashes, failed queries and failed writes

ASSUME NftSettings ==
    /\ {IncreaseHeight, MaxOperateTxCount} \subseteq Nat \ {0}
    /\ {MaxMessages, MaxHeight, MaxFaults} \subseteq Nat

VARIABLES
    msgs,       \* the successful nft messages, by height and position
    table,      \* ex_sync_nft; height 0 stands for no document
    stage,      \* where doTask stands
    from,       \* the height the next window starts after
    max,        \* maxHeight
    list,       \* the messages read so far
    pending,    \* the writes that have been sent and not yet applied
    failed,     \* a write of this run was rejected
    lost,       \* history: NFTs one of whose writes never happened
    faults      \* faults so far

vars == <<msgs, table, stage, from, max, list, pending, failed, lost, faults>>
runVars == <<stage, from, max, list, pending, failed>>

NoDoc == [owner |-> 0, data |-> 0, height |-> 0]
NoWrite == [owner |-> 0, data |-> 0, deleted |-> FALSE, height |-> 0]
Ops == {"mint", "edit", "transfer", "burn"}
Message == [nft : Nfts, op : Ops, keep : BOOLEAN, height : Nat, id : Nat]
Doc == [owner : Nat, data : Nat, height : Nat]
Write == [owner : Nat, data : Nat, deleted : BOOLEAN, height : Nat]

TypeOK ==
    /\ msgs \in Seq(Message)
    /\ table \in [Nfts -> Doc]
    /\ stage \in {"idle", "max", "reading", "writing"}
    /\ from \in Nat /\ max \in Nat
    /\ list \in Seq(Message)
    /\ pending \in [Nfts -> Write]
    /\ failed \in BOOLEAN
    /\ lost \subseteq Nfts
    /\ faults \in 0..MaxFaults

Heights(t) == {0} \cup {t[n].height : n \in Nfts}
TopHeight == IF msgs = <<>> THEN 0 ELSE Last(msgs).height
Pending == {n \in Nfts : pending[n].height # 0}

-----------------------------------------------------------------------------
(* The chain.  It accepts a mint of an NFT that does not exist and any     *)
(* other message about one that does; a burnt NFT may be minted again.     *)

Applied(t, m) ==
    LET old == t[m.nft] IN
    [t EXCEPT ![m.nft] =
        CASE m.op = "burn" -> NoDoc
          [] m.op = "mint" -> [owner |-> m.id, data |-> m.id, height |-> m.height]
          [] OTHER ->
               [owner  |-> IF m.op = "transfer" THEN m.id ELSE old.owner,
                data   |-> IF m.keep THEN old.data ELSE m.id,
                height |-> m.height]]

(* What the chain says of every NFT after the first i messages. *)
After[i \in 0..Len(msgs)] ==
    IF i = 0 THEN [n \in Nfts |-> NoDoc] ELSE Applied(After[i - 1], msgs[i])

(* How many messages there are up to height k, and those above height j:   *)
(* heights never decrease.                                                 *)
Until(k) == Max({0} \cup {i \in 1..Len(msgs) : msgs[i].height <= k})
Between(j, k) == SubSeq(msgs, Until(j) + 1, Until(k))

(* What the chain says of every NFT after height k. *)
Ledger(k) == After[Until(k)]

Accepts(t, m) ==
    /\ m.op = "mint" <=> t[m.nft] = NoDoc
    /\ m.keep => m.op \in {"edit", "transfer"}

(* What may be the i-th new message.  keep stands for [do-not-modify]. *)
New(h, i) ==
    {[nft |-> n, op |-> op, keep |-> k, height |-> h, id |-> Len(msgs) + i] :
        n \in Nfts, op \in Ops, k \in BOOLEAN}

(* A block of one or two messages. *)
NewBlock ==
    \E h \in (TopHeight + 1)..MaxHeight :
        /\ Len(msgs) < MaxMessages
        /\ LET now == Ledger(TopHeight) IN
           \E m \in New(h, 1) :
              /\ Accepts(now, m)
              /\ \/ msgs' = Append(msgs, m)
                 \/ /\ Len(msgs) + 1 < MaxMessages
                    /\ \E l \in New(h, 2) : /\ Accepts(Applied(now, m), l)
                                            /\ msgs' = msgs \o <<m, l>>
        /\ UNCHANGED <<table, runVars, lost, faults>>

-----------------------------------------------------------------------------
(* doTask. *)

(* Mutant: the run starts one height earlier. *)
StartBelow ==
    /\ stage = "idle"
    /\ from' = Max(Heights(table)) - 1
    /\ stage' = "max"
    /\ UNCHANGED <<msgs, table, max, list, pending, failed, lost, faults>>

(* queryLastBlockHeight: the highest last_block_height, 0 if there is none. *)
Start ==
    /\ stage = "idle"
    /\ from' = Max(Heights(table))
    /\ stage' = "max"
    /\ UNCHANGED <<msgs, table, max, list, pending, failed, lost, faults>>

Reset ==
    /\ stage' = "idle"
    /\ from' = 0 /\ max' = 0 /\ list' = <<>> /\ failed' = FALSE
    /\ pending' = [n \in Nfts |-> NoWrite]

(* queryMaxNftTxList: throws if there is none; getNftTxList reads nothing  *)
(* unless the table is behind.                                             *)
FindMax ==
    /\ stage = "max"
    /\ \/ from < TopHeight /\ max' = TopHeight /\ stage' = "reading"
          /\ UNCHANGED <<from, list, pending, failed>>
       \/ from >= TopHeight /\ Reset
    /\ UNCHANGED <<msgs, table, lost, faults>>

(* Mutant: a height on the border of two windows belongs to neither. *)
WindowOpenAbove(k) == Between(k, k + IncreaseHeight - 1)

(* A query rejects before anything is written. *)
QueryFails ==
    /\ faults < MaxFaults
    /\ faults' = faults + 1
    /\ stage \in {"max", "reading"}
    /\ Reset
    /\ UNCHANGED <<msgs, table, lost>>

(* queryNftTxList: lastBlockHeight < height <= lastBlockHeight + INCREASE_HEIGHT *)
Window(k) == Between(k, k + IncreaseHeight)

(* Mutant: a window without messages ends the reading. *)
MoreWhileFound(next, read) ==
    next < max /\ read # <<>> /\ Len(read) < MaxOperateTxCount

More(next, read) == next < max /\ Len(read) < MaxOperateTxCount

(* One message folded into the writes of the batch (nftObj). *)
Folded(w, m) ==
    LET old == w[m.nft] IN
    [w EXCEPT ![m.nft] =
        [owner   |-> IF m.op \in {"mint", "transfer"} THEN m.id ELSE old.owner,
         data    |-> IF m.op # "burn" /\ ~m.keep THEN m.id ELSE old.data,
         deleted |-> m.op = "burn" \/ (m.op # "mint" /\ old.deleted),
         height  |-> m.height]]

(* The writes of a batch: its messages folded one after the other. *)
WritesOf(read) ==
    LET w[i \in 0..Len(read)] ==
            IF i = 0 THEN [n \in Nfts |-> NoWrite] ELSE Folded(w[i - 1], read[i])
    IN  w[Len(read)]

(* One window is read; after the last one the writes are sent. *)
ReadWindow ==
    LET read == list \o Window(from)
        next == from + IncreaseHeight IN
    /\ stage = "reading"
    /\ \/ /\ More(next, read)
          /\ from' = next /\ list' = read
          /\ UNCHANGED <<stage, max, pending, failed>>
       \/ /\ ~More(next, read)
          /\ read = <<>>
          /\ Reset
       \/ /\ ~More(next, read)
          /\ read # <<>>
          /\ pending' = WritesOf(read)
          /\ stage' = "writing"
          /\ from' = 0 /\ max' = 0 /\ list' = <<>>
          /\ UNCHANGED failed
    /\ UNCHANGED <<msgs, table, lost, faults>>

(* Mutant: an upsert replaces the document instead of setting fields. *)
WrittenWhole(old, w) ==
    IF w.deleted THEN NoDoc
    ELSE [owner |-> w.owner, data |-> w.data, height |-> w.height]

(* deleteNft, or updateNft: findOneAndUpdate with upsert sets the fields   *)
(* the batch has set and leaves the others as they are.                    *)
Written(old, w) ==
    IF w.deleted THEN NoDoc
    ELSE [owner  |-> IF w.owner = 0 THEN old.owner ELSE w.owner,
          data   |-> IF w.data = 0 THEN old.data ELSE w.data,
          height |-> w.height]

(* The server applies one of the writes, in any order. *)
WriteLands(n) ==
    /\ n \in Pending
    /\ table' = [table EXCEPT ![n] = Written(@, pending[n])]
    /\ pending' = [pending EXCEPT ![n] = NoWrite]
    /\ UNCHANGED <<msgs, stage, from, max, list, failed, lost, faults>>

WriteFails(n) ==
    /\ faults < MaxFaults
    /\ faults' = faults + 1
    /\ n \in Pending
    /\ pending' = [pending EXCEPT ![n] = NoWrite]
    /\ failed' = TRUE
    /\ lost' = lost \cup {n}
    /\ UNCHANGED <<msgs, table, stage, from, max, list>>

(* Promise.all(...).then(resolve) has no catch: after a failed write the   *)
(* promise of handleNftTx never settles and the run stays where it is.     *)
Resolve ==
    /\ stage = "writing"
    /\ Pending = {}
    /\ ~failed
    /\ Reset
    /\ UNCHANGED <<msgs, table, lost, faults>>

-----------------------------------------------------------------------------
(* The process dies, in particular one whose run hangs: what has not       *)
(* landed is lost, and the lock is taken over by the next run.             *)
Crash ==
    /\ faults < MaxFaults
    /\ faults' = faults + 1
    /\ stage # "idle"
    /\ lost' = lost \cup Pending
    /\ Reset
    /\ UNCHANGED <<msgs, table>>

Init ==
    /\ msgs = <<>>
    /\ table = [n \in Nfts |-> NoDoc]
    /\ stage = "idle"
    /\ from = 0 /\ max = 0 /\ list = <<>>
    /\ pending = [n \in Nfts |-> NoWrite]
    /\ failed = FALSE
    /\ lost = {}
    /\ faults = 0

RunStep ==
    \/ Start \/ FindMax \/ ReadWindow \/ Resolve
    \/ \E n \in Nfts : WriteLands(n)

Fault == Crash \/ QueryFails \/ \E n \in Nfts : WriteFails(n)

Next == NewBlock \/ RunStep \/ Fault

Spec == Init /\ [][Next]_vars

(* Cron starts the task again and again, and a run goes on. *)
Fairness == WF_vars(RunStep)
LiveSpec == Spec /\ Fairness
-----------------------------------------------------------------------------
(* Correctness. *)

Cursor == Max(Heights(table))
Settled(n) == n \notin lost /\ n \notin Pending

(* When a burn takes the document that carried the cursor, messages below  *)
(* it are read again; a batch that ends before the burn then makes a       *)
(* document anew of what it finds, without the fields it does not set.     *)
Patchy(d, n, k) ==
    LET true == Ledger(k)[n] IN
    /\ d.height = true.height /\ d.height # 0
    /\ d.owner \in {0, true.owner} /\ d.data \in {0, true.data}
    /\ \E j \in k..TopHeight : Ledger(j)[n] = NoDoc

(* A document is what the chain says of its NFT at height k. *)
Agrees(d, n, k) == d = Ledger(k)[n] \/ Patchy(d, n, k)

(* A document that no write was lost for is what the chain says of the NFT *)
(* at the document's height, whole and not half of an older one; fields    *)
(* are missing only if the NFT has been burnt since.                       *)
DocIsTrue ==
    \A n \in Nfts \ lost :
        table[n] # NoDoc => Agrees(table[n], n, table[n].height)

(* A run starts after the highest document, so below that height nothing   *)
(* is read again: what is there must be complete.                          *)
NothingSkipped ==
    \A n \in Nfts : Settled(n) =>
        \E k \in Cursor..TopHeight : Agrees(table[n], n, k)

(* Where the batch of a cursor ends, if the chain rests. *)
EndOfBatch(c) ==
    Min({k \in (c + 1)..(TopHeight + IncreaseHeight) :
            /\ (k - c) % IncreaseHeight = 0
            /\ k >= TopHeight \/ Until(k) - Until(c) >= MaxOperateTxCount})

(* A full batch with messages behind it leaves no document above the       *)
(* cursor it began at: the cursor does not move on, or falls back behind   *)
(* batches that were there before, and they are read for ever.             *)
Stuck ==
    \E c \in {0} \cup {msgs[i].height : i \in 1..Len(msgs)} :
        /\ EndOfBatch(c) < TopHeight
        /\ \A n \in Nfts : Ledger(EndOfBatch(c))[n].height <= c

Matches == \A n \in Nfts \ lost : table[n] = Ledger(TopHeight)[n]

(* If the last message was a burn, the highest document is gone, the       *)
(* cursor falls back and messages are read again: an NFT may be minted and *)
(* burnt in the collection anew.                                           *)
LastBurnt == msgs # <<>> /\ Last(msgs).op = "burn"

(* When the chain rests the collection comes to match it time and again,   *)
(* but for NFTs a write of which was lost, unless the run hangs after a    *)
(* failed write or batches go round in circles.  It then stays so if the   *)
(* last message left its NFT alive.                                        *)
CatchesUp ==
    /\ []<>(failed \/ Matches \/ Stuck)
    /\ <>[](failed \/ LastBurnt \/ Matches \/ Stuck)
=============================================================================
