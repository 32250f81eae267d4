---------------------------- MODULE AccountSync ----------------------------
(***************************************************************************)
(* The task that collects the addresses named by transactions into the     *)
(* collection of accounts (AccountTaskService).  Its cursor, the height up *)
(* to which transactions were handled, is kept inside the collection:      *)
(* every account inserted carries the height of its window, and a document *)
(* that is no account (addressAccount, here the sentinel) carries it for   *)
(* windows that add nobody.  A run starts from the highest of them.        *)
(*                                                                         *)
(* Runs may overlap, as TaskDispatch shows they can, and a run may end     *)
(* early.  Accounts of the genesis file enter by another door and without  *)
(* a height.  Blocks become visible whole and in order.                    *)
(***************************************************************************)
EXTENDS Integers, FiniteSets

CONSTANTS
    Addresses,
    Runs,               \* runs of doTask that may be under way at once
    IncreaseHeight,     \* INCREASE_HEIGHT
    MaxHeight,          \* bound: the chain's last height
    MaxTxs,             \* bound: transactions that name addresses
    MaxGap,             \* bound: heights between two blocks with transactions
    MaxAborts           \* bound: runs that die or have a command rejected

ASSUME AccountSettings ==
    /\ IncreaseHeight \in Nat \ {0}
    /\ {MaxHeight, MaxTxs, MaxGap, MaxAborts} \subseteq Nat

VARIABLES
    top,        \* height of the newest transaction of any kind
    txs,        \* the transactions that name addresses
    account,    \* handled_block_height of each account, or Absent
    sentinel,   \* handled_block_height of the sentinel, or Absent
    stage,      \* where each run stands
    from,       \* handledBlockHeight
    max,        \* txMaxHeight
    handled,    \* handled_block_height
    pending,    \* accounts of insertManyAccount not inserted yet
    lost,       \* history: accounts an aborted run never inserted
    aborts      \* runs aborted so far

vars == <<top, txs, account, sentinel, stage, from, max, handled, pending, lost, aborts>>

Absent == -1
Tx == [height : Nat, addrs : SUBSET Addresses]

TypeOK ==
    /\ top \in Nat
    /\ txs \subseteq Tx
    /\ account \in [Addresses -> Nat \cup {Absent}]
    /\ sentinel \in Nat \cup {Absent}
    /\ stage \in [Runs -> {"idle", "max", "window", "inserting", "aborted"}]
    /\ from \in [Runs -> Nat]
    /\ max \in [Runs -> Nat]
    /\ handled \in [Runs -> Nat]
    /\ pending \in [Runs -> SUBSET Addresses]
    /\ lost \subseteq Addresses
    /\ aborts \in Nat

Init ==
    /\ top = 0
    /\ txs = {}
    /\ account = [a \in Addresses |-> Absent]
    /\ sentinel = Absent
    /\ stage = [r \in Runs |-> "idle"]
    /\ from = [r \in Runs |-> 0]
    /\ max = [r \in Runs |-> 0]
    /\ handled = [r \in Runs |-> 0]
    /\ pending = [r \in Runs |-> {}]
    /\ lost = {}
    /\ aborts = 0

-----------------------------------------------------------------------------
(* The environment. *)

(* A block whose transactions are of other types, or name some addresses. *)
NewBlock ==
    \E gap \in 1..MaxGap, addrs \in (SUBSET Addresses) \ {{}} :
        /\ top + gap <= MaxHeight
        /\ top' = top + gap
        /\ \/ txs' = txs
           \/ /\ Cardinality(txs) < MaxTxs
              /\ txs' = txs \cup {[height |-> top + gap, addrs |-> addrs]}
        /\ UNCHANGED <<account, sentinel, stage, from, max, handled, pending, lost, aborts>>

(* taskGenesisAccounts inserts an account that has no height: it counts 0. *)
GenesisAccount(a) ==
    /\ account[a] = Absent
    /\ account' = [account EXCEPT ![a] = 0]
    /\ UNCHANGED <<top, txs, sentinel, stage, from, max, handled, pending, lost, aborts>>

-----------------------------------------------------------------------------
(* doTask. *)

Heights == {account[a] : a \in Addresses} \cup {sentinel, 0}
IsLargest(h, S) == h \in S /\ \A k \in S : k <= h

(* The variables of a run that is over have no value any more. *)
Ended(r) ==
    /\ stage' = [stage EXCEPT ![r] = "idle"]
    /\ from' = [from EXCEPT ![r] = 0]
    /\ max' = [max EXCEPT ![r] = 0]
    /\ handled' = [handled EXCEPT ![r] = 0]
    /\ pending' = [pending EXCEPT ![r] = {}]

(* queryHandledBlockHeight: the highest one, 0 if there is none. *)
Start(r) ==
    /\ stage[r] = "idle"
    /\ stage' = [stage EXCEPT ![r] = "max"]
    /\ \E h \in Heights : IsLargest(h, Heights) /\ from' = [from EXCEPT ![r] = h]
    /\ UNCHANGED <<top, txs, account, sentinel, max, handled, pending, lost, aborts>>

QueryTxMaxHeight(r) ==
    /\ stage[r] = "max"
    /\ stage' = [stage EXCEPT ![r] = "window"]
    /\ max' = [max EXCEPT ![r] = top]
    /\ UNCHANGED <<top, txs, account, sentinel, from, handled, pending, lost, aborts>>

(* Mutant: the last height of a window is left to the next one. *)
WindowOpenAbove(r) ==
    {t \in txs : t.height > from[r] /\ t.height < from[r] + IncreaseHeight}

Window(r) ==
    {t \in txs : t.height > from[r] /\ t.height <= from[r] + IncreaseHeight}

(* Mutant: a window without transactions is tried again. *)
HandledAgain(r) == from[r]

(* The height a window without transactions counts as handled. *)
HandledEmpty(r) ==
    IF max[r] > from[r] + IncreaseHeight THEN from[r] + IncreaseHeight ELSE max[r]

(* queryAccountTxList, the set of addresses and the height that goes with it. *)
QueryAccountTxList(r) ==
    LET found == Window(r) IN
    /\ stage[r] = "window"
    /\ stage' = [stage EXCEPT ![r] = "inserting"]
    /\ pending' = [pending EXCEPT ![r] = UNION {t.addrs : t \in found}]
    /\ \/ /\ found = {}
          /\ handled' = [handled EXCEPT ![r] = HandledEmpty(r)]
       \/ \E t \in found :
             /\ IsLargest(t.height, {s.height : s \in found})
             /\ handled' = [handled EXCEPT ![r] = t.height]
    /\ from' = [from EXCEPT ![r] = 0]
    /\ max' = [max EXCEPT ![r] = 0]
    /\ UNCHANGED <<top, txs, account, sentinel, lost, aborts>>

(* insertMany, ordered: false: the documents go in one by one, an address  *)
(* that is there already keeps its document (BulkWriteError is ignored).   *)
Insert(r, a) ==
    /\ stage[r] \in {"inserting", "aborted"}
    /\ a \in pending[r]
    /\ pending' = [pending EXCEPT ![r] = @ \ {a}]
    /\ account' = [account EXCEPT ![a] = IF @ = Absent THEN handled[r] ELSE @]
    /\ UNCHANGED <<top, txs, sentinel, stage, from, max, handled, lost, aborts>>

(* The sentinel takes the height, whatever it held, and the run ends. *)
UpdateSentinel(r) ==
    /\ stage[r] = "inserting"
    /\ pending[r] = {}
    /\ sentinel' = handled[r]
    /\ Ended(r)
    /\ UNCHANGED <<top, txs, account, lost, aborts>>

(* The process dies or a command is rejected: the run goes no further, but *)
(* what the server has of an insertMany may still be inserted.             *)
Abort(r) ==
    /\ aborts < MaxAborts
    /\ aborts' = aborts + 1
    /\ stage[r] \in {"max", "window", "inserting"}
    /\ \/ /\ pending[r] # {}
          /\ stage' = [stage EXCEPT ![r] = "aborted"]
          /\ UNCHANGED <<from, max, handled, pending>>
       \/ pending[r] = {} /\ Ended(r)
    /\ UNCHANGED <<top, txs, account, sentinel, lost>>

Abandon(r) ==
    /\ stage[r] = "aborted"
    /\ lost' = lost \cup pending[r]
    /\ Ended(r)
    /\ UNCHANGED <<top, txs, account, sentinel, aborts>>

RunStep(r) ==
    \/ Start(r) \/ QueryTxMaxHeight(r) \/ QueryAccountTxList(r)
    \/ \E a \in Addresses : Insert(r, a)
    \/ UpdateSentinel(r) \/ Abandon(r)

Next ==
    \/ NewBlock
    \/ \E a \in Addresses : GenesisAccount(a)
    \/ \E r \in Runs : RunStep(r) \/ Abort(r)

Spec == Init /\ [][Next]_vars

(* Cron starts the task again and again, and every run goes on. *)
LiveSpec == Spec /\ \A r \in Runs : WF_vars(RunStep(r))
-----------------------------------------------------------------------------
(* Correctness. *)

Collected(a) == account[a] # Absent \/ a \in lost \/ \E r \in Runs : a \in pending[r]
CollectedUpTo(h) ==
    \A t \in txs : t.height <= h => \A a \in t.addrs : Collected(a)

(* No transaction at or below a recorded height is read again: whichever   *)
(* run recorded it, and whatever became of that run, the addresses of      *)
(* those transactions are in the collection, on their way to it, or lost   *)
(* with an aborted insertMany.                                             *)
NothingMissed == \A h \in Heights : CollectedUpTo(h)

(* No height above the newest transaction is ever recorded: a block that   *)
(* is still to come would be taken for handled.                            *)
BehindTheChain == \A h \in Heights : h <= top

(* Every address named by a transaction is collected in the end, unless an *)
(* aborted insertMany lost it.                                             *)
EveryAddressArrives ==
    \A a \in Addresses :
        (\E t \in txs : a \in t.addrs) ~> account[a] # Absent \/ a \in lost
=============================================================================
