----------------------------- MODULE AccountInfo -----------------------------
(***************************************************************************)
(* AccountInfoTaskService.doTask: for one account after the other the      *)
(* balance, the rewards, all delegations and all unbonding delegations are *)
(* asked for, added up and stored.  What an account owns moves from one    *)
(* place to another while this goes on; it is worth the same throughout.   *)
(* A delegation, an unbonding delegation and the first entry of one are    *)
(* worth 1 each, and a page holds one of them.                             *)
(***************************************************************************)
EXTENDS TaskRuns, Functions

CONSTANTS
    Accounts,       \* the accounts in the collection, without the sentinel
    Operators,      \* those of them that operate a validator
    Worth,          \* what every account is worth
    MaxTransfers    \* moves between the places of an account (bound)

ASSUME AccountInfoSettings ==
    /\ Operators \subseteq Accounts /\ Accounts \cap {"idle", "next"} = {}
    /\ Worth \in Nat /\ Worth >= 2 /\ MaxTransfers \in Nat

VARIABLES
    holds,          \* what each account owns in each place
    transfers,      \* how often something has moved
    totals,         \* account_total of each document, NoTotal before the first
    listed,         \* operators whose validator is in the collection
    doubtful,       \* history: accounts whose total was read under a fault
    infoRun         \* the run

infoVars == <<holds, transfers, totals, listed, doubtful, infoRun>>

(* more: the entries of unbonding delegations behind their first ones. *)
Places == {"balance", "rewards", "commission", "delegations", "unbondings", "more"}
Paged == {"delegations", "unbondings"}
NoTotal == -1

(* kept: operators in the collection; open: lists with another page;       *)
(* moved: something moved, or a page is missing.                           *)
InfoIdle == [at |-> "idle", todo |-> {}, kept |-> {}, sum |-> 0, page |-> 1,
             open |-> {}, moved |-> FALSE]

InfoTypeOK ==
    /\ \A a \in Accounts :
           /\ holds[a] \in [Places -> 0..Worth]
           /\ totals[a] \in -1..(Worth + MaxTransfers)
    /\ transfers \in 0..MaxTransfers
    /\ doubtful \subseteq Accounts /\ listed \subseteq Operators
    /\ infoRun.at \in {"idle", "next"} \cup Accounts
    /\ infoRun.todo \subseteq Accounts /\ infoRun.kept \subseteq Operators
    /\ infoRun.open \subseteq Paged

InfoInit ==
    /\ holds = [a \in Accounts |-> [p \in Places |->
           CASE p = "rewards" -> 1
             [] p = "commission" -> IF a \in Operators THEN 1 ELSE 0
             [] p = "balance" -> IF a \in Operators THEN Worth - 2 ELSE Worth - 1
             [] OTHER -> 0]]
    /\ transfers = 0
    /\ totals = [a \in Accounts |-> NoTotal]
    /\ listed = {} /\ doubtful = {} /\ infoRun = InfoIdle

(* Delegating, undelegating, its completion, withdrawing. *)
Moves == {<<"balance", "delegations">>, <<"delegations", "unbondings">>,
          <<"delegations", "more">>, <<"unbondings", "balance">>,
          <<"rewards", "balance">>, <<"commission", "balance">>}

Transfer(a, from, to) ==
    /\ transfers < MaxTransfers
    /\ <<from, to>> \in Moves /\ holds[a][from] > 0
    /\ to = "more" => holds[a]["unbondings"] > 0
    /\ from = "unbondings" => holds[a]["more"] = 0
    /\ transfers' = transfers + 1
    /\ holds' = [holds EXCEPT ![a][from] = @ - 1, ![a][to] = @ + 1]
    /\ infoRun' = IF infoRun.at = a THEN [infoRun EXCEPT !.moved = TRUE] ELSE infoRun
    /\ UNCHANGED <<totals, listed, doubtful, faults>>

(* The staking task inserts the validator of an operator (StakingSync). *)
ListOperator(a) ==
    /\ a \in Operators \ listed
    /\ listed' = listed \cup {a}
    /\ UNCHANGED <<holds, transfers, totals, doubtful, infoRun, faults>>

(* Mutant: the validators in the collection are not read. *)
QueryAddressesOnly ==
    /\ infoRun.at = "idle"
    /\ infoRun' = [InfoIdle EXCEPT !.at = "next", !.todo = Accounts]
    /\ UNCHANGED <<holds, transfers, totals, listed, doubtful, faults>>

(* The addresses, the validators and the staking token are read. *)
QueryAllAddress ==
    /\ infoRun.at = "idle"
    /\ infoRun' = [InfoIdle EXCEPT !.at = "next", !.todo = Accounts,
                                   !.kept = listed]
    /\ UNCHANGED <<holds, transfers, totals, listed, doubtful, faults>>

(* Promise.all: balances, rewards and, of a known operator, commission. *)
Counted(a) ==
    {"balance", "rewards"} \cup (IF a \in infoRun.kept THEN {"commission"} ELSE {})

SumOver(a, places) == SumFunctionOnSet(holds[a], places)

QueryBalances(a) ==
    /\ infoRun.at = "next" /\ a \in infoRun.todo
    /\ infoRun' = [infoRun EXCEPT
           !.at = a, !.todo = @ \ {a}, !.page = 1, !.open = Paged,
           !.moved = a \in Operators \ infoRun.kept,
           !.sum = SumOver(a, Counted(a))]
    /\ UNCHANGED <<holds, transfers, totals, listed, doubtful, faults>>

(* One of them is missing: the account is passed over (continue). *)
BalancesFail(a) ==
    /\ infoRun.at = "next" /\ a \in infoRun.todo
    /\ Fails
    /\ infoRun' = [infoRun EXCEPT !.todo = @ \ {a}]
    /\ UNCHANGED <<holds, transfers, totals, listed, doubtful>>

(* Mutant: the loop goes on only while both lists have more pages. *)
StillOpenBoth(a) ==
    LET next == {p \in infoRun.open : holds[a][p] > infoRun.page}
    IN  IF next = Paged THEN next ELSE {}

(* handleDelegationAndUnbondingDelegations: the lists with a next_key. *)
StillOpen(a) == {p \in infoRun.open : holds[a][p] > infoRun.page}

(* The next page of each list that has one; both have the same number. *)
QueryPages(a) ==
    /\ infoRun.at = a /\ infoRun.open # {}
    /\ infoRun' = [infoRun EXCEPT
           !.page = @ + 1, !.open = StillOpen(a),
           !.sum = @ + Cardinality({p \in infoRun.open : holds[a][p] >= infoRun.page})]
    /\ UNCHANGED <<holds, transfers, totals, listed, doubtful, faults>>

(* A request fails: its list ends here as if this were the last page. *)
PagesFail(a) ==
    /\ infoRun.at = a
    /\ Fails
    /\ \E p \in infoRun.open :
           infoRun' = [infoRun EXCEPT !.open = @ \ {p}, !.moved = TRUE]
    /\ UNCHANGED <<holds, transfers, totals, listed, doubtful>>

UpdateAccount(a) ==
    /\ infoRun.at = a /\ infoRun.open = {}
    /\ totals' = [totals EXCEPT ![a] = infoRun.sum]
    /\ doubtful' = IF infoRun.moved \/ holds[a]["more"] > 0
                   THEN doubtful \cup {a} ELSE doubtful \ {a}
    /\ infoRun' = [infoRun EXCEPT !.at = "next", !.moved = FALSE,
                                  !.sum = 0, !.page = 1]
    /\ UNCHANGED <<holds, transfers, listed, faults>>

InfoEnds ==
    /\ infoRun.at = "next" /\ infoRun.todo = {}
    /\ infoRun' = InfoIdle
    /\ UNCHANGED <<holds, transfers, totals, listed, doubtful, faults>>

(* Without a staking token its cur_value throws; a command may reject.     *)
(* The accounts that are left wait for the next run.                       *)
InfoThrows ==
    /\ infoRun.at # "idle"
    /\ Fails
    /\ infoRun' = InfoIdle
    /\ UNCHANGED <<holds, transfers, totals, listed, doubtful>>

InfoStep ==
    \/ QueryAllAddress \/ InfoEnds
    \/ \E a \in Accounts : QueryBalances(a) \/ QueryPages(a) \/ UpdateAccount(a)

InfoNext ==
    \/ InfoStep \/ InfoThrows
    \/ \E a \in Accounts :
           \/ \E from, to \in Places : Transfer(a, from, to)
           \/ ListOperator(a) \/ BalancesFail(a) \/ PagesFail(a)

InfoSpec == InfoInit /\ faults = 0 /\ [][InfoNext]_<<infoVars, faults>>

(* A stored total is all the account was worth, unless something moved or  *)
(* a page was missing while its parts were read, an unbonding delegation   *)
(* had several entries, or its validator was not in the collection.        *)
TotalIsTrue ==
    \A a \in Accounts \ doubtful : totals[a] \in {NoTotal, Worth}

(* Once transfers and faults rest, every account without further entries   *)
(* comes to show all it is worth.                                          *)
TotalsSettle ==
    \A a \in Accounts : []<>(totals[a] = Worth \/ holds[a]["more"] > 0)
=============================================================================
