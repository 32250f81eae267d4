------------------------------ MODULE RichList ------------------------------
(***************************************************************************)
(* How the tokens are spread over the accounts: the sum of all totals is   *)
(* read first, the list of the richest accounts afterwards, and the list   *)
(* is cut into classes by rank.  What the classes leave of the sum is the  *)
(* last class.  The accounts' tasks change totals at any time.  The        *)
(* sentinel with the handled height is a document of the collection too,   *)
(* with a total of -1: the sum has it, and in the list it comes last and   *)
(* adds nothing to a class.                                                *)
(***************************************************************************)
EXTENDS Integers, Sequences, FiniteSets, Functions, SequencesExt

CONSTANTS
    Holders,        \* accounts
    Classes,        \* how many accounts the classes have: 5, 5, 40, 50, ...
    TopTotal,       \* the highest total (bound)
    MaxUpdates      \* changes of totals (bound)

ASSUME RichListSettings == /\ Classes \in Seq(Nat \ {0})
                           /\ IsFiniteSet(Holders)
                           /\ TopTotal \in Nat /\ MaxUpdates \in Nat

VARIABLES
    totalOf,        \* account_total of each account, 0 if it has none
    sentinel,       \* the account task has stored it
    updates,
    rich            \* the request

richVars == <<totalOf, sentinel, updates, rich>>

Places == 1..Len(Classes)
Sums(f, S) == SumFunctionOnSet(f, S)

RichInit ==
    /\ totalOf \in [Holders -> 0..TopTotal]
    /\ sentinel \in BOOLEAN
    /\ updates = 0
    /\ rich = [at |-> "tokens", tokens |-> 0, classes |-> <<>>, last |-> 0, steady |-> TRUE]

-----------------------------------------------------------------------------
QueryTokenTotal == Sums(totalOf, Holders) - (IF sentinel THEN 1 ELSE 0)

(* sort({account_total: -1}).limit(1000); the classes take all of them.    *)
(* The sentinel behind the last account is left out here.                  *)
ListLimit == Sums(Classes, Places)
QueryAccountsTotalLimit ==
    {SubSeq(s, 1, IF Len(s) < ListLimit THEN Len(s) ELSE ListLimit) :
        s \in {t \in SetToSeqs(Holders) :
            \A i, j \in 1..Len(t) : i < j => totalOf[t[i]] >= totalOf[t[j]]}}

(* accountList.splice(0, n): classes in the order of the list. *)
Before(c) == Sums(Classes, 1..c - 1)
ClassOf(list, c) ==
    {list[i] : i \in {j \in 1..Len(list) : Before(c) < j /\ j <= Before(c) + Classes[c]}}

(* Mutant: what is left may be less than nothing. *)
RestOf(tokens, sum) == tokens - sum

LastAmount(tokens, sum) == IF tokens - sum > 0 THEN tokens - sum ELSE 0

-----------------------------------------------------------------------------
UpdateTotal(a) ==
    /\ updates < MaxUpdates
    /\ totalOf' \in {[totalOf EXCEPT ![a] = n] : n \in 0..TopTotal}
    /\ totalOf' # totalOf
    /\ updates' = updates + 1
    /\ rich' = IF rich.at = "list" THEN [rich EXCEPT !.steady = FALSE] ELSE rich
    /\ UNCHANGED sentinel

(* The first run of the account task ends. *)
StoreSentinel ==
    /\ ~sentinel
    /\ sentinel' = TRUE
    /\ rich' = IF rich.at = "list" THEN [rich EXCEPT !.steady = FALSE] ELSE rich
    /\ UNCHANGED <<totalOf, updates>>

ReadTokens ==
    /\ rich.at = "tokens"
    /\ rich' = [rich EXCEPT !.at = "list", !.tokens = QueryTokenTotal]
    /\ UNCHANGED <<totalOf, sentinel, updates>>

ReadRichest ==
    /\ rich.at = "list"
    /\ \E list \in QueryAccountsTotalLimit :
           LET sums == [c \in Places |-> Sums(totalOf, ClassOf(list, c))] IN
           rich' = [rich EXCEPT
               !.at = "done", !.classes = sums,
               !.last = LastAmount(rich.tokens, Sums(sums, Places))]
    /\ UNCHANGED <<totalOf, sentinel, updates>>

RichNext == (\E a \in Holders : UpdateTotal(a)) \/ StoreSentinel \/ ReadTokens \/ ReadRichest

RichSpec == RichInit /\ [][RichNext]_richVars

-----------------------------------------------------------------------------
RichTypeOK ==
    /\ totalOf \in [Holders -> 0..TopTotal]
    /\ sentinel \in BOOLEAN
    /\ updates \in 0..MaxUpdates
    /\ rich.at \in {"tokens", "list", "done"}

(* No class has less than nothing, also if accounts became richer between  *)
(* the two reads; if none changed the classes add up to the sum that was   *)
(* read, or, when the accounts of the list have everything, to one more    *)
(* than that: the sentinel's -1 is in the sum alone.  An account of a      *)
(* class is on average as rich as one of the next class.                   *)
ClassesAddUp ==
    rich.at = "done" =>
        /\ rich.last >= 0
        /\ rich.steady =>
               \/ Sums(rich.classes, Places) + rich.last = rich.tokens
               \/ /\ sentinel /\ rich.last = 0
                  /\ Sums(rich.classes, Places) = rich.tokens + 1
        /\ \A c \in Places \ {1} :
               rich.classes[c - 1] * Classes[c] >= rich.classes[c] * Classes[c - 1]
=============================================================================
