----------------------------- MODULE BlockPower -----------------------------
(***************************************************************************)
(* The validators of a block.  The chain answers its validator set in      *)
(* pages of a hundred; the backend asks for the next page while the last   *)
(* one was full, and a page that cannot be had is put into the list as an  *)
(* undefined element.  blocks/staking sums the voting power,               *)
(* validatorset answers a slice of the list.                               *)
(***************************************************************************)
EXTENDS Integers, Sequences, FiniteSets, Functions, SequencesExt

CONSTANTS
    Members,        \* the validator set of the block, in the chain's order
    PowerOf,        \* voting power of each member
    Signers,        \* who signed the commit the block carries
    Undefined,
    ChainPage       \* page size of the chain, 100

ASSUME BlockSettings == /\ ChainPage \in Nat \ {0}
                        /\ Members \in Seq(ToSet(Members)) /\ Undefined \notin ToSet(Members)
                        /\ PowerOf \in [ToSet(Members) -> Nat]

VARIABLE sets   \* a request for the validators of the block

(* what: the power, or a slice of the list.  got: the pages so far. *)
SetRequests == [at : {"block", "first", "next", "sum", "done", "failed"},
                what : {"power", "slice"}, page : Nat, full : BOOLEAN,
                got : Seq(ToSet(Members) \cup {Undefined}),
                total : Nat, precommit : Nat, count : Nat,
                from : Nat, size : Nat]

SetsInit ==
    \E w \in {"power", "slice"}, n \in 1..Len(Members) + 1, k \in 1..3 :
        sets = [at |-> IF w = "power" THEN "block" ELSE "first", what |-> w, page |-> 1,
                full |-> FALSE, got |-> <<>>, total |-> 0, precommit |-> 0, count |-> 0,
                from |-> (n - 1) * k, size |-> k]

-----------------------------------------------------------------------------
Slice(s, from, size) ==
    SubSeq(s, from + 1, IF from + size < Len(s) THEN from + size ELSE Len(s))

(* BlockHttp: errors of these two end the request. *)
QueryBlockFromLcd ==
    /\ sets.at = "block"
    /\ \E ok \in BOOLEAN : sets' = [sets EXCEPT !.at = IF ok THEN "first" ELSE "failed"]

ChainAnswers(k) == Slice(Members, (k - 1) * ChainPage, ChainPage)

(* The first page; without it the list is empty. *)
QueryFirstPage ==
    /\ sets.at = "first"
    /\ \E ok \in BOOLEAN :
           LET P == IF ok THEN ChainAnswers(1) ELSE <<>> IN
           sets' = [sets EXCEPT !.got = P, !.full = Len(P) = ChainPage, !.at = "next"]

(* Mutant: pages that cannot be had are left out. *)
WithoutPage(got) == got

(* allValidatorsets.concat(undefined) *)
WithLostPage(got) == Append(got, Undefined)

QueryNextPage ==
    /\ sets.at = "next" /\ sets.full
    /\ \E ok \in BOOLEAN :
           LET P == ChainAnswers(sets.page + 1) IN
           sets' = [sets EXCEPT
               !.page = @ + 1, !.full = ok /\ Len(P) = ChainPage,
               !.got = IF ok THEN @ \o P ELSE WithLostPage(@)]

PowerAt(s, places) == SumFunctionOnSet([i \in DOMAIN s |-> PowerOf[s[i]]], places)
PowerIn(s) == PowerAt(s, DOMAIN s)

(* The element that is undefined has no voting_power: the request fails. *)
SumPower ==
    /\ sets.at = "next" /\ ~sets.full /\ sets.what = "power"
    /\ sets' = IF Undefined \in ToSet(sets.got) THEN [sets EXCEPT !.at = "failed"]
               ELSE [sets EXCEPT
                   !.at = "done", !.total = PowerIn(sets.got), !.count = Len(sets.got),
                   !.precommit = PowerAt(sets.got, {i \in DOMAIN sets.got : sets.got[i] \in Signers})]

(* Nor has it a pub_key; but it counts in the length of the list. *)
AnswerSlice ==
    /\ sets.at = "next" /\ ~sets.full /\ sets.what = "slice"
    /\ LET data == Slice(sets.got, sets.from, sets.size) IN
       sets' = IF Undefined \in ToSet(data) THEN [sets EXCEPT !.at = "failed"]
               ELSE [sets EXCEPT !.at = "done", !.count = Len(sets.got), !.got = data]

SetsNext == QueryBlockFromLcd \/ QueryFirstPage \/ QueryNextPage \/ SumPower \/ AnswerSlice

SetsSpec == SetsInit /\ [][SetsNext]_sets

-----------------------------------------------------------------------------
SetsTypeOK == sets \in SetRequests

(* Pages of the chain that are lost never make an answer with a part of    *)
(* the power: it is that of the whole set, or 0; and a slice that has      *)
(* validators has those that belong there.                                 *)
PowerIsWhole ==
    sets.at = "done" =>
        \/ sets.got = <<>>
        \/ /\ sets.what = "power"
           /\ sets.total = PowerIn(Members) /\ sets.count = Len(Members)
           /\ sets.precommit <= sets.total
        \/ /\ sets.what = "slice"
           /\ sets.got = Slice(Members, sets.from, sets.size)
=============================================================================
