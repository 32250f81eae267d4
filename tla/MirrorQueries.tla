--------------------------- MODULE MirrorQueries ---------------------------
(***************************************************************************)
(* The lists of everything that is not a transaction: the collections the  *)
(* tasks keep, blocks, and what is asked of the chain itself.  Documents   *)
(* are added, change their place and go while someone turns the pages.     *)
(***************************************************************************)
EXTENDS Integers, FiniteSets, FiniteSetsExt

CONSTANTS
    Docs,           \* documents of the list that is asked for
    NoValue,        \* no value asked for
    TopRank,        \* the highest sort key (bound)
    DocsPerPage,    \* pageSize of the reader
    MaxEdits        \* changes of the documents (bound)

ASSUME DocQuerySettings == /\ DocsPerPage \in Nat \ {0} /\ MaxEdits \in Nat
                           /\ IsFiniteSet(Docs) /\ TopRank \in Nat

VARIABLES
    docList,        \* the list that is asked for
    asked,          \* its two parameters
    facts,          \* what each document says, as pairs of field and value
    rank,           \* its sort key, 0 for a document that is not there
    edits,          \* how often something has changed
    docWalk         \* who reads the list

docVars == <<docList, asked, facts, rank, edits, docWalk>>

There == {d \in Docs : rank[d] > 0}
Holds(f, v) == {d \in There : <<f, v>> \in facts[d]}
MayHold(f, v) == IF v = NoValue THEN There ELSE Holds(f, v)
Is(f) == Holds(f, TRUE)

-----------------------------------------------------------------------------
(* What the lists select. *)

FindNftList == MayHold("denom_id", asked.value)
               \cap (MayHold("nft_name", asked.other) \cup MayHold("nft_id", asked.other))

FindDenomList == MayHold("name", asked.value) \cup MayHold("denom_id", asked.value)

QueryIdentityList ==
    MayHold("identities_id", asked.value) \cup MayHold("owner", asked.value)

QueryIdentityByAddress == Holds("owner", asked.value)
QueryPubkeyList == Holds("identities_id", asked.value)
QueryCertificate == Holds("identities_id", asked.value)

(* The validators of IRITA, by the jailed field. *)
FindValidators == IF asked.value = NoValue THEN There \ Is("jailed") ELSE Is("jailed")

(* Staking validators: jailed, active or candidates, or all of them. *)
QueryValidatorsByStatus ==
    CASE asked.value = "jailed" -> Is("jailed")
      [] asked.value = "active" -> Is("bonded") \ Is("jailed")
      [] asked.value = "candidate" -> There \ (Is("bonded") \cup Is("jailed"))
      [] OTHER -> There

QueryProposals ==
    MayHold("status", asked.value) \ Is("is_deleted")

FindTokenList == Is("native") \ Is("is_main_token")

-----------------------------------------------------------------------------
(* The lists that are counted by a query of their own. *)

FindNftCount == Cardinality(FindNftList)

QueryDenomCount ==
    Cardinality(MayHold("name", asked.value) \cup MayHold("denom_id", asked.value))

(* Tokens of other chains count, too. *)
FindTokenCount == Cardinality(There \ Is("is_main_token"))

(* Mutant: what the list still has behind the page. *)
CountBehind == Cardinality(There) - docWalk.page * DocsPerPage

(* resultData.length: the length of the page. *)
UnbondingCount ==
    Max({0, Min({DocsPerPage, Cardinality(There) - (docWalk.page - 1) * DocsPerPage})})

-----------------------------------------------------------------------------
(* Those of a validator and of an account; the chain has them by key. *)
ChainLists == {"delegations", "unbondings", "own delegations", "own unbondings"}

DocLists == {"nfts", "denoms", "identities", "identities of an owner", "pubkeys",
             "certificates", "validators", "staking validators", "proposals",
             "tokens", "blocks", "delegations", "unbondings", "own delegations",
             "own unbondings"}

DocsOf ==
    CASE docList = "nfts" -> FindNftList
      [] docList = "denoms" -> FindDenomList
      [] docList = "identities" -> QueryIdentityList
      [] docList = "identities of an owner" -> QueryIdentityByAddress
      [] docList = "pubkeys" -> QueryPubkeyList
      [] docList = "certificates" -> QueryCertificate
      [] docList = "validators" -> FindValidators
      [] docList = "staking validators" -> QueryValidatorsByStatus
      [] docList = "proposals" -> QueryProposals
      [] docList = "tokens" -> FindTokenList
      [] docList = "blocks" -> There
      [] docList \in ChainLists -> There

DocCount ==
    CASE docList = "nfts" -> FindNftCount
      [] docList = "denoms" -> QueryDenomCount
      [] docList = "tokens" -> FindTokenCount
      [] docList = "unbondings" -> UnbondingCount
      [] OTHER -> Cardinality(DocsOf)

(* Tokens and IRITA validators come in no order of their own. *)
Unsorted == {"tokens", "validators"}

DocReader == INSTANCE Paging WITH
    Items <- Docs, PerPage <- DocsPerPage, walk <- docWalk,
    shown <- [d \in DocsOf |-> IF docList \in Unsorted THEN 0 ELSE rank[d]],
    counted <- DocCount

(* The request and the documents are any. *)
DocsStart ==
    /\ docList \in DocLists
    /\ rank \in [Docs -> 0..TopRank]
    /\ edits = 0
    /\ docWalk = DocReader!NotReading

-----------------------------------------------------------------------------
DocsTypeOK ==
    /\ docList \in DocLists
    /\ rank \in [Docs -> 0..TopRank] /\ edits \in 0..MaxEdits
    /\ docWalk \in DocReader!Walks

(* Where a change may put a document.  Heights, times and numbers of what  *)
(* is new or touched are the highest so far; blocks, denoms, keys and      *)
(* certificates stay as they are; tokens of validators go up and down.     *)
Frozen == {"denoms", "pubkeys", "certificates", "blocks", "tokens", "proposals"}
          \cup ChainLists
Highest == Max({rank[d] : d \in Docs}) + 1
RanksFor(d) ==
    CASE docList = "staking validators" -> 1..TopRank
      [] docList \in Frozen /\ rank[d] > 0 -> {}
      [] docList \in ChainLists -> 1..TopRank \ {rank[e] : e \in Docs}
      [] OTHER -> {Highest}

(* The tasks insert, update and delete. *)
PutDoc(d) ==
    /\ edits < MaxEdits
    /\ \E k \in RanksFor(d) \cap 1..TopRank : rank' = [rank EXCEPT ![d] = k]
    /\ edits' = edits + 1
    /\ UNCHANGED <<docList, asked, facts>>
    /\ DocReader!ListChanges

Deleting == {"nfts", "validators", "staking validators"} \cup ChainLists

DropDoc(d) ==
    /\ edits < MaxEdits /\ docList \in Deleting
    /\ d \in There
    /\ rank' = [rank EXCEPT ![d] = 0]
    /\ edits' = edits + 1
    /\ UNCHANGED <<docList, asked, facts>>
    /\ DocReader!ListChanges

(* A proposal is flagged, a validator is jailed, a proposal moves on. *)
ChangeFact(d) ==
    /\ edits < MaxEdits
    /\ d \in There
    /\ facts' = [facts EXCEPT ![d] =
           CASE docList = "proposals" -> @ \cup {<<"is_deleted", TRUE>>}
             [] docList \in {"validators", "staking validators"} ->
                    IF <<"jailed", TRUE>> \in @ THEN @ \ {<<"jailed", TRUE>>}
                    ELSE @ \cup {<<"jailed", TRUE>>}
             [] OTHER -> @]
    /\ facts' # facts
    /\ edits' = edits + 1
    /\ UNCHANGED <<docList, asked, rank>>
    /\ DocReader!ListChanges

DocsNext ==
    \/ \E d \in Docs : PutDoc(d) \/ DropDoc(d) \/ ChangeFact(d)
    \/ DocReader!ReaderStep /\ UNCHANGED <<docList, asked, facts, rank, edits>>

DocsSpec == DocsStart /\ [][DocsNext]_docVars

(* A reader of any other list misses only documents that moved or were     *)
(* passed by one that went, and those of equal rank.                       *)
DocsAreNotMissed == DocReader!ReaderMissesNothing

(* These lists and their counts select alike, but for the count of the     *)
(* tokens and that of the unbonding delegations of a validator.            *)
DocCountsMatch == docList \notin {"tokens", "unbondings"} => DocReader!CountMatchesPage
=============================================================================
