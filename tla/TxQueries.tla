----------------------------- MODULE TxQueries -----------------------------
(***************************************************************************)
(* The lists of transactions: what TxSchema selects for each of them, in   *)
(* which order, and how it counts.  A transaction is the set of the types  *)
(* of its messages, its status, and what any of its messages says in a     *)
(* field: the fields and the types of different messages are not told      *)
(* apart by a query.  The block time grows with the height.                *)
(***************************************************************************)
EXTENDS Integers, FiniteSets, FiniteSetsExt

CONSTANTS
    Txs,            \* transactions
    TypeLists,      \* contents of the collection of types over time
    Values, None,   \* values of fields, and no value asked for
    TopHeight,      \* height at which the chain stops (bound)
    TxsPerPage      \* pageSize of the reader

ASSUME TxQuerySettings == /\ TxsPerPage \in Nat \ {0} /\ TopHeight \in Nat
                          /\ IsFiniteSet(Txs)

VARIABLES
    txList,         \* the list that is asked for
    query,          \* its parameters
    body,           \* types, status and fields of each transaction
    height,         \* its height, 0 before it is stored
    named,          \* those with ex.service_name (ServiceNames)
    bound,          \* definitions with ex.bind
    supported,      \* Cache.supportTypes of the process
    txWalk          \* who reads the list

txVars == <<txList, query, body, height, named, bound, supported, txWalk>>

StakingTypes == {"delegate", "begin_redelegate", "begin_unbonding",
                 "set_withdraw_address", "withdraw_delegator_reward",
                 "fund_community_pool"}
CoinswapTypes == {"add_liquidity", "remove_liquidity", "swap_order"}
DeclarationTypes == {"create_validator", "edit_validator", "unjail",
                     "withdraw_validator_commission"}
GovTypes == {"deposit", "vote", "submit_proposal"}
ServiceTypes == {"define_service", "bind_service", "call_service", "respond_service",
                 "update_service_binding", "disable_service_binding",
                 "enable_service_binding", "refund_service_deposit",
                 "pause_request_context", "start_request_context",
                 "kill_request_context", "update_request_context"}
NftTypes == {"mint_nft", "edit_nft", "transfer_nft", "burn_nft"}
IdentityTypes == {"create_identity", "update_identity"}

(* What a request may ask: types, a status, a period, one or two values. *)
AnyStatus == "any"
Ok == "ok"
Failed == "failed"
NoQuery == [types |-> {}, status |-> AnyStatus, from |-> 0, to |-> TopHeight,
            value |-> None, other |-> None]

Stored == {x \in Txs : height[x] > 0}
Typed(T) == {x \in Stored : body[x].types \cap T # {}}
TypedOr(T) == Typed(IF query.types = {} THEN T ELSE query.types)
Succeeded == {x \in Stored : body[x].ok}
InStatus == CASE query.status = AnyStatus -> Stored
              [] query.status = Ok -> Succeeded
              [] query.status = Failed -> Stored \ Succeeded
InPeriod == {x \in Stored : query.from <= height[x] /\ height[x] <= query.to}
Says(f, v) == {x \in Stored : <<f, v>> \in body[x].says}
MaySay(f, v) == IF v = None THEN Stored ELSE Says(f, v)
NamedAs(v) == Says("service", v) \cap named

-----------------------------------------------------------------------------
(* What the lists select. *)

QueryTxList ==
    TypedOr(supported) \cap InStatus \cap InPeriod \cap MaySay("addrs", query.value)

QueryStakingTxList ==
    TypedOr(StakingTypes) \cap InStatus \cap InPeriod \cap MaySay("addrs", query.value)

QueryCoinswapTxList ==
    TypedOr(CoinswapTypes) \cap InStatus \cap InPeriod \cap MaySay("addrs", query.value)

QueryDeclarationTxList ==
    TypedOr(DeclarationTypes) \cap InStatus \cap InPeriod \cap MaySay("addrs", query.value)

QueryGovTxList ==
    TypedOr(GovTypes) \cap InStatus \cap InPeriod \cap MaySay("addrs", query.value)

QueryTxWithHeight ==
    {x \in Typed(supported) : query.from > 0 => height[x] = query.from}

QueryTxWithAddress ==
    TypedOr(supported) \cap InStatus \cap MaySay("addrs", query.value)

(* An event, the message or the field the task adds has the context. *)
QueryTxWithContextId ==
    TypedOr(supported) \cap InStatus \cap
    (MaySay("event", query.value) \cup MaySay("request_context_id", query.value)
     \cup (Says("context", query.value) \cap named))

QueryTxWithNft ==
    Typed(NftTypes) \cap MaySay("denom", query.value) \cap MaySay("id", query.other)

QueryTxListByIdentity == Typed(IdentityTypes) \cap Says("id", query.value)

QueryTxWithAsset == Typed(query.types) \cap MaySay("symbol", query.value)

QueryCallServiceWithConsumerAddr ==
    Typed({"call_service"}) \cap Succeeded \cap Says("consumer", query.value)

QueryBindServiceWithProviderAddr ==
    Typed({"bind_service"}) \cap Succeeded \cap Says("provider", query.value)

(* The name or the description of a definition matches. *)
FindServiceAllList ==
    Typed({"define_service"}) \cap Succeeded \cap MaySay("matches", query.value)

FindBindServiceTxList ==
    Typed({"bind_service"}) \cap Succeeded \cap NamedAs(query.value)

FindServiceTx == TypedOr(ServiceTypes) \cap InStatus \cap NamedAs(query.value)

(* Answers of a service, of a provider, of both or all; failed ones too. *)
QueryServiceRespondTx ==
    Typed({"respond_service"})
    \cap (IF query.value = None THEN Stored ELSE NamedAs(query.value))
    \cap MaySay("provider", query.other)

(* Deposits with the number of the proposal, its submission by the event. *)
QueryDepositorById ==
    Typed({"deposit", "submit_proposal"}) \cap Succeeded
    \cap (Says("proposal_id", query.value) \cup Says("event", query.value))

QueryDepositsByAddress == Succeeded \cap Says("depositor", query.value)

-----------------------------------------------------------------------------
(* The lists that are counted by a query of their own. *)

FindAllServiceCount ==
    Cardinality(Typed({"define_service"}) \cap Succeeded
                \cap MaySay("matches", query.value))

FindServiceProviderCount ==
    Cardinality(Typed({"bind_service"}) \cap Succeeded \cap NamedAs(query.value))

FindServiceTxCount ==
    Cardinality(TypedOr(ServiceTypes) \cap InStatus \cap NamedAs(query.value))

(* Mutant: the condition the source has commented out. *)
CountSuccessfulResponds ==
    Cardinality(QueryServiceRespondTx \cap Succeeded)

FindRespondServiceCount ==
    Cardinality({x \in Typed({"respond_service"}) :
        /\ query.value # None => x \in NamedAs(query.value)
        /\ query.other # None => <<"provider", query.other>> \in body[x].says})

-----------------------------------------------------------------------------
TxLists == {"txs", "staking", "coinswap", "declaration", "gov", "blocks", "addresses",
            "relevance", "nfts", "identity", "asset", "call-service",
            "respond-service", "services", "providers", "service tx", "respond",
            "depositors", "deposits"}

TxsOf ==
    CASE txList = "txs" -> QueryTxList
      [] txList = "staking" -> QueryStakingTxList
      [] txList = "coinswap" -> QueryCoinswapTxList
      [] txList = "declaration" -> QueryDeclarationTxList
      [] txList = "gov" -> QueryGovTxList
      [] txList = "blocks" -> QueryTxWithHeight
      [] txList = "addresses" -> QueryTxWithAddress
      [] txList = "relevance" -> QueryTxWithContextId
      [] txList = "nfts" -> QueryTxWithNft
      [] txList = "identity" -> QueryTxListByIdentity
      [] txList = "asset" -> QueryTxWithAsset
      [] txList = "call-service" -> QueryCallServiceWithConsumerAddr
      [] txList = "respond-service" -> QueryBindServiceWithProviderAddr
      [] txList = "services" -> FindServiceAllList
      [] txList = "providers" -> FindBindServiceTxList
      [] txList = "service tx" -> FindServiceTx
      [] txList = "respond" -> QueryServiceRespondTx
      [] txList = "depositors" -> QueryDepositorById
      [] txList = "deposits" -> QueryDepositsByAddress

TxCount ==
    CASE txList = "services" -> FindAllServiceCount
      [] txList = "providers" -> FindServiceProviderCount
      [] txList = "service tx" -> FindServiceTxCount
      [] txList = "respond" -> FindRespondServiceCount
      [] OTHER -> Cardinality(TxsOf)

(* By time or height, the newest first; bound services before the others. *)
KeyOf(x) ==
    IF txList = "services" /\ x \in bound THEN TopHeight + height[x] ELSE height[x]

TxReader == INSTANCE Paging WITH
    Items <- Txs, PerPage <- TxsPerPage, walk <- txWalk,
    shown <- [x \in TxsOf |-> KeyOf(x)], counted <- TxCount

(* The request and the transactions that will come are any. *)
TxsStart ==
    /\ txList \in TxLists
    /\ height = [x \in Txs |-> 0]
    /\ named = {} /\ bound = {}
    /\ supported \in TypeLists
    /\ txWalk = TxReader!NotReading

-----------------------------------------------------------------------------
TxsTypeOK ==
    /\ txList \in TxLists
    /\ height \in [Txs -> 0..TopHeight]
    /\ named \subseteq Stored /\ bound \subseteq Stored
    /\ supported \in TypeLists
    /\ txWalk \in TxReader!Walks

(* The next block. *)
StoreTxs(S) ==
    LET top == Max({height[x] : x \in Txs}) IN
    /\ S # {} /\ S \cap Stored = {} /\ top < TopHeight
    /\ height' = [x \in Txs |-> IF x \in S THEN top + 1 ELSE height[x]]
    /\ UNCHANGED <<txList, query, body, named, bound, supported>>
    /\ TxReader!ListChanges

(* TxTaskService adds the name of the service, or marks its definition;    *)
(* followed for the lists that tell.                                       *)
ByNames == {"relevance", "providers", "service tx", "respond"}
AddName(x) ==
    /\ txList \in ByNames
    /\ x \in Typed(ServiceTypes) \ named
    /\ named' = named \cup {x}
    /\ UNCHANGED <<txList, query, body, height, bound, supported>>
    /\ TxReader!ListChanges

AddBind(x) ==
    /\ txList = "services"
    /\ x \in Typed({"define_service"}) \ bound
    /\ bound' = bound \cup {x}
    /\ UNCHANGED <<txList, query, body, height, named, supported>>
    /\ TxReader!ListChanges

(* Lists that are filtered by the supported types read these before the    *)
(* page; so do all requests that are served meanwhile (TypeCache).         *)
ByTypes == {"txs", "blocks", "addresses", "relevance"}
CacheTypes ==
    /\ txList \in ByTypes
    /\ \E T \in TypeLists \ {supported} : supported' = T
    /\ UNCHANGED <<txList, query, body, height, named, bound>>
    /\ TxReader!ListChanges

TxsNext ==
    \/ \E S \in SUBSET Txs : StoreTxs(S)
    \/ \E x \in Txs : AddName(x) \/ AddBind(x)
    \/ CacheTypes
    \/ TxReader!ReaderStep
       /\ UNCHANGED <<txList, query, body, height, named, bound, supported>>

TxsSpec == TxsStart /\ [][TxsNext]_txVars

(* A reader of any list of transactions misses only those of a block with  *)
(* several of them, and services that were bound while it read.            *)
TxsAreNotMissed == TxReader!ReaderMissesNothing

(* Lists of transactions and their counts select alike. *)
TxCountsMatch == TxReader!CountMatchesPage
=============================================================================
