------------------------------ MODULE MCQueries ------------------------------
(***************************************************************************)
(* Requests of every kind on three transactions, documents, accounts and   *)
(* so on.  The part that is followed starts in every way that is of        *)
(* interest, each of the others in one way only.                           *)
(***************************************************************************)
EXTENDS Queries, TLC

CONSTANTS x1, x2, x3, v, w, e1, e2, e3, e4, y1, y2, y3, b1, b2, b3, b4, b5,
          p1, p2, s1, s2, q1, n1, n2, n3, n4, n5, n6, m1, m2, m3, m4

MCOrder == <<m1, m2, m3, m4>>
MCPower == (m1 :> 1) @@ (m2 :> 2) @@ (m3 :> 4) @@ (m4 :> 8)

(* b2 votes for two people, and b5 begins with a message that is no vote. *)
MCVoterOf == (b1 :> p1) @@ (b2 :> p1) @@ (b3 :> p2) @@ (b4 :> p2) @@ (b5 :> Nobody)
MCVotersIn == (b1 :> {p1}) @@ (b2 :> {p1, p2}) @@ (b3 :> {p2}) @@ (b4 :> {p2})
              @@ (b5 :> {Nobody, p1})
MCChoicesIn == (b1 :> {"yes"}) @@ (b2 :> {"yes", "no"}) @@ (b3 :> {"no"}) @@ (b4 :> {"no"})
               @@ (b5 :> {"yes"})

MCDoes == (n1 :> "define") @@ (n2 :> "define") @@ (n3 :> "bind") @@ (n4 :> "respond")
          @@ (n5 :> "respond") @@ (n6 :> "disable")
MCService == (n1 :> s1) @@ (n2 :> s2) @@ (n3 :> s1) @@ (n4 :> s1) @@ (n5 :> s2) @@ (n6 :> s1)
MCProvider == [n \in {n1, n2, n3, n4, n5, n6} |-> q1]

MCCodes == ("statistics" :> {"202", "203", "206"}) @@ ("network" :> {"200", "201", "209"})
MCClasses == <<1, 1>>

(* A type for each list, and what a transaction that belongs there says. *)
TypeFor ==
    CASE txList \in {"txs", "blocks", "addresses", "asset"} -> "send"
      [] txList = "staking" -> "delegate"
      [] txList = "coinswap" -> "swap_order"
      [] txList = "declaration" -> "unjail"
      [] txList \in {"gov", "deposits", "depositors"} -> "deposit"
      [] txList = "nfts" -> "mint_nft"
      [] txList = "identity" -> "create_identity"
      [] txList \in {"call-service", "service tx"} -> "call_service"
      [] txList \in {"respond-service", "providers"} -> "bind_service"
      [] txList = "services" -> "define_service"
      [] txList \in {"respond", "relevance"} -> "respond_service"
Fields == {"addrs", "event", "request_context_id", "context", "denom", "id", "symbol",
           "consumer", "provider", "matches", "service", "proposal_id", "depositor"}
Belongs(t) == [types |-> {t}, ok |-> TRUE, says |-> Fields \X {v}]
TxsInit ==
    /\ query \in {[NoQuery EXCEPT !.value = v, !.other = v], NoQuery,
                  [NoQuery EXCEPT !.types = {TypeFor}, !.status = Ok, !.from = 1, !.to = 2]}
    /\ \E two, three \in {"same", "failed", "other", "silent"} :
           LET Like(k) == CASE k = "same" -> Belongs(TypeFor)
                            [] k = "failed" -> [Belongs(TypeFor) EXCEPT !.ok = FALSE]
                            [] k = "other" -> Belongs("other")
                            [] k = "silent" -> [Belongs(TypeFor) EXCEPT !.says = {}]
           IN /\ <<two, three>> \in {<<"same", "other">>, <<"failed", "same">>,
                                      <<"same", "silent">>}
              /\ body = (x1 :> Like("same")) @@ (x2 :> Like(two)) @@ (x3 :> Like(three))
    /\ txList \notin ByTypes => supported = {}

DocFields == {"denom_id", "nft_name", "name", "owner", "identities_id", "status"}
Ordinary == (DocFields \X {v}) \cup {<<"bonded", TRUE>>, <<"native", TRUE>>}
DocsInit ==
    /\ asked \in {[value |-> v, other |-> NoValue], [value |-> NoValue, other |-> v],
                  [value |-> "active", other |-> NoValue], [value |-> "jailed", other |-> w]}
    /\ \E F \in {Ordinary, {}, {<<"owner", v>>, <<"denom_id", v>>},
                 Ordinary \cup {<<"jailed", TRUE>>, <<"is_main_token", TRUE>>}} :
           facts = (y1 :> Ordinary) @@ (y2 :> Ordinary) @@ (y3 :> F)
    /\ \E k \in {0, 3} : rank = (y1 :> 1) @@ (y2 :> 2) @@ (y3 :> k)

(* QueriesInit, restricted. *)
Init ==
    /\ part \in Parts
    /\ TxsStart /\ TxsInit
       /\ (part = "txs" \/ (/\ txList = "txs" /\ query = NoQuery /\ supported = {}
                            /\ body[x2].ok /\ body[x3].types = {"other"}))
    /\ DocsInit /\ DocsStart
       /\ (part = "docs" \/ (/\ docList = "blocks" /\ rank[y3] = 0
                             /\ facts[y3] = {} /\ asked.value = NoValue))
    /\ EdgeInit /\ (part = "edge" \/ feed.by = "page")
    /\ TypesInit /\ (part = "types" \/ \A c \in Calls : calls[c].at = "sent" <=> c = e1)
    /\ VotersInit /\ (part = "voters" \/ (/\ validating = {} /\ voters.type = "all"
                                          /\ voters.useCount))
    /\ SetsInit /\ (part = "sets" \/ (sets.what = "power" /\ sets.from = 0 /\ sets.size = 1))
    /\ StatsInit /\ (part = "stats" \/ (newest = 0 /\ stats.params = <<"202">>
                                        /\ stats.of = "statistics"))
    /\ SvcInit /\ (part = "services" \/ (svcPage.of = "services" /\ svcPage.service = s1))
    /\ RichInit /\ (part = "rich" \/ (totalOf = [a \in Holders |-> 0] /\ ~sentinel))

Spec == Init /\ [][QueriesNext]_queryVars
=============================================================================
