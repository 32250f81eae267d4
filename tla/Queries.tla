------------------------------- MODULE Queries -------------------------------
(***************************************************************************)
(* The web layer: requests that are answered by several reads while the    *)
(* collections and the chain change.  They write nothing but the cache of  *)
(* types, so a behaviour of one kind of request is a behaviour of all:     *)
(* part names the one that is followed, the others stay as they are.       *)
(***************************************************************************)
EXTENDS TxQueries, MirrorQueries, EdgeFeed, TypeCache, VotersPage, BlockPower,
        Statistics, ServicesPage, RichList

VARIABLE part

queryVars == <<part, txVars, docVars, edgeVars, typeVars, voterVars, sets, statVars,
               svcVars, richVars>>

Parts == {"txs", "docs", "edge", "types", "voters", "sets", "stats", "services", "rich"}

QueriesInit ==
    /\ part \in Parts
    /\ TxsStart /\ DocsStart /\ EdgeInit /\ TypesInit /\ VotersInit /\ SetsInit
    /\ StatsInit /\ SvcInit /\ RichInit

TxPart == part = "txs" /\ TxsNext
    /\ UNCHANGED <<part, docVars, edgeVars, typeVars, voterVars, sets, statVars, svcVars, richVars>>
DocPart == part = "docs" /\ DocsNext
    /\ UNCHANGED <<part, txVars, edgeVars, typeVars, voterVars, sets, statVars, svcVars, richVars>>
EdgePart == part = "edge" /\ EdgeNext
    /\ UNCHANGED <<part, txVars, docVars, typeVars, voterVars, sets, statVars, svcVars, richVars>>
TypePart == part = "types" /\ TypesNext
    /\ UNCHANGED <<part, txVars, docVars, edgeVars, voterVars, sets, statVars, svcVars, richVars>>
VoterPart == part = "voters" /\ VotersNext
    /\ UNCHANGED <<part, txVars, docVars, edgeVars, typeVars, sets, statVars, svcVars, richVars>>
SetPart == part = "sets" /\ SetsNext
    /\ UNCHANGED <<part, txVars, docVars, edgeVars, typeVars, voterVars, statVars, svcVars, richVars>>
StatPart == part = "stats" /\ StatsNext
    /\ UNCHANGED <<part, txVars, docVars, edgeVars, typeVars, voterVars, sets, svcVars, richVars>>
SvcPart == part = "services" /\ SvcNext
    /\ UNCHANGED <<part, txVars, docVars, edgeVars, typeVars, voterVars, sets, statVars, richVars>>
RichPart == part = "rich" /\ RichNext
    /\ UNCHANGED <<part, txVars, docVars, edgeVars, typeVars, voterVars, sets, statVars, svcVars>>

QueriesNext == TxPart \/ DocPart \/ EdgePart \/ TypePart \/ VoterPart \/ SetPart \/ StatPart
               \/ SvcPart \/ RichPart

QueriesSpec == QueriesInit /\ [][QueriesNext]_queryVars

QueriesTypeOK ==
    /\ TxsTypeOK /\ DocsTypeOK /\ EdgeTypeOK /\ TypesTypeOK /\ VotersTypeOK
    /\ SetsTypeOK /\ StatsTypeOK /\ SvcTypeOK /\ RichTypeOK

(* Who turns the pages of any list misses only what moved, was passed by   *)
(* something that went, or shares its place in the order.                  *)
PagesMissNothing == TxsAreNotMissed /\ DocsAreNotMissed

(* The count that goes with a page is that of its list.                    *)
CountsMatch == TxCountsMatch /\ DocCountsMatch
=============================================================================
