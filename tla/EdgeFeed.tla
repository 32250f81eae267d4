------------------------------ MODULE EdgeFeed ------------------------------
(***************************************************************************)
(* txs/e: an edge server fetches the transactions in ascending height.  A  *)
(* full page ends somewhere inside a block: that block is read again, in a *)
(* command with a limit of its own, and put behind the page.  The server   *)
(* goes on above the last height of the answer, or with the next page.     *)
(***************************************************************************)
EXTENDS Integers, Sequences, FiniteSets, SequencesExt

CONSTANTS
    FedTxs,         \* transactions
    WithStatus,     \* those of the status that is asked for
    Wanted,         \* those of the types and addresses, too
    EdgePage,       \* pageSize of the edge server
    EdgeRest,       \* transactions of a block the second command returns
    TopEdgeHeight   \* height at which the chain stops (bound)

ASSUME EdgeSettings == Wanted \subseteq WithStatus /\ WithStatus \subseteq FedTxs
                       /\ {EdgePage, EdgeRest} \subseteq Nat \ {0}
                       /\ IsFiniteSet(FedTxs) /\ TopEdgeHeight \in Nat

VARIABLES
    fedHeight,      \* height of each transaction, 0 before it is stored
    feed            \* the edge server and the request it has made

edgeVars == <<fedHeight, feed>>

(* by: how the server goes on.  above, page: of its request.  data: the    *)
(* page, then the answer.  got: all it has received, up to height upTo.    *)
Feeds == [at : {"ask", "page", "answer"}, by : {"height", "page"}, above : Nat,
          page : Nat, data : Seq(FedTxs), got : SUBSET FedTxs, upTo : Nat]

EdgeInit ==
    /\ fedHeight = [x \in FedTxs |-> 0]
    /\ \E b \in {"height", "page"} :
           feed = [at |-> "ask", by |-> b, above |-> 0, page |-> 1,
                   data |-> <<>>, got |-> {}, upTo |-> 0]

-----------------------------------------------------------------------------
Above(h) == {x \in Wanted : fedHeight[x] > h}

(* Transactions of a height come in any order. *)
Ascending(S) ==
    {s \in SetToSeqs(S) :
        \A i, j \in 1..Len(s) : i < j => fedHeight[s[i]] <= fedHeight[s[j]]}

QueryTxListEdge(h, page) ==
    {SubSeq(s, (page - 1) * EdgePage + 1, Min({page * EdgePage, Len(s)})) :
        s \in Ascending(Above(h))}

(* Mutant: the page is answered as it is. *)
ReadNothing(h) == {<<>>}

Block(h) == {x \in WithStatus : fedHeight[x] = h}

(* Whatever the types and the addresses of the request are: in no order,   *)
(* so any EdgeRest transactions of a block that has more.                  *)
QueryTxListByHeightEdge(h) ==
    {SetToSeq(B) : B \in kSubset(Min({EdgeRest, Cardinality(Block(h))}), Block(h))}

(* txList.forEach(...splice(index, 1)): behind a removed element the next  *)
(* one is passed over.                                                     *)
Splice(rest, i, h) ==
    IF i <= Len(rest) /\ fedHeight[rest[i]] = h THEN RemoveAt(rest, i) ELSE rest
SpliceHeight(list, h) ==
    LET rest[i \in 0..Len(list)] == IF i = 0 THEN list ELSE Splice(rest[i - 1], i, h)
    IN rest[Len(list)]

-----------------------------------------------------------------------------
(* The process that fills the collection stores the next block. *)
StoreFed(S) ==
    LET top == Max({fedHeight[x] : x \in FedTxs}) IN
    /\ S # {} /\ \A x \in S : fedHeight[x] = 0
    /\ top < TopEdgeHeight
    /\ fedHeight' = [x \in FedTxs |-> IF x \in S THEN top + 1 ELSE fedHeight[x]]
    /\ UNCHANGED feed

ReadPage ==
    /\ feed.at = "ask"
    /\ \E s \in QueryTxListEdge(feed.above, feed.page) :
           feed' = [feed EXCEPT !.data = s,
                                !.at = IF Len(s) = EdgePage THEN "page" ELSE "answer"]
    /\ UNCHANGED fedHeight

ReadLastHeight ==
    /\ feed.at = "page"
    /\ LET h == fedHeight[Last(feed.data)] IN
       \E again \in QueryTxListByHeightEdge(h) :
           feed' = [feed EXCEPT !.data = SpliceHeight(@, h) \o again, !.at = "answer"]
    /\ UNCHANGED fedHeight

(* The server takes the answer.  One that counts pages repeats the last    *)
(* page until it is full.                                                  *)
TakeAnswer ==
    /\ feed.at = "answer"
    /\ LET h == Max({fedHeight[x] : x \in ToSet(feed.data)} \cup {feed.upTo})
           full == Len(feed.data) >= EdgePage
       IN feed' = [feed EXCEPT
              !.at = "ask", !.got = @ \cup ToSet(feed.data), !.upTo = h,
              !.data = <<>>,
              !.above = IF feed.by = "height" THEN h ELSE @,
              !.page = IF feed.by = "page" /\ full THEN @ + 1 ELSE @]
    /\ UNCHANGED fedHeight

EdgeNext ==
    \/ \E S \in SUBSET FedTxs : StoreFed(S)
    \/ ReadPage \/ ReadLastHeight \/ TakeAnswer

EdgeSpec == EdgeInit /\ [][EdgeNext]_edgeVars

-----------------------------------------------------------------------------
EdgeTypeOK ==
    /\ fedHeight \in [FedTxs -> 0..TopEdgeHeight]
    /\ feed \in Feeds

(* Of blocks with more transactions than the second command returns. *)
Crowded == {x \in Wanted : Cardinality(Block(fedHeight[x])) > EdgeRest}

(* The edge server has been sent every wanted transaction up to the height *)
(* it has reached, however its pages cut the blocks, except of blocks too  *)
(* large for the second command: of the one that ended a page it may lose  *)
(* some for good.  And one answer gives a transaction twice only if it is  *)
(* of the last height of its page.                                         *)
EdgeMissesNothing ==
    /\ \A x \in Wanted \ Crowded : fedHeight[x] \in 1..feed.upTo => x \in feed.got
    /\ feed.at = "answer" => \A i, j \in 1..Len(feed.data) :
           i # j /\ feed.data[i] = feed.data[j]
               => fedHeight[feed.data[i]] = fedHeight[Last(feed.data)]
=============================================================================
