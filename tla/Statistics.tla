----------------------------- MODULE Statistics -----------------------------
(***************************************************************************)
(* The statistics: a request names codes, the indicators of the codes the  *)
(* endpoint knows are read at the same time, and the results are given     *)
(* back by the position of the code in the request.  One indicator is the  *)
(* average time of the last hundred blocks, read in two commands while     *)
(* blocks arrive.                                                          *)
(***************************************************************************)
EXTENDS Integers, Sequences, FiniteSets, SequencesExt

CONSTANTS
    CodesOf,        \* endpoint -> the codes it has a case for
    OtherCodes,     \* what else a request may name
    Window,         \* blocks that are averaged, 100
    TopBlock,       \* height at which the chain stops (bound)
    MaxNamed        \* codes in a request (bound)

ASSUME StatisticsSettings ==
    /\ Window \in Nat \ {0} /\ TopBlock \in Nat /\ Window <= TopBlock
    /\ "network" \in DOMAIN CodesOf => "200" \in CodesOf["network"]
    /\ MaxNamed \in Nat

VARIABLES
    newest,         \* height of the newest block in the database
    stats           \* the request

statVars == <<newest, stats>>

Endpoints == DOMAIN CodesOf
AllCodes == UNION {CodesOf[e] : e \in Endpoints} \cup OtherCodes

StatsInit ==
    /\ newest \in {0, 1, Window - 1, Window}
    /\ \E e \in Endpoints, n \in 1..MaxNamed : \E p \in [1..n -> AllCodes] :
           stats = [at |-> "asked", of |-> e, params |-> p, indicators |-> <<>>,
                    results |-> <<>>, latest |-> 0, oldest |-> 0]

-----------------------------------------------------------------------------
(* Mutant: a code without a case of its own. *)
HasCaseButOne(e, c) == c \in CodesOf[e] \ {"206", "209"}

HasCase(e, c) == c \in CodesOf[e]

(* params.unshift('200'): the number of transactions goes with the block. *)
WithBlock(e, p) ==
    IF e = "network" /\ Contains(p, "201") /\ ~Contains(p, "200") THEN <<"200">> \o p
    ELSE p

(* params.forEach(code => {switch (code) ...}) *)
IndicatorsOf(e, p) ==
    LET known[i \in 0..Len(p)] ==
            IF i = 0 THEN <<>>
            ELSE IF HasCase(e, p[i]) THEN Append(known[i - 1], p[i]) ELSE known[i - 1]
    IN known[Len(p)]

ChooseIndicators ==
    /\ stats.at = "asked"
    /\ LET p == WithBlock(stats.of, stats.params) IN
       stats' = [stats EXCEPT
           !.at = "reading", !.params = p, !.indicators = IndicatorsOf(stats.of, p)]
    /\ UNCHANGED newest

(* findOneByHeightDesc, then findNum100Height: the last of the newest      *)
(* hundred.                                                                *)
ReadLatest ==
    /\ stats.at = "reading" /\ Contains(stats.indicators, "203") /\ stats.latest = 0
    /\ stats' = [stats EXCEPT !.latest = newest, !.oldest = -1]
    /\ newest > 0
    /\ UNCHANGED newest

FindNum100Height ==
    /\ stats.at = "reading" /\ stats.oldest = -1
    /\ stats' = [stats EXCEPT !.oldest = IF newest > Window THEN newest - Window + 1 ELSE 1]
    /\ UNCHANGED newest

(* Fewer blocks than the window lie between the two; 0 is answered null.   *)
Divisor(latest, oldest) ==
    IF latest - oldest >= Window THEN Window ELSE latest - oldest

AverageIsReady == stats.oldest > 0 \/ newest = 0 \/ ~Contains(stats.indicators, "203")

(* Promise.all gives the results in the order of the indicators; each goes *)
(* to the name of the code at its place in the request.                    *)
AnswerStatistics ==
    /\ stats.at = "reading" /\ AverageIsReady
    /\ stats' = [stats EXCEPT
           !.at = "done",
           !.results = [i \in 1..Len(stats.params) |->
               IF i <= Len(stats.indicators) THEN stats.indicators[i] ELSE "undefined"]]
    /\ UNCHANGED newest

NextBlock ==
    /\ newest < TopBlock
    /\ newest' = newest + 1
    /\ UNCHANGED stats

StatsNext ==
    \/ ChooseIndicators \/ ReadLatest \/ FindNum100Height \/ AnswerStatistics
    \/ NextBlock

StatsSpec == StatsInit /\ [][StatsNext]_statVars

-----------------------------------------------------------------------------
StatsTypeOK ==
    /\ newest \in 0..TopBlock
    /\ stats.of \in Endpoints /\ stats.at \in {"asked", "reading", "done"}
    /\ ToSet(stats.params) \subseteq AllCodes

(* A request that names only codes of the endpoint gets each indicator     *)
(* under its own name; and the average time of blocks is that of the       *)
(* blocks which lie between the two it was read from, also if a block      *)
(* came in between and if there are fewer than a hundred.                  *)
StatisticsMatch ==
    /\ stats.at = "done" /\ ToSet(stats.params) \subseteq CodesOf[stats.of]
           => stats.results = stats.params
    /\ stats.oldest > 0
           => Divisor(stats.latest, stats.oldest) = stats.latest - stats.oldest
=============================================================================
