--------------------------- MODULE WebPages_proofs ---------------------------
(***************************************************************************)
(* Theorems about the web layer (Queries): the pages of services and of    *)
(* votes, the cache of types, the statistics, the power of a block, the    *)
(* rich list, the feed of the edge server and the lists, each for any      *)
(* setting of its constants, and of all of them together; and about the    *)
(* staking validators (StakingSync), whose pages they are read from.       *)
(***************************************************************************)
EXTENDS Queries, StakingSync, SetFacts, SequenceTheorems, TLAPS

(***************************************************************************)
(* ServicesPage.                                                           *)
(***************************************************************************)
Fields == {"at", "of", "service", "provider", "todo", "pairs", "times", "unbound", "atFirst",
           "offFirst"}

SvcShape ==
    /\ svcState \in [ServiceTxs -> {"absent", "stored", "named"}]
    /\ markedBound \subseteq Services
    /\ svcPage.pairs \subseteq Pairs /\ svcPage.todo \subseteq Services
    /\ svcPage.service \in Services
    /\ DOMAIN svcPage = Fields

(* A pair on the page has a binding that succeeded, and its service was    *)
(* marked if services were asked for; what remains to be looked up is      *)
(* marked too.                                                             *)
PairsAreBound ==
    /\ \A sp \in svcPage.pairs :
           /\ \E x \in Does("bind") \cap okServiceTxs : Pair(x) = sp
           /\ svcPage.of = "services" => sp[1] \in markedBound
    /\ svcPage.of = "services" => svcPage.todo \subseteq markedBound

CountsLieBetween ==
    /\ DOMAIN svcPage.times \subseteq svcPage.pairs
    /\ svcPage.at # "idle" => \A sp \in Pairs :
           svcPage.atFirst[sp] \in Nat /\ svcPage.atFirst[sp] <= Responses(sp)
    /\ \A sp \in DOMAIN svcPage.times :
           /\ svcPage.times[sp] \in Nat /\ svcPage.at # "idle"
           /\ svcPage.times[sp] >= svcPage.atFirst[sp]
           /\ svcPage.times[sp] <= Responses(sp)

(* Unbinding times are of disabled pairs, and a disabled one has it once   *)
(* it is counted.                                                          *)
DisabledFit ==
    /\ svcPage.unbound \subseteq Disabled
    /\ svcPage.at # "idle" => svcPage.offFirst \subseteq Disabled
    /\ svcPage.of = "bindings" => \A sp \in DOMAIN svcPage.times :
           sp \in svcPage.offFirst => sp \in svcPage.unbound

SvcInv == SvcShape /\ PairsAreBound /\ CountsLieBetween /\ DisabledFit

LEMMA ResponsesType == \A sp : Responses(sp) \in Nat /\ Responses(sp)' \in Nat
<1> SUFFICES ASSUME NEW sp
             PROVE  Responses(sp) \in Nat /\ Responses(sp)' \in Nat
  OBVIOUS
<1> DEFINE S == {x \in NamedTxs : doesOf[x] = "respond" /\ Pair(x) = sp}
           T == {x \in NamedTxs' : doesOf[x] = "respond" /\ Pair(x) = sp}
<1>1. S \in SUBSET ServiceTxs /\ T \in SUBSET ServiceTxs
  BY DEF NamedTxs
<1>2. IsFiniteSet(S) /\ IsFiniteSet(T)
  BY <1>1, ServicePageSettings, FS_Subset
<1>3. Cardinality(S) \in Nat /\ Cardinality(T) \in Nat
  BY <1>2, FS_CardinalityType
<1>4. QED
  BY <1>3 DEF Responses, Pair

(* Transactions are never forgotten and keep their names: no count falls.  *)
LEMMA ResponsesGrow ==
    ASSUME \A x \in ServiceTxs : svcState[x] = "named" => svcState'[x] = "named",
           NEW sp
    PROVE  Responses(sp) <= Responses(sp)'
<1> DEFINE S == {x \in NamedTxs : doesOf[x] = "respond" /\ Pair(x) = sp}
           T == {x \in NamedTxs' : doesOf[x] = "respond" /\ Pair(x) = sp}
<1>1. S \in SUBSET T /\ T \in SUBSET ServiceTxs
  BY DEF NamedTxs
<1>2. IsFiniteSet(T)
  BY <1>1, ServicePageSettings, FS_Subset
<1>3. Cardinality(S) <= Cardinality(T)
  BY <1>1, <1>2, FS_Subset
<1>4. Responses(sp) = Cardinality(S)
  BY DEF Responses
<1>5. Responses(sp)' = Cardinality(T)
  BY DEF Responses, Pair
<1>6. QED
  BY <1>3, <1>4, <1>5

LEMMA CountIsResponses ==
    ASSUME SvcShape, NEW s, NEW p
    PROVE  FindProviderRespondTimesForService(s, p) = Responses(<<s, p>>)
<1>1. {x \in Does("respond") \cap NamedTxs : Pair(x) = <<s, p>>}
        = {x \in NamedTxs : doesOf[x] = "respond" /\ Pair(x) = <<s, p>>}
  BY DEF Does, NamedTxs
<1>2. QED
  BY <1>1 DEF FindProviderRespondTimesForService, Responses

LEMMA BindingsOfService ==
    ASSUME NEW s \in Services
    PROVE  /\ FindBindService(s) \subseteq Pairs
           /\ \A sp \in FindBindService(s) :
                  /\ sp[1] = s
                  /\ \E x \in Does("bind") \cap okServiceTxs : Pair(x) = sp
BY ServicePageSettings DEF FindBindService, Pairs, Pair, Does, NamedTxs

LEMMA BindingsOfProvider ==
    ASSUME NEW p
    PROVE  /\ QueryBindServiceWithProvider(p) \subseteq Pairs
           /\ \A sp \in QueryBindServiceWithProvider(p) :
                  \E x \in Does("bind") \cap okServiceTxs : Pair(x) = sp
BY ServicePageSettings DEF QueryBindServiceWithProvider, Pairs, Pair, Does

LEMMA SvcInitInv == SvcInit => SvcInv
<1> SUFFICES ASSUME SvcInit
             PROVE  SvcInv
  OBVIOUS
<1>1. /\ svcPage.pairs = {} /\ svcPage.todo = {} /\ svcPage.service \in Services
      /\ svcPage.at = "idle" /\ svcPage.times = <<>> /\ svcPage.unbound = {}
      /\ DOMAIN svcPage = Fields
  BY DEF SvcInit, Fields
<1>2. DOMAIN svcPage.times = {}
  BY <1>1
<1>3. QED
  BY <1>1, <1>2
     DEF SvcInit, SvcInv, SvcShape, PairsAreBound, CountsLieBetween, DisabledFit

(* What is stored, named and marked meanwhile. *)
LEMMA DatabaseStep ==
    ASSUME SvcInv, svcPage' = svcPage,
           svcState' \in [ServiceTxs -> {"absent", "stored", "named"}],
           \A x \in ServiceTxs : svcState[x] # "absent" => svcState'[x] # "absent",
           \A x \in ServiceTxs : svcState[x] = "named" => svcState'[x] = "named",
           markedBound \subseteq markedBound', markedBound' \subseteq Services
    PROVE  SvcInv'
<1>1. SvcShape'
  BY DEF SvcInv, SvcShape, Pairs
<1>2. Does("bind") \subseteq Does("bind")'
  BY DEF Does
<1>3. PairsAreBound'
  BY <1>2 DEF SvcInv, PairsAreBound, Pair
<1>4. \A sp : /\ Responses(sp) \in Nat /\ Responses(sp)' \in Nat
              /\ Responses(sp) <= Responses(sp)'
  BY ResponsesGrow, ResponsesType
<1>5. CountsLieBetween'
  BY <1>4 DEF SvcInv, CountsLieBetween, Pairs, SvcShape
<1>6. DisabledFit'
  <2>1. Disabled \subseteq Disabled'
    BY DEF Disabled, QuerydisableServiceBinding, Does, NamedTxs, Pair, Pairs
  <2>2. QED
    BY <2>1 DEF SvcInv, DisabledFit
<1>7. QED
  BY <1>1, <1>3, <1>5, <1>6 DEF SvcInv

(* A request only reads. *)
LEMMA ReadsOnly ==
    ASSUME svcState' = svcState
    PROVE  /\ \A d : Does(d)' = Does(d)
           /\ Disabled' = Disabled
           /\ \A sp : Responses(sp)' = Responses(sp) /\ Responses(sp) \in Nat
BY ResponsesType DEF Does, Responses, NamedTxs, Pair, Pairs, Disabled,
   QuerydisableServiceBinding

LEMMA SvcStepInv == SvcInv /\ [SvcNext]_svcVars => SvcInv'
<1> SUFFICES ASSUME SvcInv, [SvcNext]_svcVars
             PROVE  SvcInv'
  OBVIOUS
<1>1. ASSUME NEW x \in ServiceTxs, StoreServiceTx(x) \/ NameServiceTx(x)
      PROVE  SvcInv'
  <2>1. /\ svcPage' = svcPage /\ markedBound' = markedBound
        /\ svcState' \in [ServiceTxs -> {"absent", "stored", "named"}]
        /\ \A y \in ServiceTxs : /\ svcState[y] # "absent" => svcState'[y] # "absent"
                                 /\ svcState[y] = "named" => svcState'[y] = "named"
    BY <1>1 DEF StoreServiceTx, NameServiceTx, SvcInv, SvcShape
  <2>2. QED
    BY <2>1, DatabaseStep DEF SvcInv, SvcShape
<1>2. ASSUME NEW s \in Services, MarkBound(s)
      PROVE  SvcInv'
  BY <1>2, DatabaseStep DEF MarkBound, SvcInv, SvcShape
<1>3. ASSUME NEW s \in Services, ListProviders(s)
      PROVE  SvcInv'
  <2>1. /\ svcState' = svcState /\ markedBound' = markedBound
        /\ DOMAIN svcPage' = Fields
        /\ svcPage'.todo = svcPage.todo \ {s}
        /\ svcPage'.pairs = svcPage.pairs \cup FindBindService(s)
        /\ svcPage'.at = svcPage.at /\ svcPage'.of = svcPage.of
        /\ svcPage'.times = svcPage.times /\ svcPage'.atFirst = svcPage.atFirst
        /\ svcPage'.service = svcPage.service /\ s \in svcPage.todo
        /\ svcPage'.unbound = svcPage.unbound /\ svcPage'.offFirst = svcPage.offFirst
    BY <1>3 DEF ListProviders, SvcInv, SvcShape, Fields
  <2>2. SvcShape' /\ PairsAreBound'
    BY <2>1, BindingsOfService DEF SvcInv, SvcShape, PairsAreBound, Does, Pairs, Pair
  <2>3. CountsLieBetween'
    BY <2>1, ReadsOnly DEF SvcInv, CountsLieBetween, Pairs
  <2>4. DisabledFit'
    BY <2>1, ReadsOnly DEF SvcInv, DisabledFit
  <2>5. QED
    BY <2>2, <2>3, <2>4 DEF SvcInv
<1>4. ASSUME NEW sp \in Pairs, CountResponds(sp)
      PROVE  SvcInv'
  <2>1. /\ svcState' = svcState /\ markedBound' = markedBound
        /\ DOMAIN svcPage' = Fields
        /\ svcPage'.times = [q \in DOMAIN svcPage.times \cup {sp} |->
               IF q = sp THEN FindProviderRespondTimesForService(sp[1], sp[2])
               ELSE svcPage.times[q]]
        /\ svcPage'.todo = svcPage.todo /\ svcPage'.pairs = svcPage.pairs
        /\ svcPage'.at = svcPage.at /\ svcPage'.of = svcPage.of
        /\ svcPage'.atFirst = svcPage.atFirst /\ svcPage'.service = svcPage.service
        /\ sp \in svcPage.pairs /\ svcPage.at = "reading"
        /\ svcPage'.offFirst = svcPage.offFirst
        /\ svcPage'.unbound = IF svcPage.of = "bindings" /\ sp \in Disabled
                              THEN svcPage.unbound \cup {sp} ELSE svcPage.unbound
    BY <1>4 DEF CountResponds, SvcInv, SvcShape, Fields
  <2>2. FindProviderRespondTimesForService(sp[1], sp[2]) = Responses(sp)
    <3>1. sp = <<sp[1], sp[2]>>
      BY DEF Pairs
    <3>2. QED
      BY <3>1, CountIsResponses DEF SvcInv
  <2>3. SvcShape' /\ PairsAreBound'
    BY <2>1 DEF SvcInv, SvcShape, PairsAreBound, Does, Pairs
  <2>4. \A q : Responses(q)' = Responses(q) /\ Responses(q) \in Nat
    BY <2>1, ReadsOnly
  <2>5. CountsLieBetween'
    BY <2>1, <2>2, <2>4 DEF SvcInv, CountsLieBetween, Pairs
  <2>6. DisabledFit'
    BY <2>1, ReadsOnly DEF SvcInv, DisabledFit
  <2>7. QED
    BY <2>3, <2>5, <2>6 DEF SvcInv
<1>5. CASE ListServices
  <2>1. /\ svcState' = svcState /\ markedBound' = markedBound
        /\ DOMAIN svcPage' = Fields
        /\ svcPage'.atFirst = [sp \in Pairs |-> Responses(sp)]
        /\ svcPage'.at = "reading" /\ svcPage'.of = svcPage.of
        /\ svcPage'.times = svcPage.times /\ svcPage'.service = svcPage.service
        /\ svcPage.at = "idle"
        /\ svcPage'.unbound = svcPage.unbound /\ svcPage'.offFirst = Disabled
    BY <1>5 DEF ListServices, SvcInv, SvcShape, Fields
  <2>2. /\ svcPage'.todo = IF svcPage.of = "services" THEN FindServiceAll \cap markedBound ELSE {}
        /\ \/ svcPage.of = "services" /\ svcPage'.pairs = {}
           \/ svcPage.of # "services" /\ svcPage'.pairs = FindBindService(svcPage.service)
           \/ /\ svcPage.of # "services"
              /\ svcPage'.pairs = QueryBindServiceWithProvider(svcPage.provider)
    BY <1>5 DEF ListServices, SvcInv, SvcShape, Fields
  <2>3. SvcShape' /\ PairsAreBound'
    BY <2>1, <2>2, BindingsOfService, BindingsOfProvider
       DEF SvcInv, SvcShape, PairsAreBound, Does, Pairs
  <2>4. DOMAIN svcPage.times = {}
    BY <2>1 DEF SvcInv, CountsLieBetween
  <2>5. \A q : Responses(q)' = Responses(q) /\ Responses(q) \in Nat
    BY <2>1, ReadsOnly
  <2>6. CountsLieBetween'
    BY <2>1, <2>4, <2>5 DEF CountsLieBetween, Pairs
  <2>7. DisabledFit'
    BY <2>1, <2>4, ReadsOnly DEF SvcInv, DisabledFit
  <2>8. QED
    BY <2>3, <2>6, <2>7 DEF SvcInv
<1>6. CASE AnswerServices
  <2>1. /\ svcState' = svcState /\ markedBound' = markedBound
        /\ DOMAIN svcPage' = Fields
        /\ svcPage'.todo = svcPage.todo /\ svcPage'.pairs = svcPage.pairs
        /\ svcPage'.at = "done" /\ svcPage'.of = svcPage.of /\ svcPage.at = "reading"
        /\ svcPage'.times = svcPage.times /\ svcPage'.atFirst = svcPage.atFirst
        /\ svcPage'.service = svcPage.service
        /\ svcPage'.unbound = svcPage.unbound /\ svcPage'.offFirst = svcPage.offFirst
    BY <1>6 DEF AnswerServices, SvcInv, SvcShape, Fields
  <2>2. SvcShape' /\ PairsAreBound'
    BY <2>1 DEF SvcInv, SvcShape, PairsAreBound, Does, Pairs, Pair
  <2>3. CountsLieBetween'
    BY <2>1, ReadsOnly DEF SvcInv, CountsLieBetween, Pairs
  <2>4. DisabledFit'
    BY <2>1, ReadsOnly DEF SvcInv, DisabledFit
  <2>5. QED
    BY <2>2, <2>3, <2>4 DEF SvcInv
<1>7. CASE UNCHANGED svcVars
  <2>1. /\ svcPage' = svcPage /\ markedBound' = markedBound /\ svcState' = svcState
    BY <1>7 DEF svcVars
  <2>2. QED
    BY <2>1, DatabaseStep DEF SvcInv, SvcShape
<1>8. QED
  BY <1>1, <1>2, <1>3, <1>4, <1>5, <1>6, <1>7 DEF SvcNext

(* The number of responses on a page is between the number when the        *)
(* request came and the present one, every pair on it is of a binding that *)
(* succeeded, and it has an unbinding time if it was disabled when the     *)
(* request came, and only if it is by now.                                 *)
THEOREM TimesFit == SvcSpec => []RespondTimesFit
<1>1. SvcInv => RespondTimesFit
  BY DEF SvcInv, PairsAreBound, CountsLieBetween, DisabledFit, RespondTimesFit
<1>2. QED
  BY <1>1, SvcInitInv, SvcStepInv, PTL DEF SvcSpec

(***************************************************************************)
(* VotersPage.                                                             *)
(***************************************************************************)
VoterFields == {"at", "type", "useCount", "hashes", "known", "byOption", "all",
                "validator", "delegator", "listed", "then"}

By(H, P) == {x \in H : votersIn[x] \cap P # {}}

(* H has one vote of each voter of T. *)
OneOfEach(H, T) ==
    /\ H \subseteq okBallots /\ H \subseteq T /\ T \subseteq Ballots
    /\ \A x \in T : \E y \in H : voterOf[y] = voterOf[x]
    /\ \A x, y \in H : voterOf[x] = voterOf[y] => x = y

(* What the page has read so far fits the votes picked at its beginning.   *)
PageFits ==
    /\ OneOfEach(voters.hashes, voters.then)
    /\ voters.at \in {"options", "voters", "done"} =>
           voters.all = Cardinality(voters.hashes)
    /\ \A o \in DOMAIN voters.byOption :
           voters.byOption[o] = Cardinality({x \in voters.hashes : o \in choicesIn[x]})
    /\ voters.at \in {"voters", "done"} => DOMAIN voters.byOption = Options
    /\ voters.at = "votes" => voters.byOption = <<>>

KindsAddUp ==
    voters.at = "done" /\ voters.useCount =>
        /\ voters.validator \in Int
        /\ voters.validator + voters.delegator = voters.all
        /\ IF voters.type = "delegator"
           THEN voters.delegator = Cardinality(By(voters.hashes, OthersFirst))
           ELSE voters.validator = Cardinality(By(voters.hashes, voters.known))
        /\ voters.type = "validator" => Cardinality(voters.listed) = voters.validator
        /\ voters.type = "delegator" => Cardinality(voters.listed) = voters.delegator

VotersInv ==
    /\ DOMAIN voters = VoterFields
    /\ voters.type \in {"all", "validator", "delegator"} /\ voters.useCount \in BOOLEAN
    /\ voters.at \in {"votes", "validators", "options", "voters", "done", "failed"}
    /\ PageFits
    /\ KindsAddUp

LEMMA VotesAreFinite ==
    ASSUME NEW H \in SUBSET Ballots
    PROVE  IsFiniteSet(H) /\ Cardinality(H) \in Nat
<1>1. IsFiniteSet(H)
  BY BallotSettings, FS_Subset
<1>2. QED
  BY <1>1, FS_CardinalityType

(* As many votes as voters. *)
LEMMA VotersOfVotes ==
    ASSUME NEW H, NEW T, OneOfEach(H, T)
    PROVE  Cardinality(H) = Cardinality({voterOf[x] : x \in T})
<1> DEFINE P == {voterOf[x] : x \in T}
           f == [x \in H |-> voterOf[x]]
<1>1. IsFiniteSet(H)
  BY VotesAreFinite DEF OneOfEach
<1>2. f \in [H -> P] /\ \A p \in P : \E x \in H : f[x] = p
  BY DEF OneOfEach
<1>3. \A x, y \in H : f[x] = f[y] => x = y
  BY DEF OneOfEach
<1>4. f \in Bijection(H, P)
  BY <1>2, <1>3 DEF Bijection, Injection, Surjection, IsInjective
<1>5. QED
  BY <1>1, <1>4, FS_Bijection DEF ExistsBijection

(* The two kinds of votes, where every picked transaction has one voter.   *)
LEMMA KindsOfVotes ==
    ASSUME NEW H \in SUBSET Ballots, NEW K, \A x \in H : OneVoter(x)
    PROVE  LET V == {x \in H : voterOf[x] \in K}
               people == {voterOf[x] : x \in H} IN
           /\ By(H, K) = V
           /\ Cardinality(By(H, people \ K)) = Cardinality(H) - Cardinality(V)
           /\ Cardinality(H) \in Nat /\ Cardinality(V) \in Nat
<1> DEFINE people == {voterOf[x] : x \in H}
           V == {x \in H : voterOf[x] \in K}
           D == By(H, people \ K)
<1>1. \A x \in H : votersIn[x] = {voterOf[x]}
  BY DEF OneVoter
<1>2. By(H, K) = V
  BY <1>1 DEF By
<1>3. D = H \ V /\ V = H \cap V
  BY <1>1 DEF By
<1>4. IsFiniteSet(H) /\ IsFiniteSet(V) /\ Cardinality(H) \in Nat /\ Cardinality(V) \in Nat
  <2>1. V \in SUBSET Ballots
    OBVIOUS
  <2>2. QED
    BY <2>1, VotesAreFinite
<1>5. Cardinality(H \ V) = Cardinality(H) - Cardinality(H \cap V)
  BY <1>4, FS_Difference
<1>6. QED
  BY <1>2, <1>3, <1>4, <1>5

LEMMA VotersInitInv == VotersInit => VotersInv
<1> SUFFICES ASSUME VotersInit
             PROVE  VotersInv
  OBVIOUS
<1>1. /\ voters.hashes = {} /\ voters.then = {} /\ voters.at = "votes"
      /\ voters.byOption = <<>> /\ DOMAIN voters = VoterFields
      /\ voters.type \in {"all", "validator", "delegator"} /\ voters.useCount \in BOOLEAN
  BY DEF VotersInit, VoterFields
<1>2. DOMAIN voters.byOption = {}
  BY <1>1
<1>3. QED
  BY <1>1, <1>2 DEF VotersInv, PageFits, KindsAddUp, OneOfEach

LEMMA ReadVotesKeepsInv == VotersInv /\ ReadVotes => VotersInv'
<1> SUFFICES ASSUME VotersInv, ReadVotes
             PROVE  VotersInv'
  OBVIOUS
<1>1. PICK H \in LastOfEach :
          voters' = [voters EXCEPT !.hashes = H, !.then = QueryVoteByProposalIdAll,
                                   !.at = IF H = {} THEN "failed" ELSE "validators"]
  BY DEF ReadVotes
<1>2. OneOfEach(H, QueryVoteByProposalIdAll)
  <2>1. /\ H \subseteq QueryVoteByProposalIdAll
        /\ \A p \in {voterOf[x] : x \in QueryVoteByProposalIdAll} :
               \E x \in H : {y \in H : voterOf[y] = p} = {x}
    BY <1>1 DEF LastOfEach
  <2>2. \A x \in QueryVoteByProposalIdAll : \E y \in H : voterOf[y] = voterOf[x]
    BY <2>1
  <2>3. ASSUME NEW x \in H, NEW y \in H, voterOf[x] = voterOf[y]
        PROVE  x = y
    <3>1. PICK z \in H : {u \in H : voterOf[u] = voterOf[x]} = {z}
      BY <2>1
    <3>2. QED
      BY <2>3, <3>1
  <2>4. QED
    BY <2>1, <2>2, <2>3, BallotSettings DEF OneOfEach, QueryVoteByProposalIdAll
<1>3. /\ voters'.hashes = H /\ voters'.then = QueryVoteByProposalIdAll
      /\ voters'.at \in {"failed", "validators"} /\ DOMAIN voters' = VoterFields
      /\ voters'.type = voters.type /\ voters'.useCount = voters.useCount
      /\ voters'.byOption = voters.byOption /\ voters.at = "votes"
  BY <1>1 DEF VotersInv, VoterFields, ReadVotes
<1>4. DOMAIN voters.byOption = {}
  <2>1. voters.byOption = <<>>
    BY <1>3 DEF VotersInv, PageFits
  <2>2. QED
    BY <2>1
<1>5. QED
  BY <1>2, <1>3, <1>4 DEF VotersInv, PageFits, KindsAddUp

LEMMA CountVotesKeepsInv ==
    ASSUME VotersInv, NEW o \in Options, CountVotes(o)
    PROVE  VotersInv'
<1> DEFINE C == DOMAIN voters.byOption \cup {o}
<1>1. /\ voters'.hashes = voters.hashes /\ voters'.then = voters.then
      /\ DOMAIN voters' = VoterFields /\ voters.at = "options"
      /\ voters'.type = voters.type /\ voters'.useCount = voters.useCount
      /\ voters'.all = voters.all
      /\ voters'.at = IF C = Options THEN "voters" ELSE "options"
      /\ voters'.byOption = [c \in C |->
             IF c = o THEN QueryVoteByTxhashsAndOption(voters.hashes, o)
             ELSE voters.byOption[c]]
  BY DEF CountVotes, VotersInv, VoterFields
<1>2. QueryVoteByTxhashsAndOption(voters.hashes, o)
          = Cardinality({x \in voters.hashes : o \in choicesIn[x]})
  <2>1. voters.hashes \cap okBallots = voters.hashes
    BY DEF VotersInv, PageFits, OneOfEach
  <2>2. QED
    BY <2>1 DEF QueryVoteByTxhashsAndOption
<1>3. PageFits'
  BY <1>1, <1>2 DEF VotersInv, PageFits
<1>4. QED
  BY <1>1, <1>3 DEF VotersInv, KindsAddUp

LEMMA ReadVotersKeepsInv == VotersInv /\ ReadVoters => VotersInv'
<1> SUFFICES ASSUME VotersInv, ReadVoters
             PROVE  VotersInv'
  OBVIOUS
<1> DEFINE H == voters.hashes
           K == voters.known
           people == {voterOf[x] : x \in H}
           ofKind == IF voters.type = "delegator" THEN people \ K ELSE K
           chosen == QueryVoteByTxhashsAndAddress(H, ofKind)
           n == IF voters.useCount THEN Cardinality(chosen) ELSE NaN
           rest == IF voters.useCount THEN voters.all - n ELSE NaN
<1>1. /\ voters'.hashes = H /\ voters'.then = voters.then /\ voters'.known = K
      /\ DOMAIN voters' = VoterFields /\ voters.at = "voters" /\ voters'.at = "done"
      /\ voters'.type = voters.type /\ voters'.useCount = voters.useCount
      /\ voters'.all = voters.all /\ voters'.byOption = voters.byOption
      /\ voters'.validator = IF voters.type = "delegator" THEN rest ELSE n
      /\ voters'.delegator = IF voters.type = "delegator" THEN n ELSE rest
      /\ voters'.listed = IF voters.type = "all" THEN QueryVoteByTxhashs(H) ELSE chosen
  BY DEF ReadVoters, VotersInv, VoterFields
<1>2. chosen = By(H, ofKind)
  BY DEF VotersInv, PageFits, OneOfEach, QueryVoteByTxhashsAndAddress, By
<1>3. H \in SUBSET Ballots /\ voters.all = Cardinality(H)
  BY <1>1 DEF VotersInv, PageFits, OneOfEach
<1>4. By(H, ofKind) \in SUBSET Ballots
  BY <1>3 DEF By
<1>5. Cardinality(H) \in Nat /\ Cardinality(By(H, ofKind)) \in Nat
  BY <1>3, <1>4, VotesAreFinite
<1>6. OthersFirst' = people \ K
  BY <1>1 DEF OthersFirst
<1>7. PageFits'
  BY <1>1 DEF VotersInv, PageFits
<1>8. KindsAddUp'
  <2>1. CASE voters.type = "delegator"
    BY <1>1, <1>2, <1>3, <1>5, <1>6, <2>1 DEF KindsAddUp
  <2>2. CASE voters.type # "delegator"
    BY <1>1, <1>2, <1>3, <1>5, <2>2 DEF KindsAddUp
  <2>3. QED
    BY <2>1, <2>2
<1>9. QED
  BY <1>1, <1>7, <1>8 DEF VotersInv

LEMMA VotersStepInv == VotersInv /\ [VotersNext]_voterVars => VotersInv'
<1> SUFFICES ASSUME VotersInv, [VotersNext]_voterVars
             PROVE  VotersInv'
  OBVIOUS
<1>1. ASSUME voters' = voters
      PROVE  VotersInv'
  BY <1>1 DEF VotersInv, PageFits, KindsAddUp, OthersFirst
<1>2. CASE ReadValidators
  <2>1. /\ voters'.hashes = voters.hashes /\ voters'.then = voters.then
        /\ DOMAIN voters' = VoterFields /\ voters.at = "validators" /\ voters'.at = "options"
        /\ voters'.type = voters.type /\ voters'.useCount = voters.useCount
        /\ voters'.all = Cardinality(voters.hashes) /\ voters'.byOption = voters.byOption
    BY <1>2 DEF ReadValidators, VotersInv, VoterFields
  <2>2. QED
    BY <2>1 DEF VotersInv, PageFits, KindsAddUp
<1>3. QED
  BY <1>1, <1>2, ReadVotesKeepsInv, CountVotesKeepsInv, ReadVotersKeepsInv
     DEF VotersNext, CastVote, ValidatorsChange, voterVars

(* The numbers on the page of voters are of the moment its votes were      *)
(* picked, however votes go on and validators change while it is put       *)
(* together, and whatever messages a transaction has: validators and       *)
(* delegators add up to the voters, an option counts the picked            *)
(* transactions that vote for it, and with one voter each the number of    *)
(* validators is that of the picked votes of validators.                   *)
THEOREM NumbersAddUp == VotersSpec => []VotersAddUp
<1>1. VotersInv => VotersAddUp
  <2> SUFFICES ASSUME VotersInv, voters.at = "done"
               PROVE  VotersAddUp
    BY DEF VotersAddUp
  <2>1. voters.all = Cardinality({voterOf[x] : x \in voters.then})
    BY VotersOfVotes DEF VotersInv, PageFits
  <2>2. \A o \in Options : voters.byOption[o] =
            Cardinality({x \in voters.hashes : o \in choicesIn[x]})
    BY DEF VotersInv, PageFits
  <2>3. \A P : By(voters.hashes, P) = WithVoteOf(P)
    BY DEF By, WithVoteOf
  <2>4. voters.type \in {"all", "validator", "delegator"}
    BY DEF VotersInv
  <2>5. voters.all = Cardinality(voters.hashes) /\ voters.hashes \in SUBSET Ballots
    BY DEF VotersInv, PageFits, OneOfEach
  <2>6. ASSUME voters.useCount, \A x \in voters.hashes : OneVoter(x)
        PROVE  voters.validator =
                   Cardinality({x \in voters.hashes : voterOf[x] \in voters.known})
    <3> DEFINE n == Cardinality({x \in voters.hashes : voterOf[x] \in voters.known})
    <3>1. /\ By(voters.hashes, voters.known)
                 = {x \in voters.hashes : voterOf[x] \in voters.known}
          /\ Cardinality(By(voters.hashes, OthersFirst)) = voters.all - n
          /\ voters.all \in Nat /\ n \in Nat
      BY <2>5, <2>6, KindsOfVotes DEF OthersFirst
    <3>2. CASE voters.type # "delegator"
      BY <3>1, <3>2, <2>6 DEF VotersInv, KindsAddUp
    <3>3. CASE voters.type = "delegator"
      <4>1. /\ voters.validator + voters.delegator = voters.all
            /\ voters.delegator = voters.all - n
        BY <3>1, <3>3, <2>6 DEF VotersInv, KindsAddUp
      <4>2. voters.validator \in Int
        BY <2>6 DEF VotersInv, KindsAddUp
      <4>3. QED
        BY <3>1, <4>1, <4>2
    <3>4. QED
      BY <3>2, <3>3
  <2>7. voters.useCount =>
            /\ voters.validator + voters.delegator = voters.all
            /\ IF voters.type = "delegator"
               THEN voters.delegator = Cardinality(WithVoteOf(OthersFirst))
               ELSE voters.validator = Cardinality(WithVoteOf(voters.known))
            /\ voters.type # "all" => Cardinality(voters.listed) =
                   (IF voters.type = "validator" THEN voters.validator ELSE voters.delegator)
    BY <2>3, <2>4 DEF VotersInv, KindsAddUp
  <2>8. QED
    BY <2>1, <2>2, <2>6, <2>7 DEF VotersAddUp
<1>2. QED
  BY <1>1, VotersInitInv, VotersStepInv, PTL DEF VotersSpec

(***************************************************************************)
(* TypeCache.                                                              *)
(***************************************************************************)
(* What a call that is on its way may still bring or find is as new as     *)
(* every call under way may ask: a reading that ends late can put back     *)
(* only what it had read before those calls began.                         *)
Pending == {"sent", "read", "set"}

CallsInTime ==
    \A c \in Calls : calls[c].got <= typesNow /\ calls[c].asOf <= typesNow

ReadingsAreNew ==
    \A c, d \in Calls : calls[c].at \in Pending /\ calls[d].at = "read" =>
        calls[d].got >= calls[c].asOf

CacheIsNew == \A c \in Calls : calls[c].at = "set" => cached >= calls[c].asOf

TypesInv == TypesTypeOK /\ CallsInTime /\ ReadingsAreNew /\ CacheIsNew /\ EditsAreSeen

LEMMA OldestIsOld ==
    ASSUME TypesInv
    PROVE  /\ Oldest \in 0..typesNow
           /\ \A d \in Calls : calls[d].at = "read" => Oldest <= calls[d].got
<1> DEFINE S == {typesNow} \cup {calls[c].got : c \in {d \in Calls : calls[d].at = "read"}}
<1>1. \A c \in Calls : calls[c].got \in 0..MaxTypeEdits + 1 /\ calls[c].got <= typesNow
  BY DEF TypesInv, TypesTypeOK, CallStates, CallsInTime
<1>2. S \in SUBSET Nat /\ typesNow \in S
  BY <1>1, TypeSettings DEF TypesInv, TypesTypeOK
<1>3. Min(S) \in S /\ \A y \in S : Min(S) <= y
  BY <1>2, MinIsLeast, Zenon
<1>4. Oldest = Min(S)
  BY DEF Oldest
<1> HIDE DEF S
<1>5. Oldest \in Nat /\ Oldest <= typesNow
  BY <1>2, <1>3, <1>4
<1>6. ASSUME NEW d \in Calls, calls[d].at = "read"
      PROVE  Oldest <= calls[d].got
  <2>1. calls[d].got \in S
    BY <1>6 DEF S
  <2>2. QED
    BY <2>1, <1>3, <1>4
<1>7. QED
  BY <1>5, <1>6 DEF TypesInv, TypesTypeOK

LEMMA SentType ==
    ASSUME TypesInv, NEW who \in {"request", "edit"}
    PROVE  Sent(who) \in CallStates
BY OldestIsOld, TypeSettings DEF Sent, CallStates, TypesInv, TypesTypeOK

LEMMA TypesInitInv == TypesInit => TypesInv
BY TypeSettings DEF TypesInit, TypesInv, TypesTypeOK, CallsInTime, ReadingsAreNew, CacheIsNew,
   EditsAreSeen, CallStates, FreeCall, Absent, Pending

LEMMA TypesStepInv == TypesInv /\ [TypesNext]_typeVars => TypesInv'
<1> SUFFICES ASSUME TypesInv, [TypesNext]_typeVars
             PROVE  TypesInv'
  OBVIOUS
<1> USE TypeSettings
<1>1. ASSUME NEW c \in Calls, AskForTypes(c)
      PROVE  TypesInv'
  <2>1. /\ calls' \in [Calls -> CallStates] /\ calls'[c] = Sent("request")
        /\ \A d \in Calls \ {c} : calls'[d] = calls[d]
    BY <1>1, SentType DEF AskForTypes, TypesInv, TypesTypeOK
  <2>2. QED
    BY <1>1, <2>1, OldestIsOld DEF AskForTypes, TypesInv, TypesTypeOK, CallsInTime,
       ReadingsAreNew, CacheIsNew, EditsAreSeen, CallStates, Sent, Pending
<1>2. ASSUME NEW C \in SUBSET Calls, EditTypes(C)
      PROVE  TypesInv'
  <2>1. /\ calls' \in [Calls -> CallStates] /\ typesNow' \in 1..MaxTypeEdits + 1
        /\ \A d \in Calls : calls'[d] = IF d \in C THEN Sent("edit") ELSE calls[d]
    BY <1>2, SentType DEF EditTypes, TypesInv, TypesTypeOK
  <2>2. QED
    BY <1>2, <2>1, OldestIsOld DEF EditTypes, TypesInv, TypesTypeOK, CallsInTime,
       ReadingsAreNew, CacheIsNew, EditsAreSeen, CallStates, Sent, Pending
<1>3. ASSUME NEW c \in Calls, QueryTxTypeList(c)
      PROVE  TypesInv'
  <2>1. /\ calls \in [Calls -> CallStates] /\ calls[c] \in CallStates
        /\ typesNow \in 0..MaxTypeEdits + 1
    BY DEF TypesInv, TypesTypeOK
  <2>2. [calls[c] EXCEPT !.at = "read", !.got = typesNow] \in CallStates
    BY <2>1 DEF CallStates
  <2>3. /\ calls[c].at = "sent" /\ cached' = cached /\ typesNow' = typesNow
        /\ calls' \in [Calls -> CallStates]
        /\ \A d \in Calls \ {c} : calls'[d] = calls[d]
        /\ calls'[c].at = "read" /\ calls'[c].got = typesNow /\ calls'[c].asOf = calls[c].asOf
    BY <1>3, <2>1, <2>2 DEF QueryTxTypeList, CallStates
  <2>4. QED
    BY <2>1, <2>3 DEF TypesInv, TypesTypeOK, CallsInTime,
       ReadingsAreNew, CacheIsNew, EditsAreSeen, CallStates, Pending
<1>4. ASSUME NEW c \in Calls, CacheTxTypes(c)
      PROVE  TypesInv'
  <2>1. calls \in [Calls -> CallStates] /\ calls[c] \in CallStates
    BY DEF TypesInv, TypesTypeOK
  <2>2. [calls[c] EXCEPT !.at = "set"] \in CallStates /\ FreeCall \in CallStates
    BY <2>1 DEF CallStates, FreeCall
  <2>3. /\ calls[c].at = "read" /\ cached' = calls[c].got /\ typesNow' = typesNow
        /\ calls' \in [Calls -> CallStates]
        /\ \A d \in Calls \ {c} : calls'[d] = calls[d]
        /\ \/ calls'[c] = [calls[c] EXCEPT !.at = "set"]
           \/ calls'[c] = FreeCall
    BY <1>4, <2>1, <2>2 DEF CacheTxTypes
  <2>4. calls[c].got \in 0..typesNow
    BY <2>1 DEF TypesInv, CallsInTime, CallStates, TypesTypeOK
  <2>5. \A d \in Calls : calls[d].at \in Pending => calls[c].got >= calls[d].asOf
    BY <2>3 DEF TypesInv, ReadingsAreNew
  <2>6. QED
    BY <2>1, <2>3, <2>4, <2>5 DEF TypesInv, TypesTypeOK, CallsInTime,
       ReadingsAreNew, CacheIsNew, EditsAreSeen, CallStates, FreeCall, Pending
<1>5. ASSUME NEW c \in Calls, UseTypes(c)
      PROVE  TypesInv'
  <2>1. calls \in [Calls -> CallStates] /\ calls[c] \in CallStates
    BY DEF TypesInv, TypesTypeOK
  <2>2. cached \in 0..MaxTypeEdits + 1
    BY DEF TypesInv, TypesTypeOK
  <2>3. [calls[c] EXCEPT !.at = "used", !.got = cached] \in CallStates
    BY <2>1, <2>2 DEF CallStates
  <2>4. /\ calls[c].at = "set" /\ cached' = cached /\ typesNow' = typesNow
        /\ calls' \in [Calls -> CallStates]
        /\ \A d \in Calls \ {c} : calls'[d] = calls[d]
        /\ calls'[c].at = "used" /\ calls'[c].got = cached /\ calls'[c].asOf = calls[c].asOf
    BY <1>5, <2>1, <2>3 DEF UseTypes, CallStates
  <2>5. QED
    BY <2>1, <2>2, <2>4 DEF TypesInv, TypesTypeOK, CallsInTime,
       ReadingsAreNew, CacheIsNew, EditsAreSeen, CallStates, Pending
<1>6. ASSUME NEW c \in Calls, EndCall(c)
      PROVE  TypesInv'
  BY <1>6 DEF EndCall, TypesInv, TypesTypeOK, CallsInTime,
     ReadingsAreNew, CacheIsNew, EditsAreSeen, CallStates, FreeCall, Pending
<1>7. CASE UNCHANGED typeVars
  BY <1>7 DEF typeVars, TypesInv, TypesTypeOK, CallsInTime,
     ReadingsAreNew, CacheIsNew, EditsAreSeen
<1>8. QED
  BY <1>1, <1>2, <1>3, <1>4, <1>5, <1>6, <1>7 DEF TypesNext

(* The list of a request is filtered by types as new as the request: an    *)
(* edit that was answered before it came is seen, unless another call had  *)
(* read the collection before the edit and was still on its way.           *)
THEOREM SeesEdits == TypesSpec => []EditsAreSeen
<1>1. TypesInv => EditsAreSeen
  BY DEF TypesInv
<1>2. QED
  BY <1>1, TypesInitInv, TypesStepInv, PTL DEF TypesSpec

(***************************************************************************)
(* StakingSync.                                                            *)
(***************************************************************************)
LEMMA NoDocType == NoDoc.status = "none" /\ NoDoc.black = FALSE /\ NoDoc \in Doc
BY DEF NoDoc, Doc, Status, Statuses

LEMMA SavesType == TypeOK => Saves \subseteq Save
BY DEF TypeOK, Saves, Save, Status

LEMMA DeletesType == TypeOK => Deletes \subseteq Delete
BY DEF TypeOK, Deletes, Delete

LEMMA WriteType ==
    /\ \A w \in Save : w.val \in Validators /\ w.status \in Statuses
    /\ \A w \in Delete : w.val \in Validators
BY DEF Save, Delete

LEMMA SavedType ==
    ASSUME NEW old \in Doc, NEW w \in Save
    PROVE  /\ Saved(old, w) \in Doc
           /\ Saved(old, w).black = old.black
           /\ Saved(old, w).status # "none"
BY DEF Saved, Save, Doc, Status, Statuses

LEMMA FaultType == TypeOK /\ Fault => faults' \in 0..MaxFaults
BY StakingSettings DEF TypeOK, Fault

(* The two tasks and the chain leave types as they are. *)
LEMMA TypeStep ==
    ASSUME TypeOK, [Next]_vars
    PROVE  TypeOK'
<1> USE DEF TypeOK, infoVars, markVars, Statuses, Status
<1>1. CASE InfoStep
  <2>1. CASE Start
    BY <2>1 DEF Start
  <2>2. CASE QueryList
    BY <2>2 DEF QueryList, After
  <2>3. CASE Handle
    BY <2>3, SavesType, DeletesType DEF Handle, Ended
  <2>4. QED
    BY <1>1, <2>1, <2>2, <2>3 DEF InfoStep
<1>2. CASE NoList \/ RunThrows
  BY <1>2, FaultType DEF NoList, RunThrows, Ended, After
<1>3. CASE ReadAll \/ PassThrows
  BY <1>3, NoDocType, FaultType DEF ReadAll, PassThrows
<1>4. ASSUME NEW v \in Validators, ChainMoves(v)
      PROVE  TypeOK'
  BY <1>4, StakingSettings DEF ChainMoves
<1>5. ASSUME NEW w \in sent, SaveLands(w)
      PROVE  TypeOK'
  <2>1. Saved(table[w.val], w) \in Doc
    BY <1>5, WriteType, SavedType DEF SaveLands
  <2>2. QED
    BY <1>5, <2>1 DEF SaveLands
<1>6. ASSUME NEW w \in sent, DeleteLands(w)
      PROVE  TypeOK'
  BY <1>6, NoDocType, WriteType DEF DeleteLands
<1>7. ASSUME NEW v \in Validators, WriteBack(v)
      PROVE  TypeOK'
  BY <1>7, NoDocType DEF WriteBack
<1>8. ASSUME NEW v \in Validators, NEW isBlack \in BOOLEAN, InsertBlack(v, isBlack)
      PROVE  TypeOK'
  <2>1. [table[v] EXCEPT !.black = isBlack] \in Doc
    BY DEF Doc
  <2>2. QED
    BY <1>8, <2>1 DEF InsertBlack
<1>9. ASSUME NEW w \in sent, WriteLost(w)
      PROVE  TypeOK'
  BY <1>9, FaultType DEF WriteLost
<1>10. CASE UNCHANGED vars
  BY <1>10 DEF vars
<1>11. QED
  BY <1>1, <1>2, <1>3, <1>4, <1>5, <1>6, <1>7, <1>8, <1>9, <1>10, StakingSettings
     DEF Next, Lands

LEMMA TypeInit == Init => TypeOK
BY NoDocType, StakingSettings DEF Init, TypeOK, Status, Statuses

(* The state of the collection of validators is always of its types: a     *)
(* document has a status the chain knows, whatever run or pass wrote it.   *)
THEOREM TypeCorrect == Spec => []TypeOK
<1>1. QED
  BY TypeInit, TypeStep, PTL DEF Spec

-----------------------------------------------------------------------------
(* A validator who has not moved since the run began is in the list of his *)
(* status once that list has been read.                                    *)
ListsCover ==
    \A v \in vouched :
        /\ stage \in {"unbonded", "unbonding", "handling"} /\ chain[v] = "bonded"
           => found[v] # "none"
        /\ stage \in {"unbonding", "handling"} /\ chain[v] = "unbonded"
           => found[v] # "none"
        /\ stage = "handling" /\ chain[v] = "unbonding"
           => found[v] # "none"

LEMMA ListsCoverStep ==
    ASSUME TypeOK, ListsCover, [Next]_vars
    PROVE  ListsCover'
<1> USE DEF TypeOK, ListsCover, infoVars, markVars, Statuses
<1>1. CASE Start
  BY <1>1 DEF Start
<1>2. CASE QueryList
  BY <1>2 DEF QueryList, After, Asked
<1>3. CASE Handle \/ RunThrows
  BY <1>3 DEF Handle, RunThrows, Ended
<1>4. CASE NoList
  BY <1>4 DEF NoList, After, Ended
<1>5. ASSUME NEW v \in Validators, ChainMoves(v)
      PROVE  ListsCover'
  BY <1>5 DEF ChainMoves
<1>6. CASE UNCHANGED <<chain, stage, found, vouched>>
  BY <1>6
<1>7. QED
  BY <1>1, <1>2, <1>3, <1>4, <1>5, <1>6
     DEF Next, InfoStep, Lands, SaveLands, DeleteLands, WriteLost, ReadAll,
         PassThrows, WriteBack, InsertBlack, vars

(* The info task deletes nobody who has kept his status and was within the *)
(* limit of its list while the three lists, none missing, were read.       *)
THEOREM DeletionsAreRight == Spec => []SteadyAreKept
<1>1. Init => ListsCover
  BY DEF Init, ListsCover
<1>2. TypeOK /\ ListsCover => SteadyAreKept
  <2> SUFFICES ASSUME TypeOK, ListsCover, stage = "handling",
                      NEW w \in Deletes, w.val \in vouched
               PROVE  chain[w.val] = "none"
    BY DEF SteadyAreKept
  <2>1. found[w.val] = "none"
    BY DEF Deletes
  <2>2. QED
    BY <2>1 DEF TypeOK, ListsCover, Status, Statuses
<1>3. QED
  BY <1>1, <1>2, TypeInit, TypeStep, ListsCoverStep, PTL DEF Spec

-----------------------------------------------------------------------------
(* What an undisturbed mark rests on: the collection and the copy of the   *)
(* more-info task show it, and nothing is marked without a document.       *)
MarkInv ==
    \A v \in Validators \ disturbed :
        /\ Exists(table, v) => table[v].black = wanted[v]
        /\ Exists(copy, v) => copy[v].black = wanted[v]
        /\ ~Exists(table, v) => wanted[v] = FALSE /\ table[v].black = FALSE

LEMMA MarkStep ==
    ASSUME TypeOK, MarkInv, [Next]_vars
    PROVE  MarkInv'
<1> USE DEF TypeOK, MarkInv, Exists, infoVars, markVars
<1>1. ASSUME NEW w \in sent, SaveLands(w)
      PROVE  MarkInv'
  <2>1. /\ w.val \in Validators
        /\ Saved(table[w.val], w).black = table[w.val].black
        /\ Saved(table[w.val], w).status # "none"
    BY <1>1, WriteType, SavedType DEF SaveLands
  <2>2. QED
    BY <1>1, <2>1 DEF SaveLands
<1>2. ASSUME NEW w \in sent, DeleteLands(w)
      PROVE  MarkInv'
  BY <1>2, WriteType, NoDocType DEF DeleteLands
<1>3. CASE ReadAll \/ PassThrows
  BY <1>3, NoDocType DEF ReadAll, PassThrows
<1>4. ASSUME NEW v \in Validators, WriteBack(v)
      PROVE  MarkInv'
  BY <1>4, NoDocType DEF WriteBack
<1>5. ASSUME NEW v \in Validators, NEW isBlack \in BOOLEAN, InsertBlack(v, isBlack)
      PROVE  MarkInv'
  <2>1. /\ [table[v] EXCEPT !.black = isBlack].black = isBlack
        /\ [table[v] EXCEPT !.black = isBlack].status = table[v].status
    BY DEF Doc
  <2>2. QED
    BY <1>5, <2>1 DEF InsertBlack
<1>6. CASE UNCHANGED <<table, copy, wanted, disturbed>>
  BY <1>6
<1>7. QED
  BY <1>1, <1>2, <1>3, <1>4, <1>5, <1>6, StakingSettings
     DEF Next, InfoStep, Lands, Start, QueryList, Handle, NoList, RunThrows,
         ChainMoves, WriteLost, vars

(* A moderator's mark survives every save of the info task, in any number  *)
(* of runs and however late it lands.                                      *)
THEOREM MarksAreKept == Spec => []MarkIsKept
<1>1. Init => MarkInv
  BY NoDocType DEF Init, MarkInv, Exists
<1>2. MarkInv => MarkIsKept
  BY DEF MarkInv, MarkIsKept
<1>3. QED
  BY <1>1, <1>2, TypeInit, TypeStep, MarkStep, PTL DEF Spec

(***************************************************************************)
(* Statistics.                                                             *)
(***************************************************************************)

(* A list whose codes all have a case is the list of its indicators. *)
LEMMA AllAreIndicators ==
    ASSUME NEW e, NEW C, NEW p \in Seq(C),
           \A i \in 1..Len(p) : HasCase(e, p[i])
    PROVE  IndicatorsOf(e, p) = p
<1> DEFINE Step(f, i) == IF i = 0 THEN <<>>
                         ELSE IF HasCase(e, p[i]) THEN Append(f[i - 1], p[i]) ELSE f[i - 1]
           picked == CHOOSE f : f = [i \in 0..Len(p) |-> Step(f, i)]
           whole == [i \in 0..Len(p) |-> SubSeq(p, 1, i)]
<1>1. Len(p) \in Nat /\ \A i \in 0..Len(p) : SubSeq(p, 1, i) \in Seq(C)
  OBVIOUS
<1>2. SubSeq(p, 1, 0) = <<>> /\ SubSeq(p, 1, Len(p)) = p
  OBVIOUS
<1>3. ASSUME NEW i \in 1..Len(p)
      PROVE  Append(SubSeq(p, 1, i - 1), p[i]) = SubSeq(p, 1, i)
  <2> DEFINE s == SubSeq(p, 1, i - 1)
             t == SubSeq(p, 1, i)
  <2>1. p[i] \in C /\ i - 1 \in 0..Len(p)
    BY <1>1
  <2>2. s \in Seq(C) /\ Len(s) = i - 1 /\ t \in Seq(C) /\ Len(t) = i
    BY <1>1, <2>1
  <2>3. \A j \in 1..i - 1 : s[j] = p[j]
    BY <1>1
  <2>4. \A j \in 1..i : t[j] = p[j]
    BY <1>1
  <2>5. /\ Append(s, p[i]) \in Seq(C) /\ Len(Append(s, p[i])) = i
        /\ \A j \in 1..i : Append(s, p[i])[j] = t[j]
    <3> HIDE DEF s, t
    <3> QED
      BY <2>1, <2>2, <2>3, <2>4
  <2> HIDE DEF s, t
  <2>6. Append(s, p[i]) = t
    BY <2>2, <2>5, SeqEqual
  <2> QED
    BY <2>6 DEF s, t
<1>4. whole = [i \in 0..Len(p) |-> Step(whole, i)]
  <2>1. ASSUME NEW i \in 0..Len(p)
        PROVE  SubSeq(p, 1, i) = Step(whole, i)
    <3>1. CASE i = 0
      BY <3>1, <1>2
    <3>2. CASE i # 0
      <4>1. i \in 1..Len(p) /\ i - 1 \in 0..Len(p)
        BY <3>2, <1>1
      <4>2. whole[i - 1] = SubSeq(p, 1, i - 1) /\ HasCase(e, p[i])
        BY <4>1
      <4> QED
        BY <4>1, <4>2, <1>3, <3>2
    <3> QED
      BY <3>1, <3>2
  <2> HIDE DEF Step
  <2> QED
    BY <2>1
<1>5. picked = [i \in 0..Len(p) |-> Step(picked, i)]
  <2> HIDE DEF Step, whole
  <2> QED
    BY <1>4
<1>6. IndicatorsOf(e, p) = picked[Len(p)]
  BY DEF IndicatorsOf
<1> DEFINE Q == {n \in 0..Len(p) : picked[n] = SubSeq(p, 1, n)}
<1>7. 0 \in Q
  <2>1. picked[0] = Step(picked, 0)
    <3> HIDE DEF picked, Step
    <3> QED BY <1>5, <1>1
  <2>2. picked[0] = <<>> /\ 0 \in 0..Len(p)
    <3> HIDE DEF picked
    <3> QED
      BY <2>1, <1>1
  <2> HIDE DEF picked
  <2> QED
    BY <2>2, <1>2
<1>8. ASSUME NEW i \in 1..Len(p), i - 1 \in Q
      PROVE  i \in Q
  <2>1. picked[i] = Step(picked, i)
    <3> HIDE DEF picked, Step
    <3> QED BY <1>5, <1>1
  <2>2. picked[i - 1] = SubSeq(p, 1, i - 1) /\ HasCase(e, p[i]) /\ i # 0 /\ i \in 0..Len(p)
    <3> HIDE DEF picked
    <3> QED
      BY <1>8, <1>1
  <2> HIDE DEF picked
  <2> QED
    BY <2>1, <2>2, <1>3
<1>9. \A i \in 0..Len(p) : i \in Q
  <2> HIDE DEF Q, picked
  <2> QED
    BY <1>1, <1>7, <1>8, Climb
<1>10. picked[Len(p)] = SubSeq(p, 1, Len(p))
  <2> HIDE DEF picked
  <2> QED
    BY <1>9, <1>1
<1> QED
  BY <1>6, <1>10, <1>2

(* What a request may name, and what WithBlock adds. *)
Codes == AllCodes \cup {"200"}

(* While the indicators are read they are those of the codes, and the two  *)
(* heights the average is read from lie less than the window apart: the    *)
(* older one is looked for in the later read, whose newest block is no     *)
(* older than the one that was read first.                                 *)
ResultsFit ==
    /\ stats.at \in {"asked", "reading", "done"}
    /\ stats.of \in Endpoints
    /\ stats.at = "asked" => stats.oldest = 0
    /\ stats.at # "asked" =>
           /\ stats.params \in Seq(Codes)
           /\ ToSet(stats.params) \subseteq CodesOf[stats.of] =>
                  stats.indicators = stats.params
    /\ stats.at = "done" /\ ToSet(stats.params) \subseteq CodesOf[stats.of] =>
           stats.results = stats.params

WindowFits ==
    /\ newest \in Nat /\ stats.latest \in Nat /\ stats.oldest \in Int
    /\ stats.latest <= newest
    /\ stats.oldest > 0 => stats.latest - stats.oldest < Window

StatsShape ==
    DOMAIN stats = {"at", "of", "params", "indicators", "results", "latest", "oldest"}

StatsInv == StatsShape /\ ResultsFit /\ WindowFits
             /\ (stats.at = "asked" => stats.params \in Seq(Codes))

LEMMA StatsInit_Inv == StatsInit => StatsInv
<1> SUFFICES ASSUME StatsInit
             PROVE  StatsInv
  OBVIOUS
<1>1. PICK e \in Endpoints, n \in 1..MaxNamed : \E p \in [1..n -> AllCodes] :
          stats = [at |-> "asked", of |-> e, params |-> p, indicators |-> <<>>,
                   results |-> <<>>, latest |-> 0, oldest |-> 0]
  BY DEF StatsInit
<1>2. PICK p \in [1..n -> AllCodes] :
          stats = [at |-> "asked", of |-> e, params |-> p, indicators |-> <<>>,
                   results |-> <<>>, latest |-> 0, oldest |-> 0]
  BY <1>1
<1>3. n \in Nat /\ p \in Seq(Codes)
  BY StatisticsSettings DEF Codes
<1>4. newest \in Nat
  BY StatisticsSettings DEF StatsInit
<1>5. QED
  BY <1>2, <1>3, <1>4 DEF StatsInv, StatsShape, ResultsFit, WindowFits

LEMMA StatsStep == StatsInv /\ [StatsNext]_statVars => StatsInv'
<1> SUFFICES ASSUME StatsInv, [StatsNext]_statVars
             PROVE  StatsInv'
  OBVIOUS
<1> USE DEF StatsInv, StatsShape
<1>1. CASE ChooseIndicators
  <2> DEFINE q == WithBlock(stats.of, stats.params)
  <2>0. stats' = [stats EXCEPT !.at = "reading", !.params = q,
                               !.indicators = IndicatorsOf(stats.of, q)]
        /\ stats.at = "asked" /\ newest' = newest
    BY <1>1 DEF ChooseIndicators
  <2>1. q \in Seq(Codes)
    <3>1. CASE q = stats.params
      BY <3>1, <2>0
    <3>2. CASE q = <<"200">> \o stats.params /\ stats.of = "network"
               /\ Contains(stats.params, "201")
      <4>1. <<"200">> \in Seq(Codes)
        BY DEF Codes
      <4> QED
        BY <3>2, <4>1, <2>0
    <3> QED
      BY <3>1, <3>2 DEF WithBlock
  <2>2. ToSet(q) \subseteq CodesOf[stats.of] => IndicatorsOf(stats.of, q) = q
    <3> SUFFICES ASSUME ToSet(q) \subseteq CodesOf[stats.of]
                 PROVE  IndicatorsOf(stats.of, q) = q
      OBVIOUS
    <3> HIDE DEF q
    <3>1. \A i \in 1..Len(q) : HasCase(stats.of, q[i])
      BY <2>1 DEF ToSet, HasCase
    <3> QED
      BY <2>1, <3>1, AllAreIndicators
  <2> HIDE DEF q
  <2>3. /\ stats'.at = "reading" /\ stats'.params = q /\ stats'.of = stats.of
        /\ stats'.indicators = IndicatorsOf(stats.of, q)
        /\ stats'.latest = stats.latest /\ stats'.oldest = stats.oldest
        /\ DOMAIN stats' = DOMAIN stats
    BY <2>0
  <2> QED
    BY <2>0, <2>1, <2>2, <2>3 DEF ResultsFit, WindowFits
<1>2. CASE ReadLatest
  BY <1>2 DEF ReadLatest, ResultsFit, WindowFits
<1>3. CASE FindNum100Height
  <2>1. /\ stats' = [stats EXCEPT !.oldest = IF newest > Window THEN newest - Window + 1 ELSE 1]
        /\ newest' = newest /\ stats.at = "reading"
    BY <1>3 DEF FindNum100Height
  <2>2. PICK o : o = IF newest > Window THEN newest - Window + 1 ELSE 1
    OBVIOUS
  <2>3. o \in Int /\ stats.latest - o < Window
    BY <2>2, StatisticsSettings DEF WindowFits
  <2> QED
    BY <2>1, <2>2, <2>3 DEF ResultsFit, WindowFits
<1>4. CASE AnswerStatistics
  <2> DEFINE r == [i \in 1..Len(stats.params) |->
                     IF i <= Len(stats.indicators) THEN stats.indicators[i] ELSE "undefined"]
  <2>1. /\ stats' = [stats EXCEPT !.at = "done", !.results = r]
        /\ newest' = newest /\ stats.at = "reading"
    BY <1>4 DEF AnswerStatistics
  <2>2. stats.indicators = stats.params => r = stats.params
    <3> SUFFICES ASSUME stats.indicators = stats.params
                 PROVE  r = stats.params
      OBVIOUS
    <3>1. stats.params \in Seq(Codes)
      BY <2>1 DEF ResultsFit
    <3>2. PICK p \in Seq(Codes) : p = stats.params /\ p = stats.indicators
      BY <3>1
    <3>3. r = [i \in 1..Len(p) |-> p[i]]
      BY <3>2
    <3>4. p = [i \in 1..Len(p) |-> p[i]]
      OBVIOUS
    <3> QED
      BY <3>2, <3>3, <3>4
  <2> HIDE DEF r
  <2> QED
    BY <2>1, <2>2 DEF ResultsFit, WindowFits
<1>5. CASE NextBlock
  BY <1>5 DEF NextBlock, ResultsFit, WindowFits
<1>6. CASE UNCHANGED statVars
  BY <1>6 DEF statVars, ResultsFit, WindowFits
<1>7. QED
  BY <1>1, <1>2, <1>3, <1>4, <1>5, <1>6 DEF StatsNext

(* Codes that all have a case get their own indicators, in their places,   *)
(* and the divisor is the number of blocks between the two that were read, *)
(* whatever comes in between.                                              *)
THEOREM IndicatorsMatch == StatsSpec => []StatisticsMatch
<1>1. StatsInv => StatisticsMatch
  BY StatisticsSettings
     DEF StatsInv, ResultsFit, WindowFits, StatisticsMatch, Divisor
<1> QED
  BY <1>1, StatsInit_Inv, StatsStep, PTL DEF StatsSpec

(***************************************************************************)
(* BlockPower.                                                             *)
(***************************************************************************)
Prefix(k) == SubSeq(Members, 1, k)

LEMMA PrefixIs ==
    ASSUME NEW k \in 0..Len(Members)
    PROVE  /\ Prefix(k) \in Seq(ToSet(Members)) /\ Len(Prefix(k)) = k
           /\ \A i \in 1..k : Prefix(k)[i] = Members[i]
           /\ Len(Members) \in Nat
           /\ \A i \in 1..Len(Members) : Members[i] \in ToSet(Members)
<1>1. Members \in Seq(ToSet(Members))
  BY BlockSettings
<1>2. PICK S : S = ToSet(Members)
  OBVIOUS
<1>2m. PICK m \in Seq(S) : m = Members
  BY <1>2, BlockSettings
<1>3. SubSeq(m, 1, k) \in Seq(S) /\ Len(SubSeq(m, 1, k)) = k /\ Len(m) \in Nat
      /\ (\A i \in 1..k : SubSeq(m, 1, k)[i] = m[i])
      /\ \A i \in 1..Len(m) : m[i] \in S
  BY <1>2, <1>2m
<1> QED
  BY <1>2, <1>2m, <1>3 DEF Prefix

LEMMA WholePrefix == Prefix(Len(Members)) = Members
<1>1. PICK S : S = ToSet(Members)
  OBVIOUS
<1>1m. PICK m \in Seq(S) : m = Members
  BY <1>1, BlockSettings
<1>2. SubSeq(m, 1, Len(m)) = m
  BY <1>1, <1>1m
<1> QED
  BY <1>1, <1>1m, <1>2 DEF Prefix

(* A page of the chain continues the prefix. *)
LEMMA PageContinues ==
    ASSUME NEW b \in 0..Len(Members)
    PROVE  LET P == Slice(Members, b, ChainPage) IN
           \/ /\ b + ChainPage <= Len(Members) /\ Len(P) = ChainPage
              /\ Prefix(b) \o P = Prefix(b + ChainPage)
           \/ Len(P) # ChainPage /\ Prefix(b) \o P = Members
<1>1. PICK S : S = ToSet(Members)
  OBVIOUS
<1>1m. PICK m \in Seq(S) : m = Members
  BY <1>1, BlockSettings
<1>2. PICK c \in Nat \ {0} : c = ChainPage
  BY BlockSettings
<1>3. PICK n \in Nat : n = Len(m) /\ b \in 0..n
  BY <1>1, <1>1m
<1>4. PICK t : t = IF b + c < n THEN b + c ELSE n
  OBVIOUS
<1>5. t \in b..n /\ (t = b + c \/ (t = n /\ n < b + c))
  BY <1>2, <1>3, <1>4
<1> DEFINE P == SubSeq(m, b + 1, t)
           A == SubSeq(m, 1, b)
           Z == SubSeq(m, 1, t)
<1>6. P = Slice(Members, b, ChainPage)
  BY <1>1, <1>1m, <1>2, <1>3, <1>4 DEF Slice
<1>7. P \in Seq(S) /\ Len(P) = t - b /\ A \in Seq(S) /\ Len(A) = b /\ Z \in Seq(S) /\ Len(Z) = t
  BY <1>1, <1>1m, <1>3, <1>5
<1>8. /\ \A i \in 1..b : A[i] = m[i]
      /\ \A i \in 1..t - b : P[i] = m[b + i]
      /\ \A i \in 1..t : Z[i] = m[i]
  BY <1>1, <1>1m, <1>3, <1>5
<1>9. A \o P = Z
  <2>1. A \o P \in Seq(S) /\ Len(A \o P) = t
    <3> HIDE DEF A, P
    <3> QED
      BY <1>7, <1>5, <1>3
  <2>2. ASSUME NEW i \in 1..t
        PROVE  (A \o P)[i] = Z[i]
    <3>1. CASE i <= b
      <4> HIDE DEF A, P, Z
      <4> QED
        BY <3>1, <1>7, <1>8, <1>5, <1>3
    <3>2. CASE i > b
      <4>1. i - b \in 1..t - b /\ b + (i - b) = i
        BY <3>2, <1>5, <1>3
      <4>2. P[i - b] = m[i] /\ Z[i] = m[i]
        <5> HIDE DEF P, Z
        <5> QED
          BY <4>1, <1>8
      <4>3. (A \o P)[i] = P[i - b]
        <5>1. i \in 1..Len(A) + Len(P) /\ i > Len(A) /\ Len(A) = b
          <6> HIDE DEF A, P, Z
          <6> QED
            BY <3>2, <1>7, <1>5, <1>3
        <5>2. A \in Seq(S) /\ P \in Seq(S)
          BY <1>7
        <5>3. (A \o P)[i] = P[i - Len(A)]
          <6> HIDE DEF A, P, Z
          <6> QED
            BY <5>1, <5>2, ConcatProperties
        <5> QED
          BY <5>1, <5>3
      <4> QED
        BY <4>2, <4>3
    <3> QED
      BY <3>1, <3>2, <1>3, <1>5
  <2> HIDE DEF A, P, Z
  <2> QED
    BY <2>1, <2>2, <1>7, SeqEqual
<1>10. Z = Prefix(t) /\ A = Prefix(b)
  BY <1>1, <1>1m DEF Prefix
<1>11. CASE t = b + c
  <2> HIDE DEF A, P, Z
  <2> QED
    BY <1>2, <1>1, <1>1m, <1>3, <1>5, <1>6, <1>7, <1>9, <1>10, <1>11
<1>12. CASE t = n /\ n < b + c
  <2>1. Prefix(t) = Members
    BY <1>12, <1>1, <1>1m, <1>3, WholePrefix
  <2> HIDE DEF A, P, Z
  <2> QED
    BY <2>1, <1>2, <1>3, <1>5, <1>6, <1>7, <1>9, <1>10, <1>12
<1> QED
  BY <1>5, <1>11, <1>12

(* What some sign is at most what all have. *)
LEMMA PowerOfSome ==
    ASSUME NEW I \in SUBSET DOMAIN Members
    PROVE  PowerAt(Members, I) <= PowerIn(Members)
<1>1. PICK S : S = ToSet(Members)
  OBVIOUS
<1>1m. PICK m \in Seq(S) : m = Members
  BY <1>1, BlockSettings
<1>2. PICK n \in Nat : n = Len(m) /\ DOMAIN m = 1..n /\ \A i \in 1..n : m[i] \in S
  BY <1>1, <1>1m
<1> DEFINE f == [i \in DOMAIN m |-> PowerOf[m[i]]]
           g == [i \in DOMAIN m |-> IF i \in I THEN f[i] ELSE 0]
           D == 1..n
<1>3. \A i \in D : f[i] \in Nat /\ g[i] \in Nat /\ g[i] <= f[i] /\ (i \in I => g[i] = f[i])
                   /\ (i \notin I => g[i] = 0)
  <2>1. \A i \in D : PowerOf[m[i]] \in Nat
    BY <1>1, <1>1m, <1>2, BlockSettings
  <2> QED
    BY <2>1, <1>2
<1>4. IsFiniteSet(D) /\ I \in SUBSET D /\ IsFiniteSet(I)
  <2>1. IsFiniteSet(1..n)
    BY FS_Interval
  <2>2. I \in SUBSET (1..n)
    BY <1>1m, <1>2
  <2> QED
    BY <2>1, <2>2, FS_Subset
<1> HIDE DEF f, g, D
<1>5. Sum(g, D) = Sum(g, I)
  BY <1>3, <1>4, SumSkipsZeros
<1>6. Sum(f, I) = Sum(g, I)
  BY <1>3, <1>4, SumsEqual
<1>7. Sum(g, D) <= Sum(f, D)
  BY <1>3, <1>4, SumsCompare
<1>8. Sum(g, D) \in Int /\ Sum(f, D) \in Int
  BY <1>3, <1>4, SumType
<1>9. PowerAt(Members, I) = Sum(f, I) /\ PowerIn(Members) = Sum(f, D)
  BY <1>1, <1>1m, <1>2 DEF f, D, PowerAt, PowerIn, Sum
<1> QED
  BY <1>5, <1>6, <1>7, <1>8, <1>9

(* What came so far is a prefix of the validator set: to the end of a full *)
(* page, the whole, or with the undefined element behind it.  Without this *)
(* a request that ends says nothing about the pages it ended after.        *)
GotIsPrefix ==
    \/ ~sets.full /\ (sets.got = <<>> \/ sets.got = Members)
    \/ ~sets.full /\ \E k \in 0..Len(Members) : sets.got = Append(Prefix(k), Undefined)
    \/ /\ sets.full /\ sets.page * ChainPage \in 0..Len(Members)
       /\ sets.got = Prefix(sets.page * ChainPage)

SetsInv ==
    /\ DOMAIN sets = {"at", "what", "page", "full", "got", "total", "precommit", "count",
                      "from", "size"}
    /\ sets.at \in {"block", "first", "next", "done", "failed"}
    /\ sets.page \in Nat /\ sets.from \in Nat /\ sets.size \in Nat
    /\ sets.what \in {"power", "slice"} /\ sets.full \in BOOLEAN
    /\ sets.at \in {"block", "first"} => sets.page = 1 /\ sets.got = <<>>
    /\ sets.at = "next" => GotIsPrefix
    /\ PowerIsWhole

LEMMA SetsInit_Inv == SetsInit => SetsInv
<1> SUFFICES ASSUME SetsInit
             PROVE  SetsInv
  OBVIOUS
<1>1. PICK w \in {"power", "slice"}, n \in 1..Len(Members) + 1, k \in 1..3 :
        sets = [at |-> IF w = "power" THEN "block" ELSE "first", what |-> w, page |-> 1,
                full |-> FALSE, got |-> <<>>, total |-> 0, precommit |-> 0, count |-> 0,
                from |-> (n - 1) * k, size |-> k]
  BY DEF SetsInit
<1>2. (n - 1) * k \in Nat
  OBVIOUS
<1> QED
  BY <1>1, <1>2 DEF SetsInv, PowerIsWhole

(* A slice without the undefined element has what the slice of the whole   *)
(* set has.                                                                *)
LEMMA SliceFits ==
    ASSUME NEW k \in 0..Len(Members), NEW from \in Nat, NEW size \in Nat,
           Undefined \notin ToSet(Slice(Append(Prefix(k), Undefined), from, size)),
           Slice(Append(Prefix(k), Undefined), from, size) # <<>>
    PROVE  Slice(Append(Prefix(k), Undefined), from, size) = Slice(Members, from, size)
<1> DEFINE S == ToSet(Members) \cup {Undefined}
           g == Append(Prefix(k), Undefined)
           m == Members
<1>1. g \in Seq(S) /\ Len(g) = k + 1 /\ g[k + 1] = Undefined
      /\ \A i \in 1..k : g[i] = m[i]
  BY PrefixIs
<1>2. m \in Seq(S) /\ Len(m) \in Nat /\ k <= Len(m)
  BY PrefixIs, BlockSettings
<1>3. PICK t : t = IF from + size < Len(g) THEN from + size ELSE Len(g)
  OBVIOUS
<1> DEFINE d == SubSeq(g, from + 1, t)
<1>4. t \in 0..k + 1 /\ d = Slice(g, from, size)
  <2> HIDE DEF g
  <2> QED
    BY <1>1, <1>3 DEF Slice
<1>5. d \in Seq(S) /\ t > from /\ Len(d) = t - from /\ \A i \in 1..t - from : d[i] = g[from + i]
  <2>1. d # <<>>
    BY <1>4
  <2> HIDE DEF g, S
  <2>2. t > from
    BY <2>1, <1>1, <1>4
  <2> QED
    BY <2>2, <1>1, <1>4
<1>6. t <= k
  <2>1. SUFFICES ASSUME t = k + 1
                 PROVE  FALSE
    BY <1>4
  <2>2. t - from \in 1..Len(d) /\ from + (t - from) = k + 1
    <3> HIDE DEF d
    <3> QED
      BY <2>1, <1>5, <1>4
  <2>3. d[t - from] = Undefined
    <3> HIDE DEF d, g
    <3> QED
      BY <2>2, <1>5, <1>1
  <2>4. d[t - from] \in ToSet(d)
    <3> HIDE DEF d, g
    <3> QED
      BY <2>2, <1>5 DEF ToSet
  <2> QED
    BY <2>3, <2>4, <1>4
<1>7. from + size = t /\ from + size <= Len(m)
  <2> HIDE DEF g, m
  <2> QED
    BY <1>6, <1>3, <1>1, <1>2
<1>8. Slice(m, from, size) = SubSeq(m, from + 1, t)
  <2>1. (IF from + size < Len(m) THEN from + size ELSE Len(m)) = t
    <3> HIDE DEF m
    <3> QED
      BY <1>7, <1>2, <1>4
  <2> QED
    BY <2>1 DEF Slice
<1> DEFINE e == SubSeq(m, from + 1, t)
<1>9. e \in Seq(S) /\ Len(e) = t - from /\ \A i \in 1..t - from : e[i] = m[from + i]
  <2> HIDE DEF m, S
  <2> QED
    BY <1>2, <1>4, <1>5, <1>7
<1>10. \A i \in 1..t - from : e[i] = d[i]
  <2> HIDE DEF d, e, g, m
  <2>1. ASSUME NEW i \in 1..t - from
        PROVE  e[i] = d[i]
    <3>1. from + i \in 1..k
      BY <1>4, <1>5, <1>6
    <3> QED
      BY <3>1, <1>1, <1>5, <1>9
  <2> QED
    BY <2>1
<1>11. e = d
  <2> HIDE DEF d, e, S
  <2> QED
    BY <1>5, <1>9, <1>10, SeqEqual
<1> QED
  BY <1>4, <1>8, <1>11

LEMMA SetsStep == SetsInv /\ [SetsNext]_sets => SetsInv'
<1> SUFFICES ASSUME SetsInv, [SetsNext]_sets
             PROVE  SetsInv'
  OBVIOUS
<1> USE DEF SetsInv
<1>1. CASE QueryBlockFromLcd
  BY <1>1 DEF QueryBlockFromLcd, PowerIsWhole
<1>2. CASE QueryFirstPage
  <2>1. PICK ok \in BOOLEAN :
          LET P == IF ok THEN ChainAnswers(1) ELSE <<>> IN
          sets' = [sets EXCEPT !.got = P, !.full = Len(P) = ChainPage, !.at = "next"]
    BY <1>2 DEF QueryFirstPage
  <2>2. PICK P : P = IF ok THEN ChainAnswers(1) ELSE <<>>
    OBVIOUS
  <2>3. PICK full \in BOOLEAN : full <=> Len(P) = ChainPage
    OBVIOUS
  <2>4. sets' = [sets EXCEPT !.got = P, !.full = full, !.at = "next"]
    BY <2>1, <2>2, <2>3
  <2>5. \/ ~full /\ (P = <<>> \/ P = Members)
        \/ full /\ ChainPage \in 0..Len(Members) /\ P = Prefix(ChainPage)
    <3>1. CASE ~ok
      BY <3>1, <2>2, <2>3, BlockSettings
    <3>2. CASE ok
      <4>1. 0 \in 0..Len(Members) /\ (1 - 1) * ChainPage = 0 /\ 0 + ChainPage = ChainPage
        BY BlockSettings
      <4>2. P = Slice(Members, 0, ChainPage)
        BY <3>2, <2>2, <4>1 DEF ChainAnswers
      <4>3. Prefix(0) \o P = P
        <5>1. Prefix(0) = <<>>
          BY <4>1, PrefixIs, EmptySeq
        <5>2. PICK S : S = ToSet(Members)
          OBVIOUS
        <5>2m. PICK m \in Seq(S) : m = Members
          BY <5>2, BlockSettings
        <5>3. P \in Seq(S)
          BY <5>2, <5>2m, <4>2, BlockSettings DEF Slice
        <5> QED
          BY <5>1, <5>3
      <4>4. \/ /\ 0 + ChainPage <= Len(Members) /\ Len(P) = ChainPage
               /\ Prefix(0) \o P = Prefix(0 + ChainPage)
            \/ Len(P) # ChainPage /\ Prefix(0) \o P = Members
        BY <4>1, <4>2, PageContinues
      <4>5. Len(Members) \in Nat
        BY <4>1, PrefixIs
      <4>6. \/ ChainPage <= Len(Members) /\ Len(P) = ChainPage /\ P = Prefix(ChainPage)
            \/ Len(P) # ChainPage /\ P = Members
        BY <4>1, <4>3, <4>4
      <4>7. ChainPage <= Len(Members) => ChainPage \in 0..Len(Members)
        BY <4>5, BlockSettings
      <4> QED
        BY <4>6, <4>7, <2>3
    <3> QED
      BY <3>1, <3>2
  <2>6. sets.page = 1 /\ 1 * ChainPage = ChainPage
    BY <1>2, BlockSettings DEF QueryFirstPage
  <2> QED
    BY <2>4, <2>5, <2>6 DEF GotIsPrefix, PowerIsWhole
<1>3. CASE QueryNextPage
  <2>1. PICK ok \in BOOLEAN :
          LET P == ChainAnswers(sets.page + 1) IN
          sets' = [sets EXCEPT
               !.page = @ + 1, !.full = ok /\ Len(P) = ChainPage,
               !.got = IF ok THEN @ \o P ELSE WithLostPage(@)]
    BY <1>3 DEF QueryNextPage
  <2>2. PICK P : P = ChainAnswers(sets.page + 1)
    OBVIOUS
  <2>3. PICK full \in BOOLEAN : full <=> ok /\ Len(P) = ChainPage
    OBVIOUS
  <2>4. PICK got : got = IF ok THEN sets.got \o P ELSE WithLostPage(sets.got)
    OBVIOUS
  <2>5. sets' = [sets EXCEPT !.page = sets.page + 1, !.full = full, !.got = got]
    BY <2>1, <2>2, <2>3, <2>4
  <2>6. sets.at = "next" /\ sets.full /\ GotIsPrefix
    BY <1>3 DEF QueryNextPage
  <2>7. PICK b \in 0..Len(Members) : b = sets.page * ChainPage /\ sets.got = Prefix(b)
    BY <2>6 DEF GotIsPrefix
  <2>8. (sets.page + 1) * ChainPage = b + ChainPage /\ ((sets.page + 1) - 1) * ChainPage = b
    BY <2>7, BlockSettings
  <2>9. P = Slice(Members, b, ChainPage)
    BY <2>2, <2>8 DEF ChainAnswers
  <2>10. \/ ~full /\ got = Members
         \/ ~full /\ got = Append(Prefix(b), Undefined)
         \/ full /\ b + ChainPage \in 0..Len(Members) /\ got = Prefix(b + ChainPage)
    <3>1. CASE ~ok
      BY <3>1, <2>3, <2>4, <2>7 DEF WithLostPage
    <3>2. CASE ok
      <4>1. \/ /\ b + ChainPage <= Len(Members) /\ Len(P) = ChainPage
               /\ Prefix(b) \o P = Prefix(b + ChainPage)
            \/ Len(P) # ChainPage /\ Prefix(b) \o P = Members
        BY <2>9, PageContinues
      <4>2. got = Prefix(b) \o P /\ b + ChainPage \in Nat /\ Len(Members) \in Nat
        <5>1. got = Prefix(b) \o P
          BY <3>2, <2>4, <2>7
        <5> QED
          BY <5>1, BlockSettings, PrefixIs
      <4> QED
        BY <3>2, <2>3, <4>1, <4>2
    <3> QED
      BY <3>1, <3>2
  <2> QED
    BY <2>5, <2>6, <2>8, <2>10 DEF GotIsPrefix, PowerIsWhole
<1>4. CASE SumPower
  <2>1. sets.at = "next" /\ ~sets.full /\ sets.what = "power" /\ GotIsPrefix
    BY <1>4 DEF SumPower
  <2>2. CASE Undefined \in ToSet(sets.got)
    <3>1. sets' = [sets EXCEPT !.at = "failed"]
      BY <1>4, <2>2 DEF SumPower
    <3> QED
      BY <3>1 DEF PowerIsWhole
  <2>3. CASE Undefined \notin ToSet(sets.got)
    <3>1. PICK a, b : a = PowerIn(sets.got)
              /\ b = PowerAt(sets.got, {i \in DOMAIN sets.got : sets.got[i] \in Signers})
      OBVIOUS
    <3>2. sets' = [sets EXCEPT !.at = "done", !.total = a, !.count = Len(sets.got),
                               !.precommit = b]
      BY <1>4, <2>3, <3>1 DEF SumPower
    <3>3. sets.got = <<>> \/ sets.got = Members
      <4>1. ASSUME NEW k \in 0..Len(Members), sets.got = Append(Prefix(k), Undefined)
            PROVE  FALSE
        <5>1. Append(Prefix(k), Undefined)[k + 1] = Undefined
              /\ k + 1 \in 1..Len(Append(Prefix(k), Undefined))
          BY PrefixIs
        <5>2. Undefined \in ToSet(sets.got)
          BY <4>1, <5>1, PrefixIs DEF ToSet
        <5> QED
          BY <5>2, <2>3
      <4> QED
        BY <4>1, <2>1 DEF GotIsPrefix
    <3>4. sets.got = Members => b <= a
      BY <3>1, PowerOfSome
    <3> QED
      BY <3>1, <3>2, <3>3, <3>4, <2>1 DEF PowerIsWhole
  <2> QED
    BY <2>2, <2>3
<1>5. CASE AnswerSlice
  <2>1. sets.at = "next" /\ ~sets.full /\ sets.what = "slice" /\ GotIsPrefix
    BY <1>5 DEF AnswerSlice
  <2>2. PICK data : data = Slice(sets.got, sets.from, sets.size)
    OBVIOUS
  <2>3. CASE Undefined \in ToSet(data)
    <3>1. sets' = [sets EXCEPT !.at = "failed"]
      BY <1>5, <2>2, <2>3 DEF AnswerSlice
    <3> QED
      BY <3>1 DEF PowerIsWhole
  <2>4. CASE Undefined \notin ToSet(data)
    <3>1. sets' = [sets EXCEPT !.at = "done", !.count = Len(sets.got), !.got = data]
      BY <1>5, <2>2, <2>4 DEF AnswerSlice
    <3>2. data = <<>> \/ data = Slice(Members, sets.from, sets.size)
      <4>1. CASE sets.got = Members
        BY <4>1, <2>2
      <4>2. CASE sets.got = <<>>
        BY <4>2, <2>2 DEF Slice
      <4>3. ASSUME NEW k \in 0..Len(Members), sets.got = Append(Prefix(k), Undefined)
            PROVE  data = <<>> \/ data = Slice(Members, sets.from, sets.size)
        BY <4>3, <2>2, <2>4, SliceFits
      <4> QED
        BY <4>1, <4>2, <4>3, <2>1 DEF GotIsPrefix
    <3> QED
      BY <3>1, <3>2, <2>1 DEF PowerIsWhole
  <2> QED
    BY <2>3, <2>4
<1>6. CASE UNCHANGED sets
  BY <1>6 DEF PowerIsWhole, GotIsPrefix
<1> QED
  BY <1>1, <1>2, <1>3, <1>4, <1>5, <1>6 DEF SetsNext

(* No answer has a part of the power: a page that is lost makes the        *)
(* request fail, or leaves it without any validator.                       *)
THEOREM PowerIsNeverPartial == SetsSpec => []PowerIsWhole
<1>1. SetsInv => PowerIsWhole
  BY DEF SetsInv
<1> QED
  BY <1>1, SetsInit_Inv, SetsStep, PTL DEF SetsSpec

(***************************************************************************)
(* RichList.                                                               *)
(***************************************************************************)
LEMMA ClassSizes ==
    /\ Len(Classes) \in Nat /\ IsFiniteSet(Places)
    /\ \A c \in Places : Classes[c] \in Nat \ {0} /\ c \in Nat \ {0}
<1>1. PICK m \in Seq(Nat \ {0}) : m = Classes
  BY RichListSettings
<1>2. Len(m) \in Nat /\ \A c \in 1..Len(m) : m[c] \in Nat \ {0} /\ c \in Nat \ {0}
  BY <1>1
<1> QED
  BY <1>1, <1>2, FS_Interval DEF Places

(* A sum of naturals over a part is at most that over the whole. *)
LEMMA SumOfSome ==
    ASSUME NEW S, IsFiniteSet(S), NEW T \in SUBSET S, NEW f, \A x \in S : f[x] \in Nat
    PROVE  Sum(f, T) <= Sum(f, S)
<1>1. IsFiniteSet(T) /\ IsFiniteSet(S \ T) /\ T \cup (S \ T) = S
  BY FS_Subset
<1>2. Sum(f, T \cup (S \ T)) = Sum(f, T) + Sum(f, S \ T)
  BY <1>1, SumOfUnion
<1>3. Sum(f, T) \in Nat /\ Sum(f, S \ T) \in Nat
  BY <1>1, SumsAreNat
<1>4. Sum(f, S) = Sum(f, T) + Sum(f, S \ T)
  BY <1>1, <1>2
<1> QED
  BY <1>3, <1>4

(* The accounts before a class: those of the classes before it. *)
LEMMA BeforeGrows ==
    ASSUME NEW c \in Places
    PROVE  /\ Before(c) \in Nat
           /\ \A d \in Places : c < d => Before(c) + Classes[c] <= Before(d)
           /\ c - 1 \in Places => Before(c) = Before(c - 1) + Classes[c - 1]
<1>1. IsFiniteSet(Places) /\ \A k \in Places : Classes[k] \in Nat
  BY ClassSizes
<1>2. \A d \in Places : /\ 1..d - 1 \in SUBSET Places /\ IsFiniteSet(1..d - 1)
                        /\ Before(d) = Sum(Classes, 1..d - 1)
  BY <1>1, ClassSizes, FS_Subset DEF Places, Before, Sums, Sum
<1>3. ASSUME NEW d \in Places
      PROVE  Sum(Classes, 1..d) = Classes[d] + Before(d)
  <2>1. 1..d \in SUBSET Places /\ IsFiniteSet(1..d) /\ d \in 1..d /\ (1..d) \ {d} = 1..d - 1
    BY <1>1, ClassSizes, FS_Subset DEF Places
  <2>2. \A x \in 1..d : Classes[x] \in Int
    BY <2>1, <1>1
  <2>3. Sum(Classes, 1..d) = Classes[d] + Sum(Classes, (1..d) \ {d})
    BY <2>1, <2>2, SumPeels
  <2> QED
    BY <2>1, <2>3, <1>2
<1>4. \A d \in Places : Before(d) \in Nat
  <2>1. ASSUME NEW d \in Places
        PROVE  Before(d) \in Nat
    <3>1. \A x \in 1..d - 1 : Classes[x] \in Nat
      BY <1>1, <1>2
    <3> QED
      BY <1>2, <3>1, SumsAreNat
  <2> QED
    BY <2>1
<1>5. ASSUME NEW d \in Places, c < d
      PROVE  Before(c) + Classes[c] <= Before(d)
  <2>1. 1..c \in SUBSET (1..d - 1)
    BY <1>5, ClassSizes DEF Places
  <2>2. \A x \in 1..d - 1 : Classes[x] \in Nat
    BY <1>1, <1>2
  <2>3. Sum(Classes, 1..c) <= Sum(Classes, 1..d - 1)
    BY <2>1, <2>2, <1>2, SumOfSome
  <2> QED
    BY <2>3, <1>2, <1>3, <1>4, <1>1
<1>6. ASSUME c - 1 \in Places
      PROVE  Before(c) = Before(c - 1) + Classes[c - 1]
  <2>1. Sum(Classes, 1..c - 1) = Classes[c - 1] + Before(c - 1)
    BY <1>6, <1>3
  <2> QED
    BY <2>1, <1>2, <1>4, <1>1, <1>6
<1> QED
  BY <1>4, <1>5, <1>6

(* A list of the richest: every account once, in falling order. *)
IsRanking(list) ==
    /\ list \in Seq(Holders)
    /\ \A i, j \in 1..Len(list) :
           i < j => list[i] # list[j] /\ totalOf[list[i]] >= totalOf[list[j]]

LEMMA RankingsAreRead ==
    ASSUME NEW list \in QueryAccountsTotalLimit
    PROVE  IsRanking(list)
<1> DEFINE n == Cardinality(Holders)
<1>1. n \in Nat
  BY RichListSettings, FS_CardinalityType
<1>2. PICK s \in [1..n -> Holders] :
          /\ \A i, j \in 1..n : i # j => s[i] # s[j]
          /\ \A i, j \in 1..Len(s) : i < j => totalOf[s[i]] >= totalOf[s[j]]
          /\ list = SubSeq(s, 1, IF Len(s) < ListLimit THEN Len(s) ELSE ListLimit)
  BY DEF QueryAccountsTotalLimit, SetToSeqs
<1>3. s \in Seq(Holders) /\ Len(s) = n
  BY <1>1, <1>2
<1>4. ListLimit \in Nat
  <2>1. \A k \in Places : Classes[k] \in Nat
    BY ClassSizes
  <2> QED
    BY <2>1, ClassSizes, SumsAreNat DEF ListLimit, Sums, Sum
<1>5. PICK t \in 0..n : list = SubSeq(s, 1, t)
  <2>1. PICK t : t = IF Len(s) < ListLimit THEN Len(s) ELSE ListLimit
    OBVIOUS
  <2>2. t \in 0..n
    <3> HIDE DEF n
    <3> QED
      BY <2>1, <1>1, <1>3, <1>4
  <2> HIDE DEF n
  <2> QED
    BY <2>1, <2>2, <1>2
<1>6. list \in Seq(Holders) /\ Len(list) = t /\ \A i \in 1..t : list[i] = s[i]
  <2> HIDE DEF n
  <2> QED
    BY <1>1, <1>3, <1>5
<1> HIDE DEF n
<1> QED
  BY <1>1, <1>2, <1>3, <1>5, <1>6 DEF IsRanking

(* The places of a class in the list. *)
PlacesOf(list, c) == {j \in 1..Len(list) : Before(c) < j /\ j <= Before(c) + Classes[c]}

LEMMA ClassIs ==
    ASSUME NEW list, IsRanking(list), NEW c \in Places
    PROVE  /\ ClassOf(list, c) \in SUBSET Holders /\ IsFiniteSet(ClassOf(list, c))
           /\ Cardinality(ClassOf(list, c)) \in Nat
           /\ Cardinality(ClassOf(list, c)) <= Classes[c]
           /\ Before(c) + Classes[c] <= Len(list) =>
                  Cardinality(ClassOf(list, c)) = Classes[c]
<1> DEFINE I == PlacesOf(list, c)
           C == ClassOf(list, c)
           b == Before(c)
           n == Classes[c]
           J == (b + 1)..(b + n)
           g == [i \in I |-> list[i]]
<1>1. b \in Nat /\ n \in Nat \ {0} /\ list \in Seq(Holders) /\ Len(list) \in Nat
  BY BeforeGrows, ClassSizes DEF IsRanking
<1>2. C = {list[i] : i \in I}
  BY DEF ClassOf, PlacesOf
<1>3. C \in SUBSET Holders /\ I \in SUBSET (1..Len(list))
  BY <1>1, <1>2 DEF PlacesOf
<1>4. IsFiniteSet(C)
  BY <1>3, RichListSettings, FS_Subset
<1>5. I \in SUBSET J /\ (b + n <= Len(list) => I = J)
  <2> HIDE DEF b, n
  <2> QED
    BY <1>1 DEF PlacesOf, b, n
<1>6. IsFiniteSet(J) /\ Cardinality(J) = n
  <2>1. b + 1 \in Int /\ b + n \in Int /\ ~(b + 1 > b + n) /\ (b + n) - (b + 1) + 1 = n
    <3> HIDE DEF b, n
    <3> QED
      BY <1>1
  <2> HIDE DEF b, n
  <2> QED
    BY <2>1, FS_Interval
<1>7. IsFiniteSet(I) /\ Cardinality(I) <= n /\ Cardinality(I) \in Nat
  <2> HIDE DEF I, J, n
  <2> QED
    BY <1>5, <1>6, FS_Subset, FS_CardinalityType
<1>8. g \in Bijection(I, C)
  <2>1. g \in [I -> C]
    BY <1>2
  <2>2. \A i, j \in I : list[i] = list[j] => i = j
    BY <1>3, <1>1 DEF IsRanking
  <2>3. \A x \in C : \E i \in I : g[i] = x
    BY <1>2
  <2> HIDE DEF I, C
  <2> QED
    BY <2>1, <2>2, <2>3 DEF Bijection, Injection, Surjection, IsInjective
<1>9. Cardinality(C) = Cardinality(I)
  <2> HIDE DEF g, I, C
  <2> QED
    BY <1>7, <1>8, FS_Bijection DEF ExistsBijection
<1> HIDE DEF I, J, C
<1> QED
  BY <1>3, <1>4, <1>5, <1>6, <1>7, <1>9 DEF C, b, n

(* No account is in two classes. *)
LEMMA ClassesAreDisjoint ==
    ASSUME NEW list, IsRanking(list), NEW c \in Places, NEW d \in Places,
           NEW x \in ClassOf(list, c), x \in ClassOf(list, d)
    PROVE  c = d
<1>1. PICK i \in PlacesOf(list, c), j \in PlacesOf(list, d) : x = list[i] /\ x = list[j]
  BY DEF ClassOf, PlacesOf
<1>2. i \in 1..Len(list) /\ j \in 1..Len(list) /\ Len(list) \in Nat
  BY DEF PlacesOf, IsRanking
<1>3. i = j
  <2>1. list[i] = list[j] /\ (i < j \/ j < i \/ i = j)
    BY <1>1, <1>2
  <2> QED
    BY <2>1, <1>2 DEF IsRanking
<1>4. /\ Before(c) < i /\ i <= Before(c) + Classes[c]
      /\ Before(d) < i /\ i <= Before(d) + Classes[d]
  BY <1>1, <1>3 DEF PlacesOf
<1>5. /\ Before(c) \in Nat /\ Before(d) \in Nat /\ c \in Nat /\ d \in Nat
      /\ Classes[c] \in Nat /\ Classes[d] \in Nat
  BY BeforeGrows, ClassSizes
<1>6. ~(c < d) /\ ~(d < c)
  <2>1. c < d => Before(c) + Classes[c] <= Before(d)
    BY BeforeGrows
  <2>2. d < c => Before(d) + Classes[d] <= Before(c)
    BY BeforeGrows
  <2> QED
    BY <2>1, <2>2, <1>2, <1>4, <1>5
<1> QED
  BY <1>5, <1>6

(* What the classes have is what some of the accounts have. *)
LEMMA ClassesHaveSome ==
    ASSUME totalOf \in [Holders -> Nat], NEW list, IsRanking(list),
           NEW sums, sums = [c \in Places |-> Sums(totalOf, ClassOf(list, c))]
    PROVE  /\ \A c \in Places : sums[c] \in Nat
           /\ Sums(sums, Places) \in Nat
           /\ Sums(sums, Places) <= Sums(totalOf, Holders)
<1> DEFINE share == [c \in Places |-> ClassOf(list, c)]
           label == [x \in Holders |->
                        IF \E c \in Places : x \in share[c]
                        THEN CHOOSE c \in Places : x \in share[c] ELSE 0]
           W == {x \in Holders : label[x] \in Places}
<1>1. /\ \A c \in Places : share[c] \in SUBSET Holders /\ IsFiniteSet(share[c])
                           /\ sums[c] = Sum(totalOf, share[c])
      /\ \A x \in Holders : totalOf[x] \in Nat
  BY ClassIs DEF Sums, Sum
<1>2. \A c \in Places : \A x \in Holders : x \in share[c] <=> label[x] = c
  <2>1. \A c, d \in Places : \A x \in share[c] : x \in share[d] => c = d
    BY ClassesAreDisjoint
  <2>2. 0 \notin Places
    BY ClassSizes
  <2> HIDE DEF share
  <2> QED
    BY <2>1, <2>2
<1>3. \A c \in Places : sums[c] \in Nat
  <2>1. ASSUME NEW c \in Places
        PROVE  sums[c] \in Nat
    <3>1. \A x \in share[c] : totalOf[x] \in Nat
      BY <1>1
    <3> HIDE DEF share
    <3> QED
      BY <1>1, <3>1, SumsAreNat
  <2> QED
    BY <2>1
<1>4. Sum(sums, Places) = Sum(totalOf, W)
  <2>1. /\ IsFiniteSet(Holders) /\ IsFiniteSet(Places)
        /\ \A x \in Holders : totalOf[x] \in Int
        /\ \A c \in Places : share[c] \in SUBSET Holders
        /\ W \in SUBSET Holders /\ \A x \in Holders : x \in W <=> label[x] \in Places
        /\ \A c \in Places : sums[c] = Sum(totalOf, share[c])
    BY <1>1, RichListSettings, ClassSizes
  <2> HIDE DEF share, label, W
  <2> QED
    BY <2>1, <1>2, SumOfParts
<1>5. Sum(totalOf, W) <= Sum(totalOf, Holders)
  <2>1. W \in SUBSET Holders
    OBVIOUS
  <2> HIDE DEF W
  <2> QED
    BY <2>1, <1>1, RichListSettings, SumOfSome
<1>6. Sum(sums, Places) \in Nat
  BY <1>3, ClassSizes, SumsAreNat
<1> QED
  BY <1>3, <1>4, <1>5, <1>6 DEF Sums, Sum

(* No account of a class is poorer than one of the next class. *)
LEMMA ClassesFall ==
    ASSUME totalOf \in [Holders -> Nat], NEW list, IsRanking(list),
           NEW c \in Places \ {1}
    PROVE  Sums(totalOf, ClassOf(list, c - 1)) * Classes[c]
               >= Sums(totalOf, ClassOf(list, c)) * Classes[c - 1]
<1> DEFINE A == ClassOf(list, c - 1)
           B == ClassOf(list, c)
           a == Classes[c - 1]
           b == Classes[c]
           p == Before(c)
<1>1. c - 1 \in Places /\ c \in Places /\ a \in Nat \ {0} /\ b \in Nat \ {0}
  <2>1. c - 1 \in Places
    BY ClassSizes DEF Places
  <2> QED
    BY <2>1, ClassSizes
<1>2. p \in Nat /\ Before(c - 1) \in Nat /\ p = Before(c - 1) + a
  BY <1>1, BeforeGrows
<1>3. /\ A \in SUBSET Holders /\ IsFiniteSet(A) /\ Cardinality(A) \in Nat
      /\ B \in SUBSET Holders /\ IsFiniteSet(B) /\ Cardinality(B) \in Nat
      /\ Cardinality(B) <= b
      /\ p <= Len(list) => Cardinality(A) = a
  <2>1. Before(c - 1) + Classes[c - 1] = p
    <3> HIDE DEF p, a
    <3> QED
      BY <1>1, <1>2 DEF a
  <2>2. /\ A \in SUBSET Holders /\ IsFiniteSet(A) /\ Cardinality(A) \in Nat
        /\ p <= Len(list) => Cardinality(A) = a
    <3> HIDE DEF p
    <3> QED
      BY <2>1, <1>1, ClassIs
  <2>3. /\ B \in SUBSET Holders /\ IsFiniteSet(B) /\ Cardinality(B) \in Nat
        /\ Cardinality(B) <= b
    BY <1>1, ClassIs
  <2> HIDE DEF A, B, a, b, p
  <2> QED
    BY <2>2, <2>3
<1>4. \A x \in Holders : totalOf[x] \in Nat
  OBVIOUS
<1>5. /\ Sums(totalOf, A) = Sum(totalOf, A) /\ Sums(totalOf, B) = Sum(totalOf, B)
      /\ Sum(totalOf, A) \in Nat /\ Sum(totalOf, B) \in Nat
  <2>1. (\A x \in A : totalOf[x] \in Nat) /\ \A x \in B : totalOf[x] \in Nat
    <3> HIDE DEF A, B
    <3> QED
      BY <1>3, <1>4
  <2> HIDE DEF A, B
  <2> QED
    BY <2>1, <1>3, SumsAreNat DEF Sums, Sum
<1>6. CASE B = {}
  <2>1. Sum(totalOf, B) = 0
    <3> HIDE DEF B
    <3> QED
      BY <1>6, SumOfNone
  <2>2. ASSUME NEW u \in Nat
        PROVE  u * b >= 0 * a
    <3> HIDE DEF a, b
    <3> QED
      BY <1>1
  <2> HIDE DEF A, B, a, b
  <2> QED
    BY <2>1, <2>2, <1>5 DEF A, B, a, b
<1>7. CASE B # {}
  <2>1. PICK k \in PlacesOf(list, c) : TRUE
    BY <1>7 DEF ClassOf, PlacesOf
  <2>2. Len(list) \in Nat /\ p \in 1..Len(list) /\ list \in Seq(Holders)
    <3>1. k \in 1..Len(list) /\ p < k /\ Len(list) \in Nat /\ list \in Seq(Holders)
      BY <2>1 DEF PlacesOf, IsRanking
    <3> HIDE DEF a, p
    <3> QED
      BY <3>1, <1>1, <1>2
  <2>3. PICK m \in Nat : m = totalOf[list[p]]
    <3> HIDE DEF p
    <3> QED
      BY <2>2, <1>4
  <2>4. \A x \in A : totalOf[x] >= m
    <3>1. ASSUME NEW x \in A
          PROVE  totalOf[x] >= m
      <4>1. PICK i \in PlacesOf(list, c - 1) : x = list[i]
        BY DEF ClassOf, PlacesOf
      <4>2. i \in 1..Len(list) /\ i <= p
        <5>1. i \in 1..Len(list) /\ i <= Before(c - 1) + a
          BY DEF PlacesOf
        <5> HIDE DEF p, a
        <5> QED
          BY <5>1, <1>2
      <4> HIDE DEF p, A
      <4>3. CASE i = p
        BY <4>1, <4>3, <2>3
      <4>4. CASE i # p
        <5>1. i < p
          BY <4>2, <4>4, <2>2
        <5> QED
          BY <5>1, <4>1, <4>2, <2>2, <2>3 DEF IsRanking
      <4> QED
        BY <4>3, <4>4
    <3> QED
      BY <3>1
  <2>5. \A x \in B : totalOf[x] <= m
    <3>1. ASSUME NEW x \in B
          PROVE  totalOf[x] <= m
      <4>1. PICK i \in PlacesOf(list, c) : x = list[i]
        BY DEF ClassOf, PlacesOf
      <4>2. i \in 1..Len(list) /\ p < i
        BY DEF PlacesOf
      <4>3. totalOf[list[p]] >= totalOf[list[i]]
        <5> HIDE DEF p
        <5> QED
          BY <4>2, <2>2 DEF IsRanking
      <4>4. totalOf[x] \in Nat
        <5> HIDE DEF B
        <5> QED
          BY <1>3, <1>4
      <4> HIDE DEF p
      <4> QED
        BY <4>1, <4>3, <4>4, <2>3
    <3> QED
      BY <3>1
  <2>6. Cardinality(A) = a
    <3> HIDE DEF A, a, p
    <3> QED
      BY <1>3, <2>2
  <2> DEFINE f == [x \in Holders |-> m]
  <2>7. Sum(totalOf, A) >= m * a
    <3>1. \A x \in A : f[x] = m /\ f[x] \in Int /\ totalOf[x] \in Int /\ f[x] <= totalOf[x]
      <4> HIDE DEF A
      <4> QED
        BY <1>3, <1>4, <2>4
    <3> HIDE DEF f, A
    <3>2. Sum(f, A) = m * Cardinality(A)
      BY <3>1, <1>3, SumOfEqual
    <3>3. Sum(f, A) <= Sum(totalOf, A)
      BY <3>1, <1>3, SumsCompare
    <3>4. m * a \in Int
      <4> HIDE DEF a
      <4> QED
        BY <1>1
    <3> HIDE DEF a
    <3> QED
      BY <3>2, <3>3, <3>4, <2>6, <1>5
  <2>8. Sum(totalOf, B) <= m * b
    <3>1. \A x \in B : f[x] = m /\ f[x] \in Int /\ totalOf[x] \in Int /\ totalOf[x] <= f[x]
      <4> HIDE DEF B
      <4> QED
        BY <1>3, <1>4, <2>5
    <3> HIDE DEF f, B
    <3>2. Sum(f, B) = m * Cardinality(B)
      <4>1. IsFiniteSet(B) /\ m \in Int /\ \A x \in B : f[x] = m
        BY <3>1, <1>3
      <4> QED
        BY <4>1, SumOfEqual
    <3>3. Sum(totalOf, B) <= Sum(f, B)
      BY <3>1, <1>3, SumsCompare
    <3>4. ASSUME NEW n \in Nat, n <= b
          PROVE  m * n <= m * b /\ m * n \in Int /\ m * b \in Int
      <4> HIDE DEF b
      <4> QED
        BY <1>1, <3>4
    <3> HIDE DEF b
    <3> QED
      BY <3>2, <3>3, <3>4, <1>3, <1>5
  <2>9. ASSUME NEW u \in Nat, NEW v \in Nat, u >= m * a, v <= m * b
        PROVE  u * b >= v * a
    <3> HIDE DEF a, b
    <3>1. u * b >= (m * a) * b
      BY <1>1, <2>9
    <3>2. v * a <= (m * b) * a
      BY <1>1, <2>9
    <3>3. (m * a) * b = (m * b) * a /\ (m * a) * b \in Int /\ u * b \in Int /\ v * a \in Int
      BY <1>1
    <3> QED
      BY <3>1, <3>2, <3>3
  <2>10. Sum(totalOf, A) * b >= Sum(totalOf, B) * a
    <3> HIDE DEF A, B, a, b
    <3> QED
      BY <2>7, <2>8, <2>9, <1>5
  <2> HIDE DEF A, B, a, b
  <2> QED
    BY <2>10, <1>5 DEF A, B, a, b
<1> QED
  BY <1>6, <1>7

(* The sum that was read is that of all accounts while none has changed. *)
RichInv ==
    /\ totalOf \in [Holders -> Nat]
    /\ DOMAIN rich = {"at", "tokens", "classes", "last", "steady"}
    /\ rich.at \in {"tokens", "list", "done"} /\ rich.tokens \in Int
    /\ sentinel \in BOOLEAN
    /\ rich.at = "list" /\ rich.steady => rich.tokens = QueryTokenTotal
    /\ ClassesAddUp

LEMMA RichInit_Inv == RichInit => RichInv
  BY RichListSettings DEF RichInit, RichInv, ClassesAddUp

LEMMA RichStep == RichInv /\ [RichNext]_richVars => RichInv'
<1> SUFFICES ASSUME RichInv, [RichNext]_richVars
             PROVE  RichInv'
  OBVIOUS
<1>0. IsFiniteSet(Holders) /\ \A x \in Holders : totalOf[x] \in Nat
  BY RichListSettings DEF RichInv
<1>1. ASSUME NEW a \in Holders, UpdateTotal(a)
      PROVE  RichInv'
  <2>0. sentinel' = sentinel
    BY <1>1 DEF UpdateTotal
  <2>1. totalOf' \in [Holders -> Nat]
    <3>1. PICK n \in 0..TopTotal : totalOf' = [totalOf EXCEPT ![a] = n]
      BY <1>1 DEF UpdateTotal
    <3> QED
      BY <3>1, RichListSettings DEF RichInv
  <2>2. CASE rich.at = "list"
    <3>1. rich' = [rich EXCEPT !.steady = FALSE]
      BY <2>2, <1>1 DEF UpdateTotal
    <3> QED
      BY <2>0, <2>1, <2>2, <3>1 DEF RichInv, ClassesAddUp
  <2>3. CASE rich.at # "list"
    <3>1. rich' = rich
      BY <2>3, <1>1 DEF UpdateTotal
    <3> QED
      BY <2>0, <2>1, <2>3, <3>1 DEF RichInv, ClassesAddUp
  <2> QED
    BY <2>2, <2>3
<1>2. CASE ReadTokens
  <2>1. PICK t : t = QueryTokenTotal
    OBVIOUS
  <2>2. t \in Int
    <3>1. Sums(totalOf, Holders) \in Int
      BY <1>0, SumsAreNat DEF Sums, Sum
    <3> QED
      BY <2>1, <3>1 DEF QueryTokenTotal
  <2>3. /\ rich' = [rich EXCEPT !.at = "list", !.tokens = t]
        /\ totalOf' = totalOf /\ sentinel' = sentinel
    BY <1>2, <2>1 DEF ReadTokens
  <2>4. QueryTokenTotal' = t
    BY <2>1, <2>3 DEF QueryTokenTotal, Sums
  <2> QED
    BY <2>2, <2>3, <2>4 DEF RichInv, ClassesAddUp
<1>3. CASE ReadRichest
  <2>1. PICK list \in QueryAccountsTotalLimit :
          LET sums == [c \in Places |-> Sums(totalOf, ClassOf(list, c))] IN
           rich' = [rich EXCEPT
               !.at = "done", !.classes = sums,
               !.last = LastAmount(rich.tokens, Sums(sums, Places))]
    BY <1>3 DEF ReadRichest
  <2>2. PICK sums : sums = [c \in Places |-> Sums(totalOf, ClassOf(list, c))]
    OBVIOUS
  <2>3. PICK last : last = LastAmount(rich.tokens, Sums(sums, Places))
    OBVIOUS
  <2>4. rich' = [rich EXCEPT !.at = "done", !.classes = sums, !.last = last]
    BY <2>1, <2>2, <2>3
  <2>5. IsRanking(list)
    BY RankingsAreRead
  <2>6. /\ \A c \in Places : sums[c] \in Nat
        /\ Sums(sums, Places) \in Nat
        /\ Sums(sums, Places) <= Sums(totalOf, Holders)
    BY <2>2, <2>5, ClassesHaveSome DEF RichInv
  <2>7. \A c \in Places \ {1} : sums[c - 1] * Classes[c] >= sums[c] * Classes[c - 1]
    <3>1. ASSUME NEW c \in Places \ {1}
          PROVE  sums[c - 1] * Classes[c] >= sums[c] * Classes[c - 1]
      <4>1. c - 1 \in Places
        BY ClassSizes DEF Places
      <4>2. Sums(totalOf, ClassOf(list, c - 1)) * Classes[c]
               >= Sums(totalOf, ClassOf(list, c)) * Classes[c - 1]
        BY <2>5, ClassesFall DEF RichInv
      <4> QED
        BY <4>1, <4>2, <2>2
    <3> QED
      BY <3>1
  <2>8. Sums(totalOf, Holders) \in Nat
    BY <1>0, SumsAreNat DEF Sums, Sum
  <2>9. /\ rich.tokens \in Int
        /\ rich.steady => \/ rich.tokens = Sums(totalOf, Holders)
                          \/ sentinel /\ rich.tokens = Sums(totalOf, Holders) - 1
    <3> DEFINE s == Sums(totalOf, Holders)
    <3>1. rich.steady => rich.tokens = s - (IF sentinel THEN 1 ELSE 0)
      BY <1>3 DEF ReadRichest, RichInv, QueryTokenTotal
    <3>2. rich.tokens \in Int
      BY DEF RichInv
    <3> HIDE DEF s
    <3>3. rich.steady => rich.tokens = s \/ (sentinel /\ rich.tokens = s - 1)
      BY <3>1, <2>8 DEF s
    <3> QED
      BY <3>2, <3>3 DEF s
  <2>10. /\ last \in Int /\ last >= 0
         /\ rich.steady =>
                \/ Sums(sums, Places) + last = rich.tokens
                \/ sentinel /\ last = 0 /\ Sums(sums, Places) = rich.tokens + 1
    BY <2>3, <2>6, <2>8, <2>9 DEF LastAmount
  <2>11. totalOf' = totalOf /\ sentinel' = sentinel
    BY <1>3 DEF ReadRichest
  <2>12. /\ rich'.at = "done" /\ rich'.classes = sums /\ rich'.last = last
         /\ rich'.steady = rich.steady /\ rich'.tokens = rich.tokens
         /\ DOMAIN rich' = DOMAIN rich
    BY <2>4 DEF RichInv
  <2>13. rich'.steady =>
             \/ Sums(rich'.classes, Places) + rich'.last = rich'.tokens
             \/ /\ sentinel' /\ rich'.last = 0
                /\ Sums(rich'.classes, Places) = rich'.tokens + 1
    BY <2>10, <2>11, <2>12
  <2>14. /\ rich'.last >= 0
         /\ \A c \in Places \ {1} :
                rich'.classes[c - 1] * Classes[c] >= rich'.classes[c] * Classes[c - 1]
    BY <2>7, <2>10, <2>12
  <2>15. ClassesAddUp'
    BY <2>13, <2>14 DEF ClassesAddUp
  <2> QED
    BY <2>9, <2>11, <2>12, <2>15 DEF RichInv
<1>4. CASE UNCHANGED richVars
  BY <1>4 DEF richVars, RichInv, ClassesAddUp, QueryTokenTotal, Sums
<1>5. CASE StoreSentinel
  <2>1. sentinel' = TRUE /\ totalOf' = totalOf
    BY <1>5 DEF StoreSentinel
  <2>2. CASE rich.at = "list"
    <3>1. rich' = [rich EXCEPT !.steady = FALSE]
      BY <2>2, <1>5 DEF StoreSentinel
    <3> QED
      BY <2>1, <2>2, <3>1 DEF RichInv, ClassesAddUp
  <2>3. CASE rich.at # "list"
    <3>1. rich' = rich
      BY <2>3, <1>5 DEF StoreSentinel
    <3> QED
      BY <2>1, <2>3, <3>1 DEF RichInv, ClassesAddUp
  <2> QED
    BY <2>2, <2>3
<1> QED
  BY <1>1, <1>2, <1>3, <1>4, <1>5 DEF RichNext

(* For any accounts, totals and sizes of the classes, with or without the  *)
(* sentinel: no class is short of anything, undisturbed ones add up to the *)
(* sum, or to one more for the sentinel's -1, and they fall.               *)
THEOREM RichClassesAddUp == RichSpec => []ClassesAddUp
<1>1. RichInv => ClassesAddUp
  BY DEF RichInv
<1> QED
  BY <1>1, RichInit_Inv, RichStep, PTL DEF RichSpec

(***************************************************************************)
(* EdgeFeed.                                                               *)
(***************************************************************************)

(* Removing a place removes what stands there, and nothing else. *)
LEMMA RemovedAt ==
    ASSUME NEW S, NEW r \in Seq(S), NEW i \in 1..Len(r)
    PROVE  /\ RemoveAt(r, i) \in Seq(S) /\ Len(RemoveAt(r, i)) = Len(r) - 1
           /\ \A j \in 1..Len(r) - 1 : RemoveAt(r, i)[j] = IF j < i THEN r[j] ELSE r[j + 1]
<1> DEFINE A == SubSeq(r, 1, i - 1)
           B == SubSeq(r, i + 1, Len(r))
<1>1. Len(r) \in Nat /\ i \in Nat \ {0}
  OBVIOUS
<1>2. /\ A \in Seq(S) /\ Len(A) = i - 1 /\ \A j \in 1..i - 1 : A[j] = r[j]
      /\ B \in Seq(S) /\ Len(B) = Len(r) - i
      /\ \A j \in 1..Len(r) - i : B[j] = r[i + j]
  OBVIOUS
<1>3. RemoveAt(r, i) = A \o B
  BY DEF RemoveAt
<1> HIDE DEF A, B
<1>4. A \o B \in Seq(S) /\ Len(A \o B) = Len(r) - 1
  <2>1. A \in Seq(S) /\ B \in Seq(S)
    BY <1>2
  <2>2. A \o B \in Seq(S) /\ Len(A \o B) = Len(A) + Len(B)
    BY <2>1, ConcatProperties
  <2> QED
    BY <2>2, <1>1, <1>2
<1>5. ASSUME NEW j \in 1..Len(r) - 1
      PROVE  (A \o B)[j] = IF j < i THEN r[j] ELSE r[j + 1]
  <2>1. (A \o B)[j] = IF j <= Len(A) THEN A[j] ELSE B[j - Len(A)]
    <3>1. j \in 1..Len(A) + Len(B)
      BY <1>1, <1>2
    <3> QED
      BY <3>1, <1>2, ConcatProperties
  <2>2. CASE j < i
    BY <2>1, <2>2, <1>1, <1>2
  <2>3. CASE ~(j < i)
    <3>1. j - (i - 1) \in 1..Len(r) - i /\ i + (j - (i - 1)) = j + 1 /\ ~(j <= i - 1)
      BY <2>3, <1>1
    <3> QED
      BY <2>1, <2>3, <3>1, <1>2
  <2> QED
    BY <2>2, <2>3
<1> QED
  BY <1>3, <1>4, <1>5

(* What a list keeps while transactions of height h are spliced out. *)
Spliced(list, h) ==
    {r \in Seq(FedTxs) :
        /\ ToSet(r) \subseteq ToSet(list)
        /\ \A i, j \in 1..Len(r) : r[i] = r[j] => i = j
        /\ \A y \in ToSet(list) : fedHeight[y] # h => y \in ToSet(r)}

LEMMA SpliceKeeps ==
    ASSUME NEW list, NEW h, NEW r \in Spliced(list, h), NEW i \in Nat \ {0}
    PROVE  Splice(r, i, h) \in Spliced(list, h)
<1>0. r \in Seq(FedTxs) /\ Len(r) \in Nat
  BY DEF Spliced
<1>1. CASE ~(i <= Len(r) /\ fedHeight[r[i]] = h)
  BY <1>1 DEF Splice
<1>2. CASE i <= Len(r) /\ fedHeight[r[i]] = h
  <2>1. i \in 1..Len(r) /\ Splice(r, i, h) = RemoveAt(r, i)
    BY <1>0, <1>2 DEF Splice
  <2>2. PICK q : q = RemoveAt(r, i)
    OBVIOUS
  <2>3. /\ q \in Seq(FedTxs) /\ Len(q) = Len(r) - 1
        /\ \A j \in 1..Len(r) - 1 : q[j] = IF j < i THEN r[j] ELSE r[j + 1]
    BY <1>0, <2>1, <2>2, RemovedAt
  <2>4. DOMAIN q = 1..Len(r) - 1 /\ DOMAIN r = 1..Len(r)
    BY <1>0, <2>3
  <2>5. ToSet(q) \subseteq ToSet(r)
    <3>1. ASSUME NEW j \in 1..Len(r) - 1
          PROVE  q[j] \in ToSet(r)
      <4>1. j \in 1..Len(r) /\ j + 1 \in 1..Len(r)
        BY <1>0
      <4> QED
        BY <4>1, <2>3, <2>4 DEF ToSet
    <3> QED
      BY <3>1, <2>4 DEF ToSet
  <2>6. \A y \in ToSet(r) : fedHeight[y] # h => y \in ToSet(q)
    <3>1. ASSUME NEW k \in 1..Len(r), fedHeight[r[k]] # h
          PROVE  r[k] \in ToSet(q)
      <4>1. k # i
        BY <3>1, <1>2
      <4>2. CASE k < i
        <5>1. k \in 1..Len(r) - 1 /\ q[k] = r[k]
          BY <4>2, <2>1, <2>3, <1>0
        <5> QED
          BY <5>1, <2>4 DEF ToSet
      <4>3. CASE k > i
        <5>1. k - 1 \in 1..Len(r) - 1 /\ ~(k - 1 < i) /\ (k - 1) + 1 = k
          BY <4>3, <2>1, <1>0
        <5>2. q[k - 1] = r[k]
          BY <5>1, <2>3
        <5> QED
          BY <5>1, <5>2, <2>4 DEF ToSet
      <4> QED
        BY <4>1, <4>2, <4>3, <2>1, <1>0
    <3> QED
      BY <3>1, <2>4 DEF ToSet
  <2>7. ASSUME NEW j \in 1..Len(q), NEW k \in 1..Len(q), q[j] = q[k]
        PROVE  j = k
    <3> DEFINE At(n) == IF n < i THEN n ELSE n + 1
    <3>1. \A n \in 1..Len(r) - 1 : At(n) \in 1..Len(r) /\ q[n] = r[At(n)]
      BY <1>0, <2>1, <2>3
    <3>2. j \in 1..Len(r) - 1 /\ k \in 1..Len(r) - 1
      BY <2>3
    <3>3. At(j) = At(k)
      <4> HIDE DEF At
      <4> QED
        BY <3>1, <3>2, <2>7 DEF Spliced
    <3> QED
      BY <3>2, <3>3, <2>1, <1>0
  <2> QED
    BY <2>1, <2>2, <2>3, <2>5, <2>6, <2>7 DEF Spliced
<1> QED
  BY <1>1, <1>2

(* There are such lists for every number of steps. *)
LEMMA SplicesExist ==
    ASSUME NEW list \in Seq(FedTxs), NEW h,
           \A i, j \in 1..Len(list) : list[i] = list[j] => i = j
    PROVE  \E f \in [0..Len(list) -> Spliced(list, h)] :
               f = [i \in 0..Len(list) |-> IF i = 0 THEN list ELSE Splice(f[i - 1], i, h)]
<1> DEFINE N == Len(list)
           V == Spliced(list, h)
           Goes(f, n) == f[0] = list /\ \A i \in 1..n : f[i] = Splice(f[i - 1], i, h)
           Q == {n \in 0..N : \E f \in [0..N -> V] : Goes(f, n)}
<1>1. N \in Nat /\ list \in V
  BY DEF Spliced
<1>2. 0 \in Q
  <2> DEFINE f == [i \in 0..N |-> list]
  <2>1. f \in [0..N -> V] /\ f[0] = list /\ 0 \in 0..N
    <3> HIDE DEF N, V
    <3> QED
      BY <1>1
  <2>2. Goes(f, 0)
    <3> HIDE DEF f
    <3> QED
      BY <2>1
  <2> HIDE DEF f, Goes, N, V
  <2> QED
    BY <2>1, <2>2
<1>3. ASSUME NEW n \in 1..N, n - 1 \in Q
      PROVE  n \in Q
  <2>1. PICK f \in [0..N -> V] : Goes(f, n - 1)
    BY <1>3
  <2>2. n \in Nat \ {0} /\ n - 1 \in 0..N /\ n \in 0..N /\ f[n - 1] \in V
    <3> HIDE DEF N, V
    <3> QED
      BY <1>1
  <2> DEFINE g == [f EXCEPT ![n] = Splice(f[n - 1], n, h)]
  <2>3. Splice(f[n - 1], n, h) \in V
    BY <2>2, SpliceKeeps
  <2>4. g \in [0..N -> V] /\ g[n] = Splice(f[n - 1], n, h) /\ \A i \in 0..n - 1 : g[i] = f[i]
    <3> HIDE DEF N, V
    <3> QED
      BY <2>2, <2>3, <1>1
  <2>5. Goes(g, n)
    <3>1. g[0] = list
      <4> HIDE DEF g, N, V
      <4> QED
        BY <2>1, <2>2, <2>4
    <3>2. ASSUME NEW i \in 1..n
          PROVE  g[i] = Splice(g[i - 1], i, h)
      <4>1. i - 1 \in 0..n - 1 /\ (i = n \/ i \in 1..n - 1)
        BY <2>2
      <4>2. g[i - 1] = f[i - 1]
        <5> HIDE DEF g
        <5> QED
          BY <4>1, <2>4
      <4>3. CASE i = n
        <5> HIDE DEF g
        <5> QED
          BY <4>2, <4>3, <2>4
      <4>4. CASE i \in 1..n - 1
        <5>1. g[i] = f[i]
          <6> HIDE DEF g
          <6> QED
            BY <4>4, <2>4
        <5> HIDE DEF g
        <5> QED
          BY <5>1, <4>2, <4>4, <2>1
      <4> QED
        BY <4>1, <4>3, <4>4
    <3> HIDE DEF g
    <3> QED
      BY <3>1, <3>2
  <2> HIDE DEF g, Goes, N, V
  <2> QED
    BY <2>2, <2>4, <2>5
<1>4. N \in Q
  <2> HIDE DEF Q, N
  <2>1. \A n \in 0..N : n \in Q
    BY <1>1, <1>2, <1>3, Climb
  <2> QED
    BY <2>1, <1>1
<1>5. PICK f \in [0..N -> V] : Goes(f, N)
  BY <1>4
<1>6. \A i \in 0..N : f[i] = IF i = 0 THEN list ELSE Splice(f[i - 1], i, h)
  <2> HIDE DEF N, V
  <2> QED
    BY <1>1, <1>5
<1>7. f = [i \in 0..N |-> IF i = 0 THEN list ELSE Splice(f[i - 1], i, h)]
  <2> HIDE DEF N, V
  <2> QED
    BY <1>6
<1> QED
  BY <1>7

(* Whatever the loop passes over, it removes only transactions of the      *)
(* height that is read again.                                              *)
LEMMA SpliceHeightKeeps ==
    ASSUME NEW list \in Seq(FedTxs), NEW h,
           \A i, j \in 1..Len(list) : list[i] = list[j] => i = j
    PROVE  SpliceHeight(list, h) \in Spliced(list, h)
<1> DEFINE Of(f) == [i \in 0..Len(list) |-> IF i = 0 THEN list ELSE Splice(f[i - 1], i, h)]
           rest == CHOOSE f : f = Of(f)
           V == Spliced(list, h)
           Q == {n \in 0..Len(list) : rest[n] \in V}
<1>1. \E f : f = Of(f)
  <2>1. PICK f \in [0..Len(list) -> V] : f = Of(f)
    BY SplicesExist
  <2> HIDE DEF Of
  <2> QED
    BY <2>1
<1>2. rest = Of(rest)
  <2> HIDE DEF Of
  <2> QED
    BY <1>1
<1>3. Len(list) \in Nat /\ list \in V
  BY DEF Spliced
<1>4. \A i \in 0..Len(list) : rest[i] = IF i = 0 THEN list ELSE Splice(rest[i - 1], i, h)
  <2> HIDE DEF rest
  <2> QED
    BY <1>2
<1>5. \A n \in 0..Len(list) : n \in Q
  <2> HIDE DEF rest
  <2>1. 0 \in Q
    BY <1>3, <1>4
  <2>2. ASSUME NEW n \in 1..Len(list), n - 1 \in Q
        PROVE  n \in Q
    <3>1. rest[n] = Splice(rest[n - 1], n, h) /\ rest[n - 1] \in V
          /\ n \in Nat \ {0} /\ n \in 0..Len(list)
      BY <2>2, <1>3, <1>4
    <3>2. rest[n] \in V
      BY <3>1, SpliceKeeps
    <3> QED
      BY <3>1, <3>2
  <2> HIDE DEF Q
  <2> QED
    BY <2>1, <2>2, <1>3, Climb
<1>6. SpliceHeight(list, h) = rest[Len(list)]
  BY DEF SpliceHeight
<1> HIDE DEF rest
<1> QED
  BY <1>3, <1>5, <1>6

(* What is read again are transactions of the height, some of a block that *)
(* is not empty and all of one within the limit.                           *)
LEMMA ReadAgain ==
    ASSUME NEW h, NEW q \in QueryTxListByHeightEdge(h)
    PROVE  /\ q \in Seq(FedTxs) /\ ToSet(q) \subseteq Block(h)
           /\ Block(h) # {} => ToSet(q) # {}
           /\ ~(Cardinality(Block(h)) > EdgeRest) => ToSet(q) = Block(h)
<1>0. /\ Block(h) \in SUBSET FedTxs /\ IsFiniteSet(Block(h))
      /\ Cardinality(Block(h)) \in Nat /\ EdgeRest \in Nat \ {0}
  <2>1. Block(h) \in SUBSET FedTxs
    BY EdgeSettings DEF Block
  <2> QED
    BY <2>1, EdgeSettings, FS_Subset, FS_CardinalityType
<1>a. PICK T \in SUBSET Block(h) :
          /\ q = SetToSeq(T)
          /\ Cardinality(T) = Min({EdgeRest, Cardinality(Block(h))})
  BY DEF QueryTxListByHeightEdge, kSubset
<1> DEFINE n == Cardinality(T)
<1>1. T \in SUBSET FedTxs
  BY <1>0
<1>2. IsFiniteSet(T) /\ n \in Nat
  BY <1>1, EdgeSettings, FS_Subset, FS_CardinalityType
<1>b. /\ n \in {EdgeRest, Cardinality(Block(h))}
      /\ n <= EdgeRest /\ n <= Cardinality(Block(h))
  <2>1. {EdgeRest, Cardinality(Block(h))} \in SUBSET Nat
    BY <1>0
  <2> QED
    BY <2>1, <1>a, MinIsLeast
<1>3. \E f \in [1..n -> T] : IsInjective(f)
  <2>1. ExistsBijection(1..n, T)
    BY <1>2, FS_NatBijection, FS_CountingElements
  <2>2. PICK f \in Bijection(1..n, T) : TRUE
    BY <2>1 DEF ExistsBijection
  <2> HIDE DEF n
  <2> QED
    BY <2>2 DEF Bijection, Injection, Surjection, IsInjective
<1>4. PICK f : f \in [1..n -> T] /\ IsInjective(f) /\ f = q
  BY <1>3, <1>a DEF SetToSeq
<1>5. f \in Surjection(1..n, T)
  <2>1. f \in Injection(1..n, T)
    BY <1>4 DEF Injection, IsInjective
  <2>2. IsFiniteSet(1..n) /\ Cardinality(1..n) = n
    <3> HIDE DEF n
    <3> QED
      BY <1>2, FS_Interval
  <2> QED
    BY <1>2, <2>1, <2>2, FS_Injection
<1>6. f \in Seq(FedTxs)
  <2> HIDE DEF n
  <2> QED
    BY <1>1, <1>2, <1>4
<1>7. ToSet(f) = T
  <2> HIDE DEF n
  <2> QED
    BY <1>4, <1>5 DEF ToSet, Surjection
<1>8. Block(h) # {} => T # {}
  <2>1. Block(h) # {} => Cardinality(Block(h)) # 0
    BY <1>0, FS_EmptySet
  <2>2. T = {} => n = 0
    BY FS_EmptySet
  <2> HIDE DEF n
  <2> QED
    BY <1>0, <1>b, <2>1, <2>2
<1>9. ~(Cardinality(Block(h)) > EdgeRest) => T = Block(h)
  <2>1. ~(Cardinality(Block(h)) > EdgeRest) => n = Cardinality(Block(h))
    <3> HIDE DEF n
    <3> QED
      BY <1>0, <1>b
  <2> QED
    BY <2>1, <1>0, FS_Subset
<1> QED
  BY <1>4, <1>6, <1>7, <1>8, <1>9

(* A list in ascending order has every member of its set once. *)
LEMMA AscendingIs ==
    ASSUME NEW S \in SUBSET FedTxs, NEW s \in Ascending(S)
    PROVE  /\ IsFiniteSet(S) /\ s \in Seq(S) /\ Len(s) = Cardinality(S) /\ Len(s) \in Nat
           /\ \A i, j \in 1..Len(s) : s[i] = s[j] => i = j
           /\ \A i, j \in 1..Len(s) : i < j => fedHeight[s[i]] <= fedHeight[s[j]]
           /\ \A x \in S : \E i \in 1..Len(s) : s[i] = x
<1>1. IsFiniteSet(S) /\ Cardinality(S) \in Nat
  BY EdgeSettings, FS_Subset, FS_CardinalityType
<1>2. PICK n \in Nat : n = Cardinality(S)
  BY <1>1
<1>3. /\ s \in [1..n -> S] /\ \A i, j \in 1..n : i # j => s[i] # s[j]
      /\ \A i, j \in 1..Len(s) : i < j => fedHeight[s[i]] <= fedHeight[s[j]]
  BY <1>2 DEF Ascending, SetToSeqs
<1>4. s \in Seq(S) /\ Len(s) = n
  BY <1>3
<1>5. s \in Injection(1..n, S)
  BY <1>3 DEF Injection, IsInjective
<1>6. IsFiniteSet(1..n) /\ Cardinality(1..n) = n
  BY FS_Interval
<1>7. s \in Surjection(1..n, S)
  BY <1>1, <1>2, <1>5, <1>6, FS_Injection
<1> QED
  BY <1>1, <1>2, <1>3, <1>4, <1>7 DEF Surjection

(* The wanted transactions up to the height that the server has reached,   *)
(* or is about to reach with the answer; and those its request asks for.   *)
Reached ==
    {x \in Wanted : /\ fedHeight[x] > 0
                    /\ \/ fedHeight[x] <= feed.upTo
                       \/ \E y \in ToSet(feed.data) : fedHeight[x] <= fedHeight[y]}
Ahead == {x \in Reached : fedHeight[x] > feed.above}

EdgeShape ==
    /\ EdgeTypeOK
    /\ feed.page >= 1 /\ feed.above <= feed.upTo
    /\ feed.by = "height" => feed.page = 1
    /\ feed.at = "ask" => feed.data = <<>>
    /\ feed.at = "page" => Len(feed.data) = EdgePage /\ ToSet(feed.data) \subseteq Wanted
    /\ \A y \in ToSet(feed.data) : fedHeight[y] > 0
    /\ feed.upTo = 0 \/ \E x \in FedTxs : feed.upTo <= fedHeight[x]

(* What is reached was sent or is in the answer, but for crowded blocks    *)
(* and the rest of the block that ends a full page.                        *)
Covered ==
    /\ \A x \in Wanted \ Crowded : fedHeight[x] \in 1..feed.upTo => x \in feed.got
    /\ \A x \in Reached \ Crowded :
           \/ x \in feed.got \cup ToSet(feed.data)
           \/ feed.at = "page" /\ fedHeight[x] = fedHeight[Last(feed.data)]

(* The server has reached as many transactions as the pages before its     *)
(* own hold, and with a full page as many as that page, too.  So what      *)
(* stands before a page was reached, in whatever order the transactions    *)
(* of one block came.                                                      *)
Counted ==
    /\ Cardinality(Ahead) >= (feed.page - 1) * EdgePage
    /\ Len(feed.data) >= EdgePage => Cardinality(Ahead) >= feed.page * EdgePage

NoDoubles ==
    /\ feed.at = "page" => \A i, j \in 1..Len(feed.data) :
           feed.data[i] = feed.data[j] => i = j
    /\ feed.at = "answer" => \A i, j \in 1..Len(feed.data) :
           i # j /\ feed.data[i] = feed.data[j]
               => fedHeight[feed.data[i]] = fedHeight[Last(feed.data)]

EdgeInv == EdgeShape /\ Covered /\ Counted /\ NoDoubles

LEMMA FeedTypes ==
    ASSUME EdgeShape
    PROVE  /\ \A x \in FedTxs : fedHeight[x] \in Nat /\ fedHeight[x] <= TopEdgeHeight
           /\ TopEdgeHeight \in Nat /\ EdgePage \in Nat \ {0}
           /\ feed.page \in Nat \ {0} /\ feed.above \in Nat /\ feed.upTo \in Nat
           /\ feed.data \in Seq(FedTxs) /\ ToSet(feed.data) \subseteq FedTxs
           /\ feed.got \in SUBSET FedTxs
           /\ feed.by \in {"height", "page"} /\ feed.at \in {"ask", "page", "answer"}
           /\ Wanted \subseteq FedTxs /\ WithStatus \subseteq FedTxs /\ Wanted \subseteq WithStatus
           /\ IsFiniteSet(Wanted)
<1>1. feed \in Feeds /\ fedHeight \in [FedTxs -> 0..TopEdgeHeight] /\ feed.page >= 1
  BY DEF EdgeShape, EdgeTypeOK
<1>2. feed.data \in Seq(FedTxs)
  BY <1>1 DEF Feeds
<1>3. ToSet(feed.data) \subseteq FedTxs
  BY <1>2 DEF ToSet
<1>4. \A x \in FedTxs : fedHeight[x] \in Nat /\ fedHeight[x] <= TopEdgeHeight
  BY <1>1, EdgeSettings
<1>5. IsFiniteSet(Wanted)
  BY EdgeSettings, FS_Subset
<1> QED
  BY <1>1, <1>2, <1>3, <1>4, <1>5, EdgeSettings DEF Feeds

LEMMA AheadIsFinite == IsFiniteSet(Ahead) /\ Cardinality(Ahead) \in Nat
<1>1. Ahead \in SUBSET FedTxs
  BY EdgeSettings DEF Ahead, Reached
<1> QED
  BY <1>1, EdgeSettings, FS_Subset, FS_CardinalityType

LEMMA PageTimes ==
    ASSUME NEW p \in Nat \ {0}
    PROVE  /\ (p - 1) * EdgePage \in Nat /\ p * EdgePage \in Nat
           /\ p * EdgePage = (p - 1) * EdgePage + EdgePage
           /\ ((p + 1) - 1) * EdgePage = p * EdgePage
<1> PICK e \in Nat \ {0} : e = EdgePage
  BY EdgeSettings
<1>1. (p - 1) * e \in Nat /\ p * e \in Nat /\ p * e = (p - 1) * e + e
  OBVIOUS
<1>2. (p + 1) - 1 = p
  OBVIOUS
<1> QED
  BY <1>1, <1>2

LEMMA EdgeInit_Inv == EdgeInit => EdgeInv
<1> SUFFICES ASSUME EdgeInit
             PROVE  EdgeInv
  OBVIOUS
<1>1. PICK b \in {"height", "page"} :
          feed = [at |-> "ask", by |-> b, above |-> 0, page |-> 1,
                  data |-> <<>>, got |-> {}, upTo |-> 0]
  BY DEF EdgeInit
<1>2. fedHeight = [x \in FedTxs |-> 0] /\ \A x \in Wanted : fedHeight[x] = 0
  BY EdgeSettings DEF EdgeInit
<1>3. ToSet(<<>>) = {}
  BY DEF ToSet
<1>4. Reached = {}
  BY <1>2 DEF Reached
<1>5. EdgeShape
  BY <1>1, <1>2, <1>3, EdgeSettings DEF EdgeShape, EdgeTypeOK, Feeds
<1>6. Covered /\ NoDoubles
  BY <1>1, <1>4, <1>2 DEF Covered, NoDoubles
<1>7. Counted
  <2>1. feed.page = 1 /\ (1 - 1) * EdgePage = 0 /\ Len(feed.data) = 0
        /\ ~(0 >= EdgePage)
    BY <1>1, EdgeSettings
  <2> QED
    BY <2>1, AheadIsFinite DEF Counted
<1> QED
  BY <1>5, <1>6, <1>7 DEF EdgeInv

(* A block comes above all that is stored: it changes nothing of what was  *)
(* reached.                                                                *)
LEMMA StoreFedKeeps ==
    ASSUME EdgeInv, NEW S \in SUBSET FedTxs, StoreFed(S)
    PROVE  EdgeInv'
<1>0. EdgeShape
  BY DEF EdgeInv
<1> DEFINE H == {fedHeight[x] : x \in FedTxs}
<1>1. PICK top : top = Max(H)
  OBVIOUS
<1>2. /\ S # {} /\ \A x \in S : fedHeight[x] = 0
      /\ top < TopEdgeHeight
      /\ fedHeight' = [x \in FedTxs |-> IF x \in S THEN top + 1 ELSE fedHeight[x]]
      /\ feed' = feed
  BY <1>1 DEF StoreFed
<1>3. top \in Nat /\ \A x \in FedTxs : fedHeight[x] <= top
  <2>1. H \in SUBSET (0..TopEdgeHeight) /\ H # {} /\ TopEdgeHeight \in Nat
    BY <1>0, <1>2, EdgeSettings DEF EdgeShape, EdgeTypeOK
  <2>2. top \in H /\ \A y \in H : y <= top
    <3> HIDE DEF H
    <3> QED
      BY <2>1, <1>1, MaxIsGreatest
  <2> QED
    BY <2>1, <2>2
<1>4. /\ \A x \in FedTxs : fedHeight'[x] = IF x \in S THEN top + 1 ELSE fedHeight[x]
      /\ fedHeight' \in [FedTxs -> 0..TopEdgeHeight]
  <2>1. top + 1 \in 0..TopEdgeHeight
    BY <1>2, <1>3, <1>0, FeedTypes
  <2> QED
    BY <1>0, <1>2, <2>1 DEF EdgeShape, EdgeTypeOK
<1>5. feed.upTo <= top
  BY <1>0, <1>3, FeedTypes DEF EdgeShape
<1>6. \A y \in ToSet(feed.data) : y \in FedTxs /\ y \notin S /\ fedHeight'[y] = fedHeight[y]
                               /\ fedHeight[y] <= top
  BY <1>0, <1>2, <1>3, <1>4, FeedTypes DEF EdgeShape
<1>7. \A x \in FedTxs : /\ x \notin S => fedHeight'[x] = fedHeight[x]
                        /\ x \in S => fedHeight'[x] = top + 1 /\ fedHeight[x] = 0
                        /\ fedHeight[x] \in Nat /\ fedHeight[x] <= fedHeight'[x]
  BY <1>0, <1>2, <1>3, <1>4, FeedTypes
<1>8. \A x \in Reached : x \in FedTxs /\ x \notin S /\ fedHeight'[x] = fedHeight[x]
  BY <1>0, <1>7, FeedTypes DEF Reached
<1>9. Reached' = Reached
  <2>1. ASSUME NEW x \in Wanted
        PROVE  x \in Reached' <=> x \in Reached
    <3>1. x \in FedTxs /\ feed.upTo \in Nat
      BY <1>0, FeedTypes
    <3>2. CASE x \in S
      <4>1. fedHeight'[x] = top + 1 /\ fedHeight[x] = 0
        BY <3>1, <3>2, <1>7
      <4>2. ~(top + 1 <= feed.upTo) /\ \A y \in ToSet(feed.data) : ~(top + 1 <= fedHeight'[y])
        <5>1. \A y \in ToSet(feed.data) : fedHeight'[y] \in Nat /\ fedHeight'[y] <= top
          BY <1>6, <1>7
        <5> QED
          BY <5>1, <3>1, <1>3, <1>5
      <4> QED
        BY <4>1, <4>2, <1>2 DEF Reached
    <3>3. CASE x \notin S
      <4>1. fedHeight'[x] = fedHeight[x]
        BY <3>1, <3>3, <1>7
      <4> QED
        BY <4>1, <1>2, <1>6 DEF Reached
    <3> QED
      BY <3>2, <3>3
  <2> QED
    BY <2>1 DEF Reached
<1>10. Ahead' = Ahead
  BY <1>2, <1>8, <1>9 DEF Ahead
<1>11. EdgeShape'
  <2>1. feed.upTo = 0 \/ \E x \in FedTxs : feed.upTo <= fedHeight'[x]
    <3>1. ASSUME NEW x \in FedTxs, feed.upTo <= fedHeight[x]
          PROVE  feed.upTo <= fedHeight'[x]
      <4>1. fedHeight'[x] = top + 1 \/ fedHeight'[x] = fedHeight[x]
        BY <1>7
      <4> QED
        BY <3>1, <4>1, <1>5, <1>3, <1>0, FeedTypes
    <3> QED
      BY <3>1, <1>0 DEF EdgeShape
  <2> QED
    BY <1>0, <1>2, <1>4, <1>6, <2>1 DEF EdgeShape, EdgeTypeOK
<1>a. ASSUME NEW x \in Wanted, x \notin Crowded', x \notin S, fedHeight[x] > 0
      PROVE  x \notin Crowded
  <2>1. x \in FedTxs /\ fedHeight'[x] = fedHeight[x] /\ fedHeight[x] <= top
    BY <1>a, <1>0, <1>3, <1>7, FeedTypes
  <2>2. ASSUME NEW y \in WithStatus
        PROVE  fedHeight'[y] = fedHeight'[x] <=> fedHeight[y] = fedHeight[x]
    <3>1. y \in FedTxs
      BY <1>0, FeedTypes
    <3> QED
      BY <2>1, <3>1, <1>a, <1>3, <1>7
  <2>3. {y \in WithStatus : fedHeight'[y] = fedHeight'[x]}
            = {y \in WithStatus : fedHeight[y] = fedHeight[x]}
    BY <2>2
  <2> QED
    BY <1>a, <2>3 DEF Crowded, Block
<1>12. Covered'
  <2>1. ASSUME NEW x \in Wanted, x \notin Crowded', fedHeight'[x] \in 1..feed.upTo
        PROVE  x \in feed.got
    <3>1. x \in FedTxs /\ x \notin S
      BY <2>1, <1>0, <1>3, <1>5, <1>7, FeedTypes
    <3>2. fedHeight[x] \in 1..feed.upTo /\ fedHeight[x] > 0
      BY <3>1, <2>1, <1>7
    <3> QED
      BY <3>1, <3>2, <2>1, <1>a DEF EdgeInv, Covered
  <2>2. feed.at = "page" => Last(feed.data) \in ToSet(feed.data)
    BY <1>0, FeedTypes DEF EdgeShape, Last, ToSet
  <2>3. ASSUME NEW x \in Reached, x \notin Crowded'
        PROVE  \/ x \in feed.got \cup ToSet(feed.data)
               \/ feed.at = "page" /\ fedHeight'[x] = fedHeight'[Last(feed.data)]
    <3>1. x \in Reached \ Crowded
      BY <2>3, <1>8, <1>a DEF Reached
    <3> QED
      BY <3>1, <2>2, <1>6, <1>8 DEF EdgeInv, Covered
  <2> QED
    BY <2>1, <2>3, <1>2, <1>9 DEF Covered
<1>13. Counted'
  BY <1>2, <1>10 DEF EdgeInv, Counted
<1>14. NoDoubles'
  <2>1. \A i \in 1..Len(feed.data) : feed.data[i] \in ToSet(feed.data)
                                     /\ Last(feed.data) \in ToSet(feed.data)
    <3>1. DOMAIN feed.data = 1..Len(feed.data) /\ Len(feed.data) \in Nat
      BY <1>0, FeedTypes
    <3> QED
      BY <3>1 DEF Last, ToSet
  <2>2. \A i \in 1..Len(feed.data) :
            /\ fedHeight'[feed.data[i]] = fedHeight[feed.data[i]]
            /\ fedHeight'[Last(feed.data)] = fedHeight[Last(feed.data)]
    BY <2>1, <1>6
  <2> QED
    BY <2>2, <1>2 DEF EdgeInv, NoDoubles
<1> QED
  BY <1>11, <1>12, <1>13, <1>14 DEF EdgeInv

(* Behind as many transactions as were reached begins the page: what       *)
(* stands before it is of heights that were reached.                       *)
LEMMA BeforeThePage ==
    ASSUME EdgeInv, feed.at = "ask", NEW s \in Ascending(Above(feed.above)),
           NEW k \in 1..Len(s), k <= (feed.page - 1) * EdgePage
    PROVE  fedHeight[s[k]] <= feed.upTo
<1>0. EdgeShape
  BY DEF EdgeInv
<1> DEFINE A == Above(feed.above)
           o == (feed.page - 1) * EdgePage
<1>1. A \in SUBSET FedTxs /\ o \in Nat
  BY <1>0, FeedTypes, PageTimes DEF Above
<1>2. /\ s \in Seq(A) /\ Len(s) \in Nat
      /\ \A i, j \in 1..Len(s) : i < j => fedHeight[s[i]] <= fedHeight[s[j]]
      /\ \A x \in A : \E i \in 1..Len(s) : s[i] = x
  BY <1>1, AscendingIs
<1> SUFFICES ASSUME fedHeight[s[k]] > feed.upTo
             PROVE  FALSE
  <2>1. s[k] \in A
    <3> HIDE DEF A
    <3> QED
      BY <1>2
  <2>2. fedHeight[s[k]] \in Nat /\ feed.upTo \in Nat
    <3> HIDE DEF A
    <3> QED
      BY <2>1, <1>0, <1>1, FeedTypes
  <2> QED
    BY <2>2
<1>3. Ahead \subseteq A
  BY DEF Ahead, Reached, Above
<1>4. \A x \in Ahead : fedHeight[x] <= feed.upTo
  <2>1. ToSet(feed.data) = {}
    BY <1>0 DEF EdgeShape, ToSet
  <2> QED
    BY <2>1 DEF Ahead, Reached
<1> DEFINE f == [x \in Ahead |-> CHOOSE i \in 1..Len(s) : s[i] = x]
<1>5. \A x \in Ahead : f[x] \in 1..Len(s) /\ s[f[x]] = x
  <2> HIDE DEF A
  <2> QED
    BY <1>2, <1>3
<1>6. \A x \in Ahead : f[x] \in 1..k - 1
  <2>1. ASSUME NEW x \in Ahead, f[x] >= k
        PROVE  FALSE
    <3>1. PICK i \in 1..Len(s) : i = f[x] /\ s[i] = x
      BY <1>5
    <3>2. fedHeight[s[k]] <= fedHeight[s[i]]
      <4>1. i = k \/ k < i
        <5> HIDE DEF f
        <5> QED
          BY <2>1, <3>1
      <4>2. s[k] \in FedTxs
        <5> HIDE DEF A
        <5> QED
          BY <1>1, <1>2
      <4>3. fedHeight[s[k]] <= fedHeight[s[k]]
        BY <4>2, <1>0, FeedTypes
      <4> QED
        BY <4>1, <4>3, <1>2
    <3>3. fedHeight[s[k]] \in Nat /\ fedHeight[x] \in Nat /\ feed.upTo \in Nat
      <4>1. s[k] \in FedTxs /\ x \in FedTxs
        <5> HIDE DEF A
        <5> QED
          BY <1>1, <1>2, <1>3
      <4> QED
        BY <4>1, <1>0, FeedTypes
    <3> QED
      BY <3>1, <3>2, <3>3, <1>4
  <2> HIDE DEF f
  <2> QED
    BY <2>1, <1>5, <1>2
<1>7. f \in Injection(Ahead, 1..k - 1)
  <2>1. f \in [Ahead -> 1..k - 1]
    BY <1>6
  <2>2. \A x, y \in Ahead : f[x] = f[y] => x = y
    <3> HIDE DEF f
    <3> QED
      BY <1>5
  <2> HIDE DEF f
  <2> QED
    BY <2>1, <2>2 DEF Injection, IsInjective
<1>8. IsFiniteSet(1..k - 1) /\ Cardinality(1..k - 1) = k - 1
  <2>1. k - 1 \in Int /\ 1 \in Int /\ (IF 1 > k - 1 THEN 0 ELSE (k - 1) - 1 + 1) = k - 1
    BY <1>2
  <2> QED
    BY <2>1, FS_Interval
<1>9. Cardinality(Ahead) <= k - 1
  <2> HIDE DEF f
  <2> QED
    BY <1>7, <1>8, FS_Injection
<1> QED
  BY <1>9, <1>2, <1>1, AheadIsFinite DEF EdgeInv, Counted

LEMMA ReadPageKeeps ==
    ASSUME EdgeInv, ReadPage
    PROVE  EdgeInv'
<1>0. EdgeShape
  BY DEF EdgeInv
<1> DEFINE A == Above(feed.above)
           E == EdgePage
           o == (feed.page - 1) * EdgePage
<1>1. PICK d \in QueryTxListEdge(feed.above, feed.page) :
          feed' = [feed EXCEPT !.data = d, !.at = IF Len(d) = EdgePage THEN "page" ELSE "answer"]
  BY DEF ReadPage
<1>2. PICK s \in Ascending(A) :
          d = SubSeq(s, (feed.page - 1) * EdgePage + 1, Min({feed.page * EdgePage, Len(s)}))
  BY DEF QueryTxListEdge
<1>3. PICK at : at = IF Len(d) = EdgePage THEN "page" ELSE "answer"
  OBVIOUS
<1>4. feed.at = "ask" /\ fedHeight' = fedHeight /\ feed' = [feed EXCEPT !.data = d, !.at = at]
  BY <1>1, <1>3 DEF ReadPage
<1>5. A \in SUBSET Wanted /\ A \in SUBSET FedTxs
  BY <1>0, FeedTypes DEF Above
<1>6. /\ s \in Seq(A) /\ Len(s) \in Nat
      /\ \A i, j \in 1..Len(s) : s[i] = s[j] => i = j
      /\ \A i, j \in 1..Len(s) : i < j => fedHeight[s[i]] <= fedHeight[s[j]]
      /\ \A x \in A : \E i \in 1..Len(s) : s[i] = x
  <2> HIDE DEF A
  <2> QED
    BY <1>5, AscendingIs
<1>7. o \in Nat /\ E \in Nat \ {0} /\ feed.page * EdgePage = o + E
  BY <1>0, FeedTypes, PageTimes
<1>8. PICK t : t = Min({feed.page * EdgePage, Len(s)})
  OBVIOUS
<1>9. t \in Nat /\ t <= o + E /\ t <= Len(s) /\ (t = o + E \/ t = Len(s))
  <2>1. {feed.page * EdgePage, Len(s)} \in SUBSET Nat
    <3> HIDE DEF o, E
    <3> QED
      BY <1>6, <1>7
  <2>2. t \in {feed.page * EdgePage, Len(s)} /\ t <= feed.page * EdgePage /\ t <= Len(s)
    BY <1>8, <2>1, MinIsLeast
  <2> HIDE DEF o, E
  <2> QED
    BY <2>1, <2>2, <1>7
<1>10. d = SubSeq(s, o + 1, t)
  BY <1>2, <1>8
<1>11. /\ d \in Seq(A) /\ Len(d) \in Nat
       /\ Len(d) = IF t >= o + 1 THEN t - o ELSE 0
       /\ \A i \in 1..Len(d) : o + i \in 1..t /\ d[i] = s[o + i]
  <2> HIDE DEF o, A, E
  <2>1. CASE t >= o + 1
    <3>1. PICK b \in Nat \ {0} : b = o + 1
      BY <1>7
    <3>2. t >= b /\ d = SubSeq(s, b, t) /\ t \in 1..Len(s)
      BY <2>1, <3>1, <1>6, <1>7, <1>9, <1>10
    <3>3. d \in Seq(A) /\ Len(d) = t - b + 1 /\ \A i \in 1..t - b + 1 : d[i] = s[b + i - 1]
      <4>1. b \in Int /\ t \in Int /\ b <= t
        BY <3>1, <3>2, <1>9
      <4>2. \A i \in b..t : i \in 1..Len(s)
        BY <3>1, <3>2, <1>6
      <4>3. \A i \in b..t : s[i] \in A
        BY <4>2, <1>6
      <4> QED
        BY <4>1, <4>3, <3>2, SubSeqProperties
    <3>4. t - b + 1 = t - o /\ \A i \in 1..t - o : b + i - 1 = o + i /\ o + i \in 1..t
      BY <3>1, <3>2, <1>7
    <3> QED
      BY <2>1, <3>3, <3>4, <1>7, <1>9
  <2>2. CASE ~(t >= o + 1)
    <3>1. d = <<>>
      BY <2>2, <1>6, <1>7, <1>9, <1>10
    <3> QED
      BY <3>1, <2>2
  <2> QED
    BY <2>1, <2>2
<1>12. /\ Len(d) <= E
       /\ Len(d) = E => t = o + E
       /\ t = o + E => Len(d) = E
       /\ at = "page" <=> t = o + E
       /\ at \in {"page", "answer"}
  <2> HIDE DEF o, A
  <2> QED
    BY <1>3, <1>7, <1>9, <1>11
<1>13. \A y \in ToSet(d) : \E k \in 1..t : y = s[k] /\ k > o
  <2> HIDE DEF o, A, E
  <2>1. DOMAIN d = 1..Len(d)
    BY <1>11
  <2>2. ASSUME NEW i \in 1..Len(d)
        PROVE  \E k \in 1..t : d[i] = s[k] /\ k > o
    <3>1. o + i \in 1..t /\ d[i] = s[o + i] /\ o + i > o
      BY <1>11, <1>7
    <3> QED
      BY <3>1
  <2> QED
    BY <2>1, <2>2 DEF ToSet
<1>14. \A k \in 1..t : k > o => s[k] \in ToSet(d)
  <2>1. ASSUME NEW k \in 1..t, k > o
        PROVE  s[k] \in ToSet(d)
    <3> HIDE DEF o, A, E
    <3>1. k - o \in 1..Len(d) /\ o + (k - o) = k /\ DOMAIN d = 1..Len(d)
      BY <2>1, <1>11, <1>7, <1>9
    <3> QED
      BY <3>1, <1>11 DEF ToSet
  <2> QED
    BY <2>1
<1>15. /\ \A k \in 1..Len(s) : s[k] \in A /\ fedHeight[s[k]] \in Nat
       /\ \A x \in A : x \in Wanted /\ fedHeight[x] > feed.above /\ fedHeight[x] > 0
  <2>1. \A k \in 1..Len(s) : s[k] \in A
    <3> HIDE DEF A
    <3> QED
      BY <1>6
  <2>2. \A x \in A : x \in FedTxs /\ x \in Wanted /\ fedHeight[x] > feed.above
                     /\ fedHeight[x] > 0 /\ fedHeight[x] \in Nat
    BY <1>0, <1>5, FeedTypes DEF Above
  <2> HIDE DEF A
  <2> QED
    BY <2>1, <2>2
<1>16. ToSet(d) \subseteq Wanted /\ ToSet(d) \subseteq A
  <2> HIDE DEF A, o, E
  <2>1. ASSUME NEW y \in ToSet(d)
        PROVE  y \in A /\ y \in Wanted
    <3>1. PICK k \in 1..t : y = s[k]
      BY <1>13
    <3>2. k \in 1..Len(s)
      BY <1>9, <1>6
    <3> QED
      BY <3>1, <3>2, <1>15
  <2> QED
    BY <2>1
<1>17. EdgeShape'
  <2>1. d \in Seq(FedTxs)
    <3> HIDE DEF A
    <3> QED
      BY <1>5, <1>11
  <2>2. feed' \in Feeds
    <3> HIDE DEF o, A, E
    <3> QED
      BY <1>0, <1>4, <1>12, <2>1 DEF EdgeShape, EdgeTypeOK, Feeds
  <2>3. fedHeight' \in [FedTxs -> 0..TopEdgeHeight]
    BY <1>0, <1>4 DEF EdgeShape, EdgeTypeOK
  <2>4. \A y \in ToSet(d) : fedHeight[y] > 0
    <3> HIDE DEF A
    <3> QED
      BY <1>15, <1>16
  <2>5. /\ feed'.data = d /\ feed'.at = at /\ feed'.by = feed.by /\ feed'.page = feed.page
        /\ feed'.above = feed.above /\ feed'.upTo = feed.upTo
    BY <1>0, <1>4 DEF EdgeShape, EdgeTypeOK, Feeds
  <2>6. at # "ask" /\ (at = "page" => Len(d) = EdgePage)
    <3> HIDE DEF o
    <3> QED
      BY <1>12
  <2> HIDE DEF A, o, E
  <2> QED
    BY <1>0, <1>4, <1>16, <2>2, <2>3, <2>4, <2>5, <2>6 DEF EdgeShape, EdgeTypeOK
<1>18. /\ feed'.data = d /\ feed'.at = at /\ feed'.page = feed.page
       /\ feed'.above = feed.above /\ feed'.upTo = feed.upTo /\ feed'.got = feed.got
  BY <1>0, <1>4 DEF EdgeShape, EdgeTypeOK, Feeds
<1>19. feed.upTo \in Nat /\ feed.above \in Nat /\ feed.above <= feed.upTo
       /\ Wanted \subseteq FedTxs /\ \A x \in Wanted : fedHeight[x] \in Nat
  BY <1>0, FeedTypes DEF EdgeShape
<1>20. ASSUME at = "page"
       PROVE  o + E \in 1..t /\ o + E \in 1..Len(s) /\ Last(d) = s[o + E]
  <2> HIDE DEF o, A
  <2> QED
    BY <1>20, <1>7, <1>9, <1>11, <1>12 DEF Last
<1>21. Covered'
  <2>0. Crowded' = Crowded
    BY <1>4 DEF Crowded, Block
  <2>1. ASSUME NEW x \in Wanted \ Crowded, fedHeight[x] \in 1..feed.upTo
        PROVE  x \in feed.got
    BY <2>1 DEF EdgeInv, Covered
  <2>2. ASSUME NEW x \in Wanted, fedHeight[x] > feed.upTo,
               NEW y \in ToSet(d), fedHeight[x] <= fedHeight[y]
        PROVE  x \in ToSet(d) \/ (at = "page" /\ fedHeight[x] = fedHeight[Last(d)])
    <3>1. x \in A
      BY <2>2, <1>19 DEF Above
    <3>2. PICK k \in 1..Len(s) : s[k] = x
      <4> HIDE DEF A
      <4> QED
        BY <3>1, <1>6
    <3>3. k > o
      <4>1. k <= o => fedHeight[s[k]] <= feed.upTo
        BY <1>4, BeforeThePage
      <4> HIDE DEF o, A
      <4> QED
        BY <4>1, <3>2, <2>2, <1>19, <1>7
    <3>4. CASE k <= t
      <4> HIDE DEF o, A, E
      <4> QED
        BY <3>2, <3>3, <3>4, <1>14, <1>9
    <3>5. CASE k > t
      <4>1. t = o + E /\ at = "page"
        <5> HIDE DEF o, A, E
        <5> QED
          BY <3>5, <3>2, <1>6, <1>9, <1>12
      <4>2. PICK i \in 1..t : y = s[i]
        BY <1>13
      <4>3. i \in 1..Len(s) /\ t \in 1..Len(s) /\ (i = t \/ i < t) /\ t < k
        <5> HIDE DEF o, A, E
        <5> QED
          <6>1. Len(s) \in Nat /\ t \in Nat /\ t <= Len(s)
            BY <1>6, <1>9
          <6> QED
            BY <6>1, <3>5
      <4>4. fedHeight[s[i]] <= fedHeight[s[t]] /\ fedHeight[s[t]] <= fedHeight[s[k]]
        <5> HIDE DEF o, A, E
        <5> QED
          <6>1. fedHeight[s[t]] \in Nat /\ fedHeight[s[i]] \in Nat
            BY <4>3, <1>15
          <6>2. i < t => fedHeight[s[i]] <= fedHeight[s[t]]
            BY <4>3, <1>6
          <6>3. fedHeight[s[t]] <= fedHeight[s[k]]
            BY <4>3, <1>6
          <6> QED
            BY <4>3, <6>1, <6>2, <6>3
      <4>5. Last(d) = s[t]
        <5> HIDE DEF A
        <5> QED
          BY <4>1, <1>20
      <4>6. fedHeight[s[t]] \in Nat /\ fedHeight[s[k]] \in Nat /\ fedHeight[s[i]] \in Nat
        <5> HIDE DEF A, o, E
        <5> QED
          BY <4>3, <1>15
      <4> HIDE DEF A, o, E
      <4> QED
        BY <4>1, <4>2, <4>4, <4>5, <4>6, <3>2, <2>2
    <3> HIDE DEF o, A, E
    <3> QED
      BY <3>4, <3>5, <1>9
  <2>3. ASSUME NEW x \in Reached' \ Crowded
        PROVE  x \in feed.got \cup ToSet(d) \/ (at = "page" /\ fedHeight[x] = fedHeight[Last(d)])
    <3>1. /\ x \in Wanted \ Crowded /\ fedHeight[x] > 0
          /\ fedHeight[x] <= feed.upTo \/ \E y \in ToSet(d) : fedHeight[x] <= fedHeight[y]
      BY <1>4, <1>18 DEF Reached
    <3>2. CASE fedHeight[x] <= feed.upTo
      <4>1. fedHeight[x] \in 1..feed.upTo
        BY <3>1, <3>2, <1>19
      <4> QED
        BY <4>1, <3>1, <2>1
    <3>3. CASE ~(fedHeight[x] <= feed.upTo)
      <4>1. fedHeight[x] > feed.upTo
        BY <3>1, <3>3, <1>19
      <4> QED
        BY <4>1, <3>1, <3>3, <2>2
    <3> QED
      BY <3>2, <3>3
  <2> QED
    BY <2>0, <2>1, <2>3, <1>4, <1>18 DEF Covered
<1>22. NoDoubles'
  <2>1. ASSUME NEW i \in 1..Len(d), NEW j \in 1..Len(d), d[i] = d[j]
        PROVE  i = j
    <3>1. s[o + i] = s[o + j] /\ o + i \in 1..Len(s) /\ o + j \in 1..Len(s)
      <4> HIDE DEF A, o, E
      <4>1. \A k \in 1..t : k \in 1..Len(s)
        BY <1>9, <1>6
      <4>2. /\ o + i \in 1..t /\ d[i] = s[o + i]
            /\ o + j \in 1..t /\ d[j] = s[o + j]
        BY <1>11
      <4> QED
        BY <2>1, <4>1, <4>2
    <3>2. o + i = o + j
      <4> HIDE DEF A, o, E
      <4> QED
        BY <3>1, <1>6
    <3> HIDE DEF A, o, E
    <3> QED
      BY <3>2, <1>7, <1>11
  <2> QED
    BY <2>1, <1>18 DEF NoDoubles
<1>23. Counted'
  <2>1. Ahead \in SUBSET (Ahead')
    <3>1. ToSet(feed.data) = {}
      BY <1>0, <1>4 DEF EdgeShape, ToSet
    <3> QED
      BY <3>1, <1>4, <1>18 DEF Ahead, Reached
  <2>2. IsFiniteSet(Ahead') /\ Cardinality(Ahead') \in Nat
    BY <1>5, AheadIsFinite, <1>0, <1>4, <1>18, <1>19, FeedTypes, FS_Subset, FS_CardinalityType
       DEF Ahead, Reached
  <2>3. Cardinality(Ahead) <= Cardinality(Ahead')
    <3> HIDE DEF A
    <3> QED
      BY <2>1, <2>2, FS_Subset
  <2>4. Cardinality(Ahead') >= (feed.page - 1) * EdgePage
    BY <2>2, <2>3, <1>7, AheadIsFinite DEF EdgeInv, Counted
  <2>5. ASSUME Len(d) >= EdgePage
        PROVE  Cardinality(Ahead') >= feed.page * EdgePage
    <3> DEFINE n == o + E
    <3>1. at = "page" /\ t = n
      <4> HIDE DEF o, A
      <4> QED
        BY <2>5, <1>11, <1>12, <1>7
    <3>2. n \in 1..t /\ n \in 1..Len(s) /\ Last(d) = s[n] /\ s[n] \in ToSet(d) /\ n \in Nat
      <4>1. n \in 1..t /\ n \in 1..Len(s) /\ Last(d) = s[n] /\ n > o
        <5> HIDE DEF A
        <5> QED
          BY <3>1, <1>20, <1>7
      <4> HIDE DEF A, o, E
      <4> QED
        BY <4>1, <1>14, <1>9
    <3>3. \A k \in 1..n : s[k] \in Ahead'
      <4>1. ASSUME NEW k \in 1..n
            PROVE  s[k] \in Ahead'
        <5>1. k \in 1..Len(s) /\ (k = n \/ k < n)
          <6> HIDE DEF A, n
          <6> QED
            BY <3>2, <1>6
        <5>2. fedHeight[s[k]] <= fedHeight[s[n]]
          <6> HIDE DEF A, n
          <6> QED
            BY <5>1, <3>2, <1>6, <1>15
        <5>3. s[k] \in Wanted /\ fedHeight[s[k]] > feed.above /\ fedHeight[s[k]] > 0
          <6> HIDE DEF A, n
          <6> QED
            BY <5>1, <1>15
        <5> HIDE DEF A, n, o, E
        <5> QED
          BY <5>2, <5>3, <3>2, <1>4, <1>18 DEF Ahead, Reached
      <4> QED
        BY <4>1
    <3> DEFINE g == [k \in 1..n |-> s[k]]
    <3>4. g \in Injection(1..n, Ahead')
      <4>1. g \in [1..n -> Ahead']
        BY <3>3
      <4>2. \A i, j \in 1..n : s[i] = s[j] => i = j
        <5> HIDE DEF A, n
        <5> QED
          <6>1. n \in Nat /\ \A i, j \in 1..Len(s) : s[i] = s[j] => i = j
            BY <3>2, <1>6
          <6>2. \A i \in 1..n : i \in 1..Len(s)
            BY <3>2, <1>6
          <6> QED
            BY <6>1, <6>2
      <4> HIDE DEF n
      <4> QED
        BY <4>1, <4>2 DEF Injection, IsInjective
    <3>5. Cardinality(1..n) = n
      <4> HIDE DEF n
      <4> QED
        BY <3>2, FS_Interval
    <3>6. Cardinality(1..n) <= Cardinality(Ahead')
      <4> HIDE DEF n, g
      <4> QED
        BY <3>4, <2>2, FS_Injection
    <3> HIDE DEF A, o, E
    <3> QED
      BY <3>5, <3>6, <1>7 DEF n
  <2> HIDE DEF A, o, E
  <2> QED
    BY <2>4, <2>5, <1>18 DEF Counted
<1> QED
  BY <1>17, <1>21, <1>22, <1>23 DEF EdgeInv

(* Reading the last height again completes it: what is spliced out is of   *)
(* that height and comes back.                                             *)
LEMMA ReadLastHeightKeeps ==
    ASSUME EdgeInv, ReadLastHeight
    PROVE  EdgeInv'
<1>0. EdgeShape
  BY DEF EdgeInv
<1>1. PICK h : h = fedHeight[Last(feed.data)]
  OBVIOUS
<1>2. PICK r : r = SpliceHeight(feed.data, h)
  OBVIOUS
<1>3. PICK q \in QueryTxListByHeightEdge(h) :
          feed' = [feed EXCEPT !.data = r \o q, !.at = "answer"]
  BY <1>1, <1>2 DEF ReadLastHeight
<1>4. PICK d : d = r \o q
  OBVIOUS
<1>5. /\ feed.at = "page" /\ fedHeight' = fedHeight
      /\ feed' = [feed EXCEPT !.data = d, !.at = "answer"]
  BY <1>3, <1>4 DEF ReadLastHeight
<1>6. /\ feed.data \in Seq(FedTxs) /\ Len(feed.data) = EdgePage /\ ToSet(feed.data) \subseteq Wanted
      /\ \A i, j \in 1..Len(feed.data) : feed.data[i] = feed.data[j] => i = j
  BY <1>0, <1>5, FeedTypes DEF EdgeShape, EdgeInv, NoDoubles
<1>7. Last(feed.data) \in ToSet(feed.data)
  <2>1. Len(feed.data) \in DOMAIN feed.data
    BY <1>6, EdgeSettings
  <2> QED
    BY <2>1 DEF Last, ToSet
<1>8. /\ r \in Seq(FedTxs) /\ ToSet(r) \subseteq ToSet(feed.data)
      /\ \A i, j \in 1..Len(r) : r[i] = r[j] => i = j
      /\ \A y \in ToSet(feed.data) : fedHeight[y] # h => y \in ToSet(r)
  <2>1. r \in Spliced(feed.data, h)
    BY <1>2, <1>6, SpliceHeightKeeps
  <2> QED
    BY <2>1 DEF Spliced
<1>a. /\ q \in Seq(FedTxs) /\ ToSet(q) \subseteq Block(h)
      /\ Block(h) # {} => ToSet(q) # {}
      /\ ~(Cardinality(Block(h)) > EdgeRest) => ToSet(q) = Block(h)
  BY <1>3, ReadAgain
<1>9. /\ q \in Seq(FedTxs) /\ \A y \in ToSet(q) : y \in WithStatus /\ fedHeight[y] = h
      /\ \A x \in Wanted \ Crowded : fedHeight[x] = h => x \in ToSet(q)
  BY <1>a, EdgeSettings DEF Crowded, Block
<1>10. /\ d \in Seq(FedTxs) /\ Len(d) = Len(r) + Len(q)
       /\ Len(r) \in Nat /\ Len(q) \in Nat
       /\ \A i \in 1..Len(r) + Len(q) : d[i] = IF i <= Len(r) THEN r[i] ELSE q[i - Len(r)]
  BY <1>4, <1>8, <1>9, ConcatProperties
<1>11. /\ \A i \in 1..Len(d) : IF i <= Len(r) THEN i \in 1..Len(r) ELSE i - Len(r) \in 1..Len(q)
       /\ \A i \in 1..Len(r) : i \in 1..Len(d) /\ d[i] = r[i] /\ r[i] \in ToSet(r)
       /\ \A i \in 1..Len(q) : Len(r) + i \in 1..Len(d) /\ d[Len(r) + i] = q[i] /\ q[i] \in ToSet(q)
  <2>1. \A i \in 1..Len(d) : IF i <= Len(r) THEN i \in 1..Len(r) ELSE i - Len(r) \in 1..Len(q)
    BY <1>10
  <2>2. \A i \in 1..Len(r) : i \in 1..Len(d) /\ d[i] = r[i]
    BY <1>10
  <2>3. ASSUME NEW i \in 1..Len(q)
        PROVE  Len(r) + i \in 1..Len(d) /\ d[Len(r) + i] = q[i]
    <3>1. Len(r) + i \in 1..Len(r) + Len(q) /\ ~(Len(r) + i <= Len(r)) /\ (Len(r) + i) - Len(r) = i
      BY <1>10
    <3> QED
      BY <3>1, <1>10
  <2>4. DOMAIN r = 1..Len(r) /\ DOMAIN q = 1..Len(q)
    BY <1>8, <1>9
  <2> QED
    BY <2>1, <2>2, <2>3, <2>4 DEF ToSet
<1>12. ToSet(d) = ToSet(r) \cup ToSet(q)
  <2>1. DOMAIN d = 1..Len(d) /\ DOMAIN r = 1..Len(r) /\ DOMAIN q = 1..Len(q)
    BY <1>8, <1>9, <1>10
  <2>2. ASSUME NEW i \in 1..Len(d)
        PROVE  d[i] \in ToSet(r) \cup ToSet(q)
    BY <1>10, <1>11
  <2>3. \A i \in 1..Len(r) : r[i] \in ToSet(d)
    BY <1>11, <2>1 DEF ToSet
  <2>4. \A i \in 1..Len(q) : q[i] \in ToSet(d)
    <3>1. ASSUME NEW i \in 1..Len(q)
          PROVE  q[i] \in ToSet(d)
      <4>1. Len(r) + i \in DOMAIN d /\ d[Len(r) + i] = q[i]
        BY <1>11, <2>1
      <4> QED
        BY <4>1 DEF ToSet
    <3> QED
      BY <3>1
  <2> QED
    BY <2>1, <2>2, <2>3, <2>4 DEF ToSet
<1>13. h \in Nat /\ h > 0 /\ ToSet(q) # {}
  <2>1. Last(feed.data) \in WithStatus /\ Last(feed.data) \in FedTxs
    BY <1>0, <1>6, <1>7, FeedTypes
  <2>2. Last(feed.data) \in Block(h)
    BY <2>1, <1>1 DEF Block
  <2> QED
    BY <2>1, <2>2, <1>0, <1>1, <1>7, <1>a, FeedTypes DEF EdgeShape
<1>14. /\ feed'.data = d /\ feed'.at = "answer" /\ feed'.page = feed.page /\ feed'.by = feed.by
       /\ feed'.above = feed.above /\ feed'.upTo = feed.upTo /\ feed'.got = feed.got
  BY <1>0, <1>5 DEF EdgeShape, EdgeTypeOK, Feeds
<1>15. Reached' = Reached
  <2>1. ASSUME NEW x \in Wanted
        PROVE  (\E y \in ToSet(d) : fedHeight[x] <= fedHeight[y])
                   <=> \E y \in ToSet(feed.data) : fedHeight[x] <= fedHeight[y]
    <3>1. ASSUME NEW y \in ToSet(d), fedHeight[x] <= fedHeight[y]
          PROVE  \E z \in ToSet(feed.data) : fedHeight[x] <= fedHeight[z]
      <4>1. y \in ToSet(feed.data) \/ fedHeight[y] = fedHeight[Last(feed.data)]
        BY <1>1, <1>8, <1>9, <1>12
      <4> QED
        BY <3>1, <4>1, <1>7
    <3>2. ASSUME NEW y \in ToSet(feed.data), fedHeight[x] <= fedHeight[y]
          PROVE  \E z \in ToSet(d) : fedHeight[x] <= fedHeight[z]
      <4>1. CASE fedHeight[y] # h
        BY <3>2, <4>1, <1>8, <1>12
      <4>2. CASE fedHeight[y] = h
        BY <3>2, <4>2, <1>9, <1>12, <1>13
      <4> QED
        BY <4>1, <4>2
    <3> QED
      BY <3>1, <3>2
  <2> QED
    BY <2>1, <1>5, <1>14 DEF Reached
<1>16. EdgeShape'
  <2>1. feed' \in Feeds
    BY <1>0, <1>5, <1>10 DEF EdgeShape, EdgeTypeOK, Feeds
  <2>2. \A y \in ToSet(d) : fedHeight[y] > 0
    BY <1>0, <1>8, <1>9, <1>12, <1>13 DEF EdgeShape
  <2> QED
    BY <1>0, <1>5, <1>14, <2>1, <2>2 DEF EdgeShape, EdgeTypeOK
<1>17. Covered'
  <2>0. Crowded' = Crowded
    BY <1>5 DEF Crowded, Block
  <2>1. ASSUME NEW x \in Reached \ Crowded
        PROVE  x \in feed.got \cup ToSet(d)
    <3>1. x \in Wanted \ Crowded
      BY DEF Reached
    <3>2. x \in feed.got \/ x \in ToSet(feed.data) \/ fedHeight[x] = h
      BY <1>1 DEF EdgeInv, Covered
    <3> QED
      BY <3>1, <3>2, <1>8, <1>9, <1>12
  <2>2. \A x \in Wanted \ Crowded : fedHeight[x] \in 1..feed.upTo => x \in feed.got
    BY DEF EdgeInv, Covered
  <2> QED
    BY <2>0, <2>1, <2>2, <1>5, <1>14, <1>15 DEF Covered
<1>18. Counted'
  <2>1. Ahead' = Ahead
    BY <1>5, <1>14, <1>15 DEF Ahead
  <2>2. Len(feed.data) >= EdgePage
    BY <1>6, EdgeSettings
  <2> QED
    BY <2>1, <2>2, <1>14 DEF EdgeInv, Counted
<1>19. NoDoubles'
  <2>1. fedHeight[Last(d)] = h
    <3>1. PICK k \in 1..Len(q) : TRUE
      <4>1. DOMAIN q = 1..Len(q)
        BY <1>9
      <4> QED
        BY <4>1, <1>13 DEF ToSet
    <3>2. Len(q) \in 1..Len(q) /\ Len(r) + Len(q) = Len(d)
      BY <3>1, <1>10
    <3>3. d[Len(d)] \in ToSet(q)
      BY <3>2, <1>11
    <3> QED
      BY <3>3, <1>9 DEF Last
  <2>2. ASSUME NEW i \in 1..Len(d), NEW j \in 1..Len(d), i # j, d[i] = d[j]
        PROVE  fedHeight[d[i]] = h
    <3>1. CASE i <= Len(r) /\ j <= Len(r)
      <4>1. i \in 1..Len(r) /\ j \in 1..Len(r) /\ r[i] = r[j]
        BY <2>2, <3>1, <1>11
      <4> QED
        BY <4>1, <2>2, <1>8
    <3>2. CASE ~(i <= Len(r))
      <4>1. i - Len(r) \in 1..Len(q) /\ d[i] = q[i - Len(r)]
        BY <3>2, <1>10, <1>11
      <4> QED
        BY <4>1, <1>9, <1>11
    <3>3. CASE ~(j <= Len(r))
      <4>1. j - Len(r) \in 1..Len(q) /\ d[j] = q[j - Len(r)]
        BY <3>3, <1>10, <1>11
      <4> QED
        BY <4>1, <1>9, <1>11, <2>2
    <3> QED
      BY <3>1, <3>2, <3>3
  <2> QED
    BY <2>1, <2>2, <1>5, <1>14 DEF NoDoubles
<1> QED
  BY <1>16, <1>17, <1>18, <1>19 DEF EdgeInv

(* Taking the answer moves what is reached from the answer to the server.  *)
LEMMA TakeAnswerKeeps ==
    ASSUME EdgeInv, TakeAnswer
    PROVE  EdgeInv'
<1>0. EdgeShape
  BY DEF EdgeInv
<1> DEFINE H == {fedHeight[x] : x \in ToSet(feed.data)} \cup {feed.upTo}
<1>1. PICK h : h = Max(H)
  OBVIOUS
<1>2. PICK full \in BOOLEAN : full <=> Len(feed.data) >= EdgePage
  OBVIOUS
<1>3. /\ feed.at = "answer" /\ fedHeight' = fedHeight
      /\ feed' = [feed EXCEPT
              !.at = "ask", !.got = feed.got \cup ToSet(feed.data), !.upTo = h,
              !.data = <<>>,
              !.above = IF feed.by = "height" THEN h ELSE feed.above,
              !.page = IF feed.by = "page" /\ full THEN feed.page + 1 ELSE feed.page]
  BY <1>1, <1>2 DEF TakeAnswer
<1>4. /\ feed'.data = <<>> /\ feed'.at = "ask" /\ feed'.by = feed.by
      /\ feed'.page = IF feed.by = "page" /\ full THEN feed.page + 1 ELSE feed.page
      /\ feed'.above = IF feed.by = "height" THEN h ELSE feed.above
      /\ feed'.upTo = h /\ feed'.got = feed.got \cup ToSet(feed.data)
  BY <1>0, <1>3 DEF EdgeShape, EdgeTypeOK, Feeds
<1>5. /\ h \in Nat /\ h >= feed.upTo
      /\ \A y \in ToSet(feed.data) : fedHeight[y] <= h
      /\ h = feed.upTo \/ \E y \in ToSet(feed.data) : h = fedHeight[y]
  <2>1. feed.upTo \in 0..TopEdgeHeight
    <3>1. feed.upTo = 0 \/ \E x \in FedTxs : feed.upTo <= fedHeight[x]
      BY <1>0 DEF EdgeShape
    <3> QED
      BY <3>1, <1>0, FeedTypes
  <2>2. \A y \in ToSet(feed.data) : fedHeight[y] \in 0..TopEdgeHeight
    BY <1>0, FeedTypes
  <2>3. H \in SUBSET (0..TopEdgeHeight) /\ H # {} /\ TopEdgeHeight \in Nat
    BY <2>1, <2>2, EdgeSettings
  <2>4. h \in H /\ \A y \in H : y <= h
    <3> HIDE DEF H
    <3> QED
      BY <2>3, <1>1, MaxIsGreatest
  <2> QED
    BY <2>3, <2>4
<1>6. ToSet(<<>>) = {} /\ Len(<<>>) = 0
  BY DEF ToSet
<1>7. Reached' = Reached
  <2>1. ASSUME NEW x \in Wanted
        PROVE  fedHeight[x] <= h <=> \/ fedHeight[x] <= feed.upTo
                                     \/ \E y \in ToSet(feed.data) : fedHeight[x] <= fedHeight[y]
    <3>1. /\ fedHeight[x] \in Nat /\ feed.upTo \in Nat
          /\ \A y \in ToSet(feed.data) : fedHeight[y] \in Nat
      BY <1>0, FeedTypes
    <3> QED
      BY <3>1, <1>5
  <2> QED
    BY <2>1, <1>3, <1>4, <1>6 DEF Reached
<1>8. EdgeShape'
  <2>1. /\ feed.page \in Nat \ {0} /\ feed.by \in {"height", "page"} /\ feed.above \in Nat
        /\ ToSet(feed.data) \subseteq FedTxs /\ feed.got \in SUBSET FedTxs /\ feed.upTo \in Nat
    BY <1>0, FeedTypes
  <2>2. /\ feed'.page \in Nat /\ feed'.page >= 1 /\ feed'.above \in Nat /\ feed'.above <= feed'.upTo
        /\ feed'.by = "height" => feed'.page = 1
    BY <1>0, <1>4, <1>5, <2>1 DEF EdgeShape
  <2>3. feed' \in Feeds
    <3>1. PICK p, a : p = feed'.page /\ a = feed'.above
      OBVIOUS
    <3>2. feed' = [feed EXCEPT !.at = "ask", !.got = feed.got \cup ToSet(feed.data), !.upTo = h,
                               !.data = <<>>, !.above = a, !.page = p]
      BY <1>3, <1>4, <3>1
    <3>3. p \in Nat /\ a \in Nat /\ feed.got \cup ToSet(feed.data) \in SUBSET FedTxs
          /\ <<>> \in Seq(FedTxs)
      BY <2>1, <2>2, <3>1
    <3> QED
      BY <1>0, <1>5, <3>2, <3>3 DEF EdgeShape, EdgeTypeOK, Feeds
  <2>4. h = 0 \/ \E x \in FedTxs : h <= fedHeight[x]
    <3>1. CASE h = feed.upTo
      BY <3>1, <1>0 DEF EdgeShape
    <3>2. CASE \E y \in ToSet(feed.data) : h = fedHeight[y]
      <4>1. PICK y \in ToSet(feed.data) : h = fedHeight[y]
        BY <3>2
      <4>2. y \in FedTxs /\ h <= fedHeight[y]
        BY <4>1, <2>1, <1>5
      <4> QED
        BY <4>2
    <3> QED
      BY <3>1, <3>2, <1>5
  <2> QED
    BY <1>0, <1>3, <1>4, <1>6, <2>2, <2>3, <2>4 DEF EdgeShape, EdgeTypeOK
<1>9. Covered'
  <2>0. Crowded' = Crowded
    BY <1>3 DEF Crowded, Block
  <2>1. \A x \in Reached \ Crowded : x \in feed.got \cup ToSet(feed.data)
    BY <1>3 DEF EdgeInv, Covered
  <2>2. ASSUME NEW x \in Wanted, fedHeight[x] \in 1..h
        PROVE  x \in Reached
    <3>1. /\ fedHeight[x] > 0 /\ fedHeight[x] <= h
      BY <2>2, <1>5
    <3>2. x \in Reached'
      BY <3>1, <1>3, <1>4 DEF Reached
    <3> QED
      BY <3>2, <1>7
  <2> QED
    BY <2>0, <2>1, <2>2, <1>3, <1>4, <1>7 DEF Covered
<1>10. Counted'
  <2>1. feed.page \in Nat \ {0} /\ EdgePage \in Nat \ {0}
    BY <1>0, FeedTypes
  <2>2. ~(Len(feed'.data) >= EdgePage)
    BY <1>4, <1>6, <2>1
  <2>3. CASE feed.by = "height"
    <3>1. feed'.page = 1 /\ (1 - 1) * EdgePage = 0
      BY <2>3, <1>0, <1>4, <2>1 DEF EdgeShape
    <3>2. Cardinality(Ahead') \in Nat
      <4>1. Ahead' \in SUBSET Wanted
        BY DEF Ahead, Reached
      <4>2. IsFiniteSet(Wanted)
        BY <1>0, FeedTypes
      <4> QED
        BY <4>1, <4>2, FS_Subset, FS_CardinalityType
    <3> QED
      BY <2>2, <3>1, <3>2 DEF Counted
  <2>4. CASE feed.by = "page"
    <3>1. Ahead' = Ahead
      BY <2>4, <1>3, <1>4, <1>7 DEF Ahead
    <3>2. CASE full
      <4>1. feed'.page = feed.page + 1 /\ ((feed.page + 1) - 1) * EdgePage = feed.page * EdgePage
        BY <2>1, <2>4, <3>2, <1>4, PageTimes
      <4>2. Cardinality(Ahead) >= feed.page * EdgePage
        BY <3>2, <1>2 DEF EdgeInv, Counted
      <4> QED
        BY <2>2, <3>1, <4>1, <4>2 DEF Counted
    <3>3. CASE ~full
      <4>1. feed'.page = feed.page
        BY <2>4, <3>3, <1>4
      <4> QED
        BY <2>2, <3>1, <4>1 DEF EdgeInv, Counted
    <3> QED
      BY <3>2, <3>3
  <2> QED
    BY <2>3, <2>4, <1>0, FeedTypes
<1>11. NoDoubles'
  BY <1>4 DEF NoDoubles
<1> QED
  BY <1>8, <1>9, <1>10, <1>11 DEF EdgeInv

LEMMA EdgeStep == EdgeInv /\ [EdgeNext]_edgeVars => EdgeInv'
<1> SUFFICES ASSUME EdgeInv, [EdgeNext]_edgeVars
             PROVE  EdgeInv'
  OBVIOUS
<1>1. ASSUME NEW S \in SUBSET FedTxs, StoreFed(S)
      PROVE  EdgeInv'
  BY <1>1, StoreFedKeeps
<1>2. CASE ReadPage
  BY <1>2, ReadPageKeeps
<1>3. CASE ReadLastHeight
  BY <1>3, ReadLastHeightKeeps
<1>4. CASE TakeAnswer
  BY <1>4, TakeAnswerKeeps
<1>5. CASE UNCHANGED edgeVars
  BY <1>5 DEF edgeVars, EdgeInv, EdgeShape, EdgeTypeOK, Covered, Counted, NoDoubles, Ahead, Reached,
              Crowded, Block
<1> QED
  BY <1>1, <1>2, <1>3, <1>4, <1>5 DEF EdgeNext

(* For any transactions, blocks, page size and limit of the second         *)
(* command: the edge server has all it wants of the blocks within that     *)
(* limit up to the height it has reached, whichever way it goes on, and an *)
(* answer repeats only transactions of its last height.                    *)
THEOREM FeedIsComplete == EdgeSpec => []EdgeMissesNothing
<1>1. EdgeInv => EdgeMissesNothing
  BY DEF EdgeInv, Covered, NoDoubles, EdgeMissesNothing
<1> QED
  BY <1>1, EdgeInit_Inv, EdgeStep, PTL DEF EdgeSpec

(***************************************************************************)
(* Pages of a list that changes: TxQueries and MirrorQueries.              *)
(***************************************************************************)

(* Paging, for a list s, a page size P and a reader w. *)
FirstsOf(s, n) ==
    {B \in SUBSET DOMAIN s :
        /\ Cardinality(B) = Min({n, Cardinality(DOMAIN s)})
        /\ \A x \in B : \A y \in DOMAIN s \ B : s[x] >= s[y]}

(* The places down to the last of those that share the key of x. *)
Over(s, x) == {y \in DOMAIN s : s[y] >= s[x]}
Down(s, x) == Cardinality(Over(s, x))

IsList(s) == /\ s = [x \in DOMAIN s |-> s[x]] /\ IsFiniteSet(DOMAIN s)
             /\ \A x \in DOMAIN s : s[x] \in Nat

LEMMA MinOfTwo ==
    ASSUME NEW m \in Nat, NEW n \in Nat
    PROVE  Min({m, n}) = IF m <= n THEN m ELSE n
<1>1. Min({m, n}) \in {m, n} /\ \A y \in {m, n} : Min({m, n}) <= y
  BY MinIsLeast
<1> QED
  BY <1>1

LEMMA FirstsAre ==
    ASSUME NEW s, IsList(s), NEW n \in Nat, NEW B \in FirstsOf(s, n)
    PROVE  /\ B \in SUBSET DOMAIN s /\ IsFiniteSet(B) /\ Cardinality(B) \in Nat
           /\ Cardinality(DOMAIN s) \in Nat
           /\ Cardinality(B) = IF n <= Cardinality(DOMAIN s) THEN n ELSE Cardinality(DOMAIN s)
           /\ \A x \in B : \A y \in DOMAIN s \ B : s[x] >= s[y]
<1>1. B \in SUBSET DOMAIN s /\ Cardinality(DOMAIN s) \in Nat
  BY FS_CardinalityType DEF FirstsOf, IsList
<1>2. IsFiniteSet(B) /\ Cardinality(B) \in Nat
  BY <1>1, FS_Subset, FS_CardinalityType DEF IsList
<1>3. Cardinality(B) = Min({n, Cardinality(DOMAIN s)})
  BY DEF FirstsOf
<1> QED
  BY <1>1, <1>2, <1>3, MinOfTwo DEF FirstsOf

LEMMA DownIs ==
    ASSUME NEW s, IsList(s), NEW x
    PROVE  IsFiniteSet(Over(s, x)) /\ Over(s, x) \in SUBSET DOMAIN s /\ Down(s, x) \in Nat
  BY FS_Subset, FS_CardinalityType DEF Over, Down, IsList

(* What is behind the pages that were read and has a key of its own is on  *)
(* the next page, or behind that one, which then is full.                  *)
LEMMA PageTakes ==
    ASSUME NEW s, IsList(s), NEW P \in Nat \ {0}, NEW n \in Nat,
           NEW B \in FirstsOf(s, n), NEW F \in FirstsOf(s, n + P), B \subseteq F,
           NEW x \in DOMAIN s, \A y \in DOMAIN s \ {x} : s[x] # s[y],
           Down(s, x) > n
    PROVE  \/ x \in F \ B
           \/ Cardinality(F \ B) = P /\ Down(s, x) > n + P
<1>1. /\ IsFiniteSet(B) /\ Cardinality(B) \in Nat /\ B \in SUBSET DOMAIN s
      /\ Cardinality(B) = IF n <= Cardinality(DOMAIN s) THEN n ELSE Cardinality(DOMAIN s)
      /\ \A a \in B : \A y \in DOMAIN s \ B : s[a] >= s[y]
  BY FirstsAre
<1>2. /\ IsFiniteSet(F) /\ Cardinality(F) \in Nat /\ F \in SUBSET DOMAIN s
      /\ Cardinality(DOMAIN s) \in Nat
      /\ Cardinality(F) = IF n + P <= Cardinality(DOMAIN s) THEN n + P ELSE Cardinality(DOMAIN s)
      /\ \A a \in F : \A y \in DOMAIN s \ F : s[a] >= s[y]
  BY FirstsAre
<1>3. \A y \in DOMAIN s : s[y] \in Nat
  BY DEF IsList
<1>4. x \notin B
  <2> SUFFICES ASSUME x \in B
               PROVE  FALSE
    OBVIOUS
  <2>1. Over(s, x) \subseteq B
    <3>1. ASSUME NEW y \in DOMAIN s, y \notin B
          PROVE  ~(s[y] >= s[x])
      <4>1. s[x] >= s[y] /\ s[x] # s[y]
        BY <3>1, <1>1
      <4> QED
        BY <4>1, <1>3
    <3> QED
      BY <3>1 DEF Over
  <2>2. Down(s, x) <= Cardinality(B)
    BY <2>1, <1>1, FS_Subset DEF Down
  <2> QED
    BY <2>2, <1>1, <1>2, DownIs
<1>5. ASSUME x \notin F
      PROVE  Cardinality(F \ B) = P /\ Down(s, x) > n + P
  <2>1. Cardinality(F) = n + P /\ n <= Cardinality(DOMAIN s)
    <3>1. Cardinality(F) # Cardinality(DOMAIN s)
      BY <1>5, <1>2, FS_Subset DEF IsList
    <3> QED
      BY <3>1, <1>2
  <2>2. Cardinality(F \ B) = P
    <3>1. F \cap B = B
      OBVIOUS
    <3>2. Cardinality(F \ B) = Cardinality(F) - Cardinality(F \cap B)
      BY <1>2, FS_Difference
    <3> QED
      BY <3>1, <3>2, <2>1, <1>1
  <2>3. F \cup {x} \in SUBSET Over(s, x)
    BY <1>5, <1>2, <1>3 DEF Over
  <2>4. Cardinality(F \cup {x}) = Cardinality(F) + 1
    BY <1>2, <1>5, FS_AddElement
  <2>5. Cardinality(F \cup {x}) <= Down(s, x)
    BY <2>3, DownIs, FS_Subset DEF Down
  <2> QED
    BY <2>1, <2>2, <2>4, <2>5, DownIs
<1> QED
  BY <1>4, <1>5

(* While nothing above x goes or falls back x stays where it is, or comes  *)
(* further down.                                                           *)
LEMMA NothingPasses ==
    ASSUME NEW s, IsList(s), NEW t, IsList(t), NEW x \in DOMAIN s \cap DOMAIN t, t[x] = s[x],
           \A y \in DOMAIN s : s[x] <= s[y] => y \in DOMAIN t /\ t[y] >= s[y]
    PROVE  Down(s, x) <= Down(t, x)
<1>1. Over(s, x) \in SUBSET Over(t, x)
  BY DEF Over, IsList
<1> QED
  BY <1>1, DownIs, FS_Subset DEF Down

-----------------------------------------------------------------------------
(* Everything that was wanted and did not become unsure is still listed,   *)
(* and was seen or is behind the pages that were read.                     *)
ReaderKnows(s, P, w) ==
    /\ w.page \in Nat \ {0} /\ w.full \in BOOLEAN
    /\ w.at \in {"idle", "turn", "count", "over"}
    /\ w.at = "turn" => \A x \in w.wanted \ w.unsure :
           x \in DOMAIN s /\ (x \in w.seen \/ Down(s, x) > (w.page - 1) * P)
    /\ w.at = "count" => \A x \in w.wanted \ w.unsure :
           x \in DOMAIN s /\ (x \in w.seen \/ (w.full /\ Down(s, x) > w.page * P))
    /\ w.at = "over" => w.wanted \ w.unsure \subseteq w.seen

(* A count that is not yet taken will be that of the page. *)
ReaderCounts(s, w) ==
    /\ w.at = "count" /\ w.steady => w.found = Cardinality(DOMAIN s)
    /\ w.at \in {"turn", "over"} /\ w.page > 1 /\ w.steady => w.total = w.found

LEMMA OpenKeeps ==
    ASSUME NEW s, IsList(s), NEW P \in Nat \ {0}, NEW w, NEW w2,
           w2 = [at |-> "turn", page |-> 1, full |-> TRUE, seen |-> {}, wanted |-> DOMAIN s,
                 unsure |-> {}, found |-> 0, total |-> 0, steady |-> TRUE]
    PROVE  ReaderKnows(s, P, w2) /\ ReaderCounts(s, w2)
<1>1. (1 - 1) * P = 0
  OBVIOUS
<1>2. ASSUME NEW x \in DOMAIN s
      PROVE  Down(s, x) > 0
  <2>1. x \in Over(s, x)
    BY DEF Over, IsList
  <2>2. Down(s, x) # 0
    BY <2>1, DownIs, FS_EmptySet DEF Down
  <2> QED
    BY <2>2, DownIs
<1> QED
  BY <1>1, <1>2 DEF ReaderKnows, ReaderCounts

-----------------------------------------------------------------------------
(* What a reader of the list s of things I, and a change of it into t, do  *)
(* to the reading w; c is the count.                                       *)
WalksOf(I) == [at : {"idle", "turn", "count", "over"}, page : Nat, full : BOOLEAN,
               seen : SUBSET I, wanted : SUBSET I, unsure : SUBSET I,
               found : Nat, total : Nat, steady : BOOLEAN]

MayOpen(s, w, w2) ==
    /\ w.at = "idle"
    /\ w2 = [at |-> "turn", page |-> 1, full |-> TRUE, seen |-> {}, wanted |-> DOMAIN s,
             unsure |-> {}, found |-> 0, total |-> 0, steady |-> TRUE]

TiedIn(s) == {x \in DOMAIN s : \E y \in DOMAIN s \ {x} : s[x] = s[y]}

MayTurn(s, P, w, w2) ==
    /\ w.at = "turn"
    /\ \E B \in FirstsOf(s, (w.page - 1) * P), F \in FirstsOf(s, (w.page - 1) * P + P) :
           /\ B \subseteq F
           /\ w2 = [w EXCEPT !.at = "count", !.full = Cardinality(F \ B) = P,
                             !.seen = @ \cup (F \ B), !.unsure = @ \cup TiedIn(s),
                             !.found = Cardinality(DOMAIN s), !.steady = TRUE]

MayCount(c, w, w2) ==
    /\ w.at = "count"
    /\ w2 = [w EXCEPT !.at = IF w.full THEN "turn" ELSE "over", !.page = @ + 1, !.total = c]

Back(s, t) == {x \in DOMAIN s : x \notin DOMAIN t \/ t[x] < s[x]}
Gone(s, t) == {x \in DOMAIN s : x \notin DOMAIN t \/ t[x] # s[x]}
MayChange(s, t, w, w2) ==
    w2 = IF w.at \in {"idle", "over"} THEN w
         ELSE [w EXCEPT !.unsure = @ \cup Gone(s, t) \cup
                            {x \in DOMAIN s : \E y \in Back(s, t) : s[x] <= s[y]},
                        !.steady = @ /\ t = s]

LEMMA ReaderKeeps ==
    ASSUME NEW s, IsList(s), NEW P \in Nat \ {0}, NEW c \in Nat, NEW I, DOMAIN s \subseteq I,
           NEW w \in WalksOf(I), ReaderKnows(s, P, w), NEW w2,
           MayOpen(s, w, w2) \/ MayTurn(s, P, w, w2) \/ MayCount(c, w, w2)
    PROVE  /\ w2 \in WalksOf(I) /\ ReaderKnows(s, P, w2)
           /\ ReaderCounts(s, w) /\ c = Cardinality(DOMAIN s) => ReaderCounts(s, w2)
<1>1. CASE MayOpen(s, w, w2)
  <2>1. w2 \in WalksOf(I)
    BY <1>1 DEF MayOpen, WalksOf
  <2>2. ReaderKnows(s, P, w2) /\ ReaderCounts(s, w2)
    BY <1>1, OpenKeeps DEF MayOpen
  <2> QED
    BY <2>1, <2>2
<1>2. CASE MayTurn(s, P, w, w2)
  <2>1. PICK B \in FirstsOf(s, (w.page - 1) * P), F \in FirstsOf(s, (w.page - 1) * P + P) :
           /\ B \subseteq F
           /\ w2 = [w EXCEPT !.at = "count", !.full = Cardinality(F \ B) = P,
                             !.seen = @ \cup (F \ B), !.unsure = @ \cup TiedIn(s),
                             !.found = Cardinality(DOMAIN s), !.steady = TRUE]
    BY <1>2 DEF MayTurn
  <2>2. PICK full \in BOOLEAN : full <=> Cardinality(F \ B) = P
    OBVIOUS
  <2>3. Cardinality(DOMAIN s) \in Nat /\ F \in SUBSET DOMAIN s
    BY FS_CardinalityType DEF IsList, FirstsOf
  <2>4. /\ w2.at = "count" /\ w2.page = w.page /\ w2.full = full
        /\ w2.seen = w.seen \cup (F \ B) /\ w2.unsure = w.unsure \cup TiedIn(s)
        /\ w2.wanted = w.wanted /\ w2.found = Cardinality(DOMAIN s)
    BY <2>1, <2>2 DEF WalksOf
  <2>5. w2 \in WalksOf(I)
    <3>1. w.seen \cup (F \ B) \subseteq I /\ w.unsure \cup TiedIn(s) \subseteq I
      BY <2>3 DEF WalksOf, TiedIn
    <3> QED
      BY <2>1, <2>3, <3>1 DEF WalksOf
  <2>6. \A x \in DOMAIN s \ TiedIn(s) : \A y \in DOMAIN s \ {x} : s[x] # s[y]
    BY DEF TiedIn
  <2>7. PICK n \in Nat : n = (w.page - 1) * P /\ w.page * P = n + P
    <3>1. PICK p \in Nat \ {0} : p = w.page
      BY DEF ReaderKnows
    <3>2. (p - 1) * P \in Nat /\ p * P = (p - 1) * P + P
      OBVIOUS
    <3> QED
      BY <3>1, <3>2
  <2>8. ASSUME NEW x \in w2.wanted \ w2.unsure
        PROVE  x \in DOMAIN s /\ (x \in w2.seen \/ (w2.full /\ Down(s, x) > w2.page * P))
    <3>1. x \in w.wanted \ w.unsure /\ x \notin TiedIn(s)
      BY <2>4, <2>8
    <3>2. x \in DOMAIN s /\ (x \in w.seen \/ Down(s, x) > n)
      BY <1>2, <3>1, <2>7 DEF ReaderKnows, MayTurn
    <3>3. CASE x \in w.seen
      BY <3>2, <3>3, <2>4
    <3>4. CASE Down(s, x) > n
      <4>1. x \in F \ B \/ (Cardinality(F \ B) = P /\ Down(s, x) > n + P)
        BY <2>1, <2>6, <2>7, <3>1, <3>2, <3>4, PageTakes
      <4> QED
        BY <4>1, <3>2, <2>2, <2>4, <2>7
    <3> QED
      BY <3>2, <3>3, <3>4
  <2>9. ReaderKnows(s, P, w2) /\ ReaderCounts(s, w2)
    BY <2>4, <2>5, <2>8 DEF ReaderKnows, ReaderCounts
  <2> QED
    BY <2>5, <2>9
<1>3. CASE MayCount(c, w, w2)
  <2>1. w2 \in WalksOf(I)
    <3>1. PICK at \in {"turn", "over"} : at = IF w.full THEN "turn" ELSE "over"
      BY DEF WalksOf
    <3>2. PICK k \in Nat : k = w.page + 1
      BY DEF WalksOf
    <3>3. w2 = [w EXCEPT !.at = at, !.page = k, !.total = c]
      BY <1>3, <3>1, <3>2 DEF MayCount, WalksOf
    <3> QED
      BY <3>3 DEF WalksOf
  <2>2. /\ w.at = "count" /\ w2.at = (IF w.full THEN "turn" ELSE "over")
        /\ w2.page = w.page + 1 /\ w2.full = w.full /\ w2.seen = w.seen
        /\ w2.unsure = w.unsure /\ w2.wanted = w.wanted /\ w2.found = w.found
        /\ w2.steady = w.steady /\ w2.total = c
    BY <1>3 DEF MayCount, WalksOf
  <2>3. w.page \in Nat \ {0} /\ w2.page \in Nat \ {0} /\ w2.page - 1 = w.page
    BY <2>2 DEF ReaderKnows
  <2>4. ReaderKnows(s, P, w2)
    BY <2>2, <2>3 DEF ReaderKnows
  <2>5. ReaderCounts(s, w) /\ c = Cardinality(DOMAIN s) => ReaderCounts(s, w2)
    BY <2>2 DEF ReaderCounts
  <2> QED
    BY <2>1, <2>4, <2>5
<1> QED
  BY <1>1, <1>2, <1>3

LEMMA ReadingGoesOn ==
    ASSUME NEW s, IsList(s), NEW t, IsList(t), NEW P \in Nat \ {0}, NEW I,
           DOMAIN s \subseteq I,
           NEW w \in WalksOf(I), ReaderKnows(s, P, w), NEW w2, MayChange(s, t, w, w2)
    PROVE  /\ w2 \in WalksOf(I) /\ ReaderKnows(t, P, w2)
           /\ ReaderCounts(s, w) => ReaderCounts(t, w2)
<1>1. CASE w.at \in {"idle", "over"}
  <2>1. w2 = w
    BY <1>1 DEF MayChange
  <2> QED
    BY <1>1, <2>1 DEF ReaderKnows, ReaderCounts
<1>2. CASE w.at \in {"turn", "count"}
  <2> DEFINE unsure == w.unsure \cup Gone(s, t) \cup
                           {x \in DOMAIN s : \E y \in Back(s, t) : s[x] <= s[y]}
  <2>1. w2 = [w EXCEPT !.unsure = unsure, !.steady = w.steady /\ t = s]
    BY <1>2 DEF MayChange, WalksOf
  <2>2. unsure \in SUBSET I
    BY DEF WalksOf, Gone
  <2>3. PICK u \in SUBSET I : u = unsure
    BY <2>2
  <2>4. PICK st \in BOOLEAN : st <=> w.steady /\ t = s
    OBVIOUS
  <2>5. w2 = [w EXCEPT !.unsure = u, !.steady = st]
    BY <2>1, <2>3, <2>4 DEF WalksOf
  <2>6. /\ w2 \in WalksOf(I)
        /\ w2.at = w.at /\ w2.page = w.page /\ w2.full = w.full /\ w2.seen = w.seen
        /\ w2.wanted = w.wanted /\ w2.unsure = u /\ w2.found = w.found
        /\ w2.total = w.total /\ w2.steady = st
    BY <2>5 DEF WalksOf
  <2>7. ReaderKnows(t, P, w2)
    <3>1. ASSUME NEW x \in w2.wanted \ w2.unsure
          PROVE  /\ x \in w.wanted \ w.unsure
                 /\ x \in DOMAIN s => x \in DOMAIN t /\ Down(s, x) <= Down(t, x)
      <4>1. x \in w.wanted \ w.unsure /\ x \notin Gone(s, t)
        BY <3>1, <2>3, <2>6
      <4>2. ASSUME x \in DOMAIN s
            PROVE  x \in DOMAIN t /\ Down(s, x) <= Down(t, x)
        <5>1. x \in DOMAIN t /\ t[x] = s[x]
          BY <4>1, <4>2 DEF Gone
        <5>2. ASSUME NEW y \in DOMAIN s, s[x] <= s[y]
              PROVE  y \in DOMAIN t /\ t[y] >= s[y]
          <6>1. y \notin Back(s, t)
            BY <3>1, <2>3, <2>6, <4>2, <5>2
          <6>2. y \in DOMAIN t /\ ~(t[y] < s[y])
            BY <6>1 DEF Back
          <6> QED
            BY <6>2 DEF IsList
        <5> QED
          BY <5>1, <5>2, <4>2, NothingPasses
      <4> QED
        BY <4>1, <4>2
    <3>2. (w.page - 1) * P \in Int /\ w.page * P \in Int
      BY DEF ReaderKnows
    <3>3. \A x \in DOMAIN s : Down(s, x) \in Nat /\ Down(t, x) \in Nat
      BY DownIs
    <3> QED
      BY <1>2, <2>6, <3>1, <3>2, <3>3 DEF ReaderKnows
  <2>8. ReaderCounts(s, w) => ReaderCounts(t, w2)
    BY <2>4, <2>6 DEF ReaderCounts
  <2> QED
    BY <2>6, <2>7, <2>8
<1> QED
  BY <1>1, <1>2 DEF WalksOf

LEMMA AtFirst ==
    ASSUME NEW s, NEW P, NEW I
    PROVE  LET w == [at |-> "idle", page |-> 1, full |-> TRUE, seen |-> {}, wanted |-> {},
                     unsure |-> {}, found |-> 0, total |-> 0, steady |-> TRUE]
           IN  w \in WalksOf(I) /\ ReaderKnows(s, P, w) /\ ReaderCounts(s, w)
  BY DEF WalksOf, ReaderKnows, ReaderCounts

-----------------------------------------------------------------------------
(* Lists of transactions. *)
TxShown == [x \in TxsOf |-> KeyOf(x)]

TxBasics ==
    /\ txList \in TxLists
    /\ height \in [Txs -> 0..TopHeight]
    /\ named \subseteq Stored /\ bound \subseteq Stored
    /\ supported \in TypeLists

LEMMA TypedAreStored ==
    \A T : Typed(T) \subseteq Stored /\ TypedOr(T) \subseteq Stored
  BY DEF Typed, TypedOr

LEMMA TxsAreStored == txList \in TxLists => TxsOf \subseteq Stored
<1> SUFFICES ASSUME txList \in TxLists
             PROVE  TxsOf \subseteq Stored
  OBVIOUS
<1>1. CASE txList \in {"txs", "staking", "coinswap", "declaration", "gov"}
  BY <1>1, TypedAreStored DEF TxsOf, QueryTxList, QueryStakingTxList, QueryCoinswapTxList,
     QueryDeclarationTxList, QueryGovTxList
<1>2. CASE txList \in {"blocks", "addresses", "relevance", "nfts", "identity", "asset"}
  BY <1>2, TypedAreStored DEF TxsOf, QueryTxWithHeight, QueryTxWithAddress,
     QueryTxWithContextId, QueryTxWithNft, QueryTxListByIdentity, QueryTxWithAsset
<1>3. CASE txList \in {"call-service", "respond-service", "services", "providers"}
  BY <1>3, TypedAreStored DEF TxsOf, QueryCallServiceWithConsumerAddr,
     QueryBindServiceWithProviderAddr, FindServiceAllList, FindBindServiceTxList
<1>4. CASE txList \in {"service tx", "respond", "depositors", "deposits"}
  BY <1>4, TypedAreStored DEF TxsOf, FindServiceTx, QueryServiceRespondTx,
     QueryDepositorById, QueryDepositsByAddress, Succeeded
<1> QED
  BY <1>1, <1>2, <1>3, <1>4 DEF TxLists

(* Lists and counts select alike. *)
LEMMA TxCountIs == txList \in TxLists => TxCount = Cardinality(TxsOf)
<1> SUFFICES ASSUME txList \in TxLists
             PROVE  TxCount = Cardinality(TxsOf)
  OBVIOUS
<1>1. CASE txList = "services"
  BY <1>1 DEF TxCount, TxsOf, FindAllServiceCount, FindServiceAllList
<1>2. CASE txList = "providers"
  BY <1>2 DEF TxCount, TxsOf, FindServiceProviderCount, FindBindServiceTxList
<1>3. CASE txList = "service tx"
  BY <1>3 DEF TxCount, TxsOf, FindServiceTxCount, FindServiceTx
<1>4. CASE txList = "respond"
  <2>1. {x \in Typed({"respond_service"}) :
            /\ query.value # None => x \in NamedAs(query.value)
            /\ query.other # None => <<"provider", query.other>> \in body[x].says}
        = QueryServiceRespondTx
    BY TypedAreStored DEF QueryServiceRespondTx, MaySay, Says
  <2> QED
    BY <1>4, <2>1 DEF TxCount, TxsOf, FindRespondServiceCount
<1>5. CASE txList \notin {"services", "providers", "service tx", "respond"}
  BY <1>5 DEF TxCount
<1> QED
  BY <1>1, <1>2, <1>3, <1>4, <1>5

LEMMA TxShownIsList ==
    TxBasics => /\ IsList(TxShown) /\ DOMAIN TxShown = TxsOf /\ TxsOf \subseteq Txs
                /\ TxCount = Cardinality(DOMAIN TxShown) /\ TxCount \in Nat
<1> SUFFICES ASSUME TxBasics
             PROVE  /\ IsList(TxShown) /\ DOMAIN TxShown = TxsOf /\ TxsOf \subseteq Txs
                    /\ TxCount = Cardinality(DOMAIN TxShown) /\ TxCount \in Nat
  OBVIOUS
<1>1. TxsOf \in SUBSET Txs
  BY TxsAreStored DEF TxBasics, Stored
<1>2. IsFiniteSet(TxsOf) /\ Cardinality(TxsOf) \in Nat
  BY <1>1, TxQuerySettings, FS_Subset, FS_CardinalityType
<1>3. \A x \in TxsOf : KeyOf(x) \in Nat
  BY <1>1, TxQuerySettings DEF KeyOf, TxBasics
<1>4. DOMAIN TxShown = TxsOf /\ \A x \in TxsOf : TxShown[x] = KeyOf(x)
  BY DEF TxShown
<1>5. TxShown = [x \in DOMAIN TxShown |-> TxShown[x]]
  BY DEF TxShown
<1> QED
  BY <1>1, <1>2, <1>3, <1>4, <1>5, TxCountIs DEF IsList, TxBasics

TxShownIsFine == IsList(TxShown) /\ DOMAIN TxShown \subseteq Txs

LEMMA TxShownNext == TxBasics' => TxShownIsFine'
<1>1. TxBasics => TxShownIsFine
  BY TxShownIsList DEF TxShownIsFine
<1> QED
  BY <1>1, PTL

(* The operators that Paging takes from the library. *)
LEMMA TxReaderCounts ==
    \A S : TxReader!Cardinality(S) = Cardinality(S) /\ TxReader!Min(S) = Min(S)
<1>1. \A S : TxReader!Cardinality(S) = Cardinality(S)
  BY DEF TxReader!Cardinality, Cardinality
<1>2. \A S : TxReader!Min(S) = Min(S)
  BY DEF TxReader!Min, Min
<1> QED
  BY <1>1, <1>2

TxReading ==
    /\ txWalk \in WalksOf(Txs)
    /\ ReaderKnows(TxShown, TxsPerPage, txWalk)
    /\ ReaderCounts(TxShown, txWalk)

TxsInv == TxBasics /\ TxReading

LEMMA TxReaderReads ==
    TxReader!ReaderStep =>
        \/ MayOpen(TxShown, txWalk, txWalk')
        \/ MayTurn(TxShown, TxsPerPage, txWalk, txWalk')
        \/ MayCount(TxCount, txWalk, txWalk')
<1>1. TxReader!OpenList => MayOpen(TxShown, txWalk, txWalk')
  BY DEF TxReader!OpenList, TxReader!NotReading, TxReader!Listed, MayOpen, TxShown
<1>2. TxReader!TurnPage => MayTurn(TxShown, TxsPerPage, txWalk, txWalk')
  <2>1. \A n : TxReader!Firsts(n) = FirstsOf(TxShown, n)
    BY TxReaderCounts DEF TxReader!Firsts, TxReader!Listed, FirstsOf, TxShown
  <2>2. TxReader!Tied = TiedIn(TxShown) /\ TxReader!Listed = DOMAIN TxShown
    BY DEF TxReader!Tied, TxReader!Listed, TiedIn, TxShown
  <2> SUFFICES ASSUME TxReader!TurnPage
               PROVE  MayTurn(TxShown, TxsPerPage, txWalk, txWalk')
    OBVIOUS
  <2>3. PICK A \in TxReader!Page(txWalk.page) :
            txWalk' = [txWalk EXCEPT
                !.at = "count", !.full = Cardinality(A) = TxsPerPage,
                !.seen = txWalk.seen \cup A, !.unsure = txWalk.unsure \cup TiedIn(TxShown),
                !.found = Cardinality(DOMAIN TxShown), !.steady = TRUE]
    BY <2>2, TxReaderCounts DEF TxReader!TurnPage
  <2>4. PICK B \in FirstsOf(TxShown, (txWalk.page - 1) * TxsPerPage),
             F \in FirstsOf(TxShown, (txWalk.page - 1) * TxsPerPage + TxsPerPage) :
             B \subseteq F /\ A = F \ B
    BY <2>1 DEF TxReader!Page, TxReader!Skipped
  <2>5. txWalk.at = "turn"
    BY DEF TxReader!TurnPage
  <2> QED
    BY <2>3, <2>4, <2>5 DEF MayTurn
<1>3. TxReader!CountList => MayCount(TxCount, txWalk, txWalk')
  BY DEF TxReader!CountList, MayCount
<1> QED
  BY <1>1, <1>2, <1>3 DEF TxReader!ReaderStep

LEMMA TxListMoves ==
    TxReader!ListChanges => MayChange(TxShown, TxShown', txWalk, txWalk')
  BY DEF TxReader!ListChanges, TxReader!Moved, TxReader!Backwards, TxReader!Listed,
     MayChange, Gone, Back, TxShown


LEMMA TxsSame ==
    UNCHANGED <<txList, query, body, height, named, bound, supported>> => TxShown' = TxShown
  BY DEF Stored, TxShown, TxsOf, KeyOf, QueryTxList,
     QueryStakingTxList, QueryCoinswapTxList, QueryDeclarationTxList, QueryGovTxList,
     QueryTxWithHeight, QueryTxWithAddress, QueryTxWithContextId, QueryTxWithNft,
     QueryTxListByIdentity, QueryTxWithAsset, QueryCallServiceWithConsumerAddr,
     QueryBindServiceWithProviderAddr, FindServiceAllList, FindBindServiceTxList,
     FindServiceTx, QueryServiceRespondTx, QueryDepositorById, QueryDepositsByAddress,
     Typed, TypedOr, Succeeded, InStatus, InPeriod, Says, MaySay, NamedAs

LEMMA WalksAre == TxReader!Walks = WalksOf(Txs) /\ DocReader!Walks = WalksOf(Docs)
  BY DEF TxReader!Walks, DocReader!Walks, WalksOf

LEMMA TxsStartInv == TxsStart => TxsInv
<1> SUFFICES ASSUME TxsStart
             PROVE  TxsInv
  OBVIOUS
<1>1. TxBasics
  <2>1. height \in [Txs -> 0..TopHeight]
    BY TxQuerySettings DEF TxsStart
  <2> QED
    BY <2>1 DEF TxsStart, TxBasics
<1>2. txWalk = [at |-> "idle", page |-> 1, full |-> TRUE, seen |-> {}, wanted |-> {},
                unsure |-> {}, found |-> 0, total |-> 0, steady |-> TRUE]
  BY DEF TxsStart, TxReader!NotReading
<1> QED
  BY <1>1, <1>2, AtFirst DEF TxsInv, TxReading

(* A change of what is listed, whatever it is, leaves a reading right.     *)
LEMMA TxListMayMove ==
    TxsInv /\ TxBasics' /\ TxReader!ListChanges => TxsInv'
<1> SUFFICES ASSUME TxsInv, TxBasics', TxReader!ListChanges
             PROVE  TxReading'
  BY DEF TxsInv
<1>1. IsList(TxShown) /\ DOMAIN TxShown \subseteq Txs /\ IsList(TxShown')
  BY TxShownIsList, TxShownNext DEF TxsInv, TxShownIsFine
<1>2. MayChange(TxShown, TxShown', txWalk, txWalk')
  BY TxListMoves
<1>3. /\ txWalk \in WalksOf(Txs) /\ ReaderKnows(TxShown, TxsPerPage, txWalk)
      /\ ReaderCounts(TxShown, txWalk)
  BY DEF TxsInv, TxReading
<1>4. /\ txWalk' \in WalksOf(Txs) /\ ReaderKnows(TxShown', TxsPerPage, txWalk')
      /\ ReaderCounts(TxShown', txWalk')
  BY <1>1, <1>2, <1>3, ReadingGoesOn, TxQuerySettings
<1> QED
  BY <1>4 DEF TxReading

LEMMA TxsStepInv == TxsInv /\ [TxsNext]_txVars => TxsInv'
<1> SUFFICES ASSUME TxsInv, [TxsNext]_txVars
             PROVE  TxsInv'
  OBVIOUS
<1>1. ASSUME NEW S \in SUBSET Txs, StoreTxs(S)
      PROVE  TxsInv'
  <2> DEFINE heights == {height[x] : x \in Txs}
  <2>1. heights \in SUBSET Nat /\ heights # {} /\ IsFiniteSet(heights)
    <3>1. heights \in SUBSET (0..TopHeight) /\ heights # {}
      BY <1>1 DEF StoreTxs, TxsInv, TxBasics
    <3>2. IsFiniteSet(0..TopHeight) /\ 0..TopHeight \subseteq Nat
      BY FS_Interval, TxQuerySettings
    <3>3. IsFiniteSet(heights)
      BY <3>1, <3>2, FS_Subset
    <3> HIDE DEF heights
    <3> QED
      BY <3>1, <3>2, <3>3
  <2>2. PICK top \in 0..TopHeight : top = Max(heights)
    <3>1. Max(heights) \in heights
      BY <2>1, FiniteMax
    <3> QED
      BY <3>1 DEF TxsInv, TxBasics
  <2>3. /\ top < TopHeight
        /\ height' = [x \in Txs |-> IF x \in S THEN top + 1 ELSE height[x]]
        /\ UNCHANGED <<txList, query, body, named, bound, supported>>
    BY <1>1, <2>2 DEF StoreTxs
  <2>4. height' \in [Txs -> 0..TopHeight]
    <3>1. top + 1 \in 0..TopHeight
      BY <2>3, TxQuerySettings
    <3> QED
      BY <2>3, <3>1 DEF TxsInv, TxBasics
  <2>5. Stored \subseteq Stored'
    BY <2>3 DEF Stored, TxsInv, TxBasics
  <2>6. TxBasics'
    BY <2>3, <2>4, <2>5 DEF TxsInv, TxBasics
  <2> QED
    BY <1>1, <2>6, TxListMayMove DEF StoreTxs
<1>2. ASSUME NEW x \in Txs, AddName(x)
      PROVE  TxsInv'
  <2>1. x \in Stored /\ Stored' = Stored
    BY <1>2, TypedAreStored DEF AddName, Stored
  <2>2. TxBasics'
    BY <1>2, <2>1 DEF AddName, TxsInv, TxBasics
  <2> QED
    BY <1>2, <2>2, TxListMayMove DEF AddName
<1>3. ASSUME NEW x \in Txs, AddBind(x)
      PROVE  TxsInv'
  <2>1. x \in Stored /\ Stored' = Stored
    BY <1>3, TypedAreStored DEF AddBind, Stored
  <2>2. TxBasics'
    BY <1>3, <2>1 DEF AddBind, TxsInv, TxBasics
  <2> QED
    BY <1>3, <2>2, TxListMayMove DEF AddBind
<1>4. CASE CacheTypes
  <2>1. TxBasics'
    BY <1>4 DEF CacheTypes, TxsInv, TxBasics, Stored
  <2> QED
    BY <1>4, <2>1, TxListMayMove DEF CacheTypes
<1>5. CASE TxReader!ReaderStep
           /\ UNCHANGED <<txList, query, body, height, named, bound, supported>>
  <2>1. TxBasics' /\ TxShown' = TxShown
    BY <1>5, TxsSame DEF TxsInv, TxBasics, Stored
  <2>2. /\ IsList(TxShown) /\ DOMAIN TxShown \subseteq Txs
        /\ TxCount \in Nat /\ TxCount = Cardinality(DOMAIN TxShown)
    BY TxShownIsList DEF TxsInv
  <2>3. /\ txWalk' \in WalksOf(Txs) /\ ReaderKnows(TxShown, TxsPerPage, txWalk')
        /\ ReaderCounts(TxShown, txWalk')
    BY <1>5, <2>2, TxReaderReads, ReaderKeeps, TxQuerySettings DEF TxsInv, TxReading
  <2> QED
    BY <2>1, <2>3 DEF TxsInv, TxReading
<1>6. CASE UNCHANGED txVars
  <2>1. TxBasics' /\ TxShown' = TxShown /\ txWalk' = txWalk
    BY <1>6, TxsSame DEF txVars, TxsInv, TxBasics, Stored
  <2> QED
    BY <2>1 DEF TxsInv, TxReading
<1> QED
  BY <1>1, <1>2, <1>3, <1>4, <1>5, <1>6 DEF TxsNext

LEMMA TxsInvMeans == TxsInv => TxsTypeOK /\ TxsAreNotMissed /\ TxCountsMatch
<1>1. TxsInv => TxsTypeOK
  BY WalksAre DEF TxsInv, TxBasics, TxReading, TxsTypeOK
<1>2. TxsInv => TxsAreNotMissed
  BY DEF TxsInv, TxReading, ReaderKnows, TxsAreNotMissed, TxReader!ReaderMissesNothing
<1>3. TxsInv => TxCountsMatch
  BY DEF TxsInv, TxReading, ReaderCounts, TxCountsMatch, TxReader!CountMatchesPage
<1> QED
  BY <1>1, <1>2, <1>3

-----------------------------------------------------------------------------
(* Lists of documents. *)
DocShown == [d \in DocsOf |-> IF docList \in Unsorted THEN 0 ELSE rank[d]]

DocBasics ==
    /\ docList \in DocLists
    /\ rank \in [Docs -> 0..TopRank] /\ edits \in 0..MaxEdits

LEMMA DocsAreThere == docList \in DocLists => DocsOf \subseteq There
<1>1. ASSUME NEW f, NEW x
      PROVE  Holds(f, x) \subseteq There /\ MayHold(f, x) \subseteq There
             /\ Is(f) \subseteq There
  BY DEF Holds, MayHold, Is
<1> QED
  BY <1>1 DEF DocsOf, DocLists, ChainLists, FindNftList, FindDenomList, QueryIdentityList,
     QueryIdentityByAddress, QueryPubkeyList, QueryCertificate, FindValidators,
     QueryValidatorsByStatus, QueryProposals, FindTokenList

LEMMA DocsSame == UNCHANGED <<docList, asked, facts, rank>> => DocShown' = DocShown
  BY DEF DocShown, DocsOf, FindNftList, FindDenomList, QueryIdentityList,
     QueryIdentityByAddress, QueryPubkeyList, QueryCertificate, FindValidators,
     QueryValidatorsByStatus, QueryProposals, FindTokenList, There, Holds, MayHold, Is

(* A count is one of the list, but for tokens and unbonding delegations.   *)
LEMMA OneOfTwo ==
    ASSUME NEW m \in Int, NEW n \in Int
    PROVE  Min({m, n}) \in {m, n} /\ Max({m, n}) \in {m, n} /\ n <= Max({m, n})
                                                            /\ m <= Max({m, n})
<1>1. CASE m <= n
  BY <1>1 DEF Min, Max
<1>2. CASE n <= m
  BY <1>2 DEF Min, Max
<1> QED
  BY <1>1, <1>2

LEMMA DocCountIs ==
    docList \in DocLists \ {"tokens", "unbondings"} => DocCount = Cardinality(DocsOf)
<1>1. QueryDenomCount = Cardinality(FindDenomList)
  BY DEF QueryDenomCount, FindDenomList
<1>2. CASE docList = "nfts"
  <2>1. DocsOf = FindNftList /\ DocCount = FindNftCount
    BY <1>2 DEF DocCount, DocsOf, ChainLists
  <2> QED
    BY <2>1 DEF FindNftCount
<1>3. CASE docList = "denoms"
  <2>1. DocsOf = FindDenomList /\ DocCount = QueryDenomCount
    BY <1>3 DEF DocCount, DocsOf, ChainLists
  <2> QED
    BY <1>1, <2>1
<1>4. CASE docList \notin {"nfts", "denoms"}
  BY <1>4 DEF DocCount
<1> QED
  BY <1>2, <1>3, <1>4

LEMMA DocShownIsList ==
    DocBasics =>
        /\ IsList(DocShown) /\ DOMAIN DocShown = DocsOf /\ DocsOf \subseteq Docs
        /\ docList \notin {"tokens", "unbondings"} =>
               DocCount = Cardinality(DOMAIN DocShown)
<1> SUFFICES ASSUME DocBasics
             PROVE  /\ IsList(DocShown) /\ DOMAIN DocShown = DocsOf /\ DocsOf \subseteq Docs
                    /\ docList \notin {"tokens", "unbondings"} =>
                           DocCount = Cardinality(DOMAIN DocShown)
  OBVIOUS
<1>1. DocsOf \in SUBSET Docs
  BY DocsAreThere DEF DocBasics, There
<1>2. IsFiniteSet(DocsOf)
  BY <1>1, DocQuerySettings, FS_Subset
<1>3. DOMAIN DocShown = DocsOf /\ \A d \in DocsOf : DocShown[d] \in Nat
  BY <1>1, DocQuerySettings DEF DocShown, DocBasics
<1>4. DocShown = [d \in DOMAIN DocShown |-> DocShown[d]]
  BY DEF DocShown
<1> QED
  BY <1>1, <1>2, <1>3, <1>4, DocCountIs DEF IsList, DocBasics

LEMMA DocCountIsNat ==
    DocBasics /\ docWalk \in WalksOf(Docs) => DocCount \in Nat
<1> SUFFICES ASSUME DocBasics, docWalk \in WalksOf(Docs)
             PROVE  DocCount \in Nat
  OBVIOUS
<1>1. \A S \in SUBSET Docs : Cardinality(S) \in Nat
  BY DocQuerySettings, FS_Subset, FS_CardinalityType
<1>2. There \in SUBSET Docs /\ There \ Is("is_main_token") \in SUBSET Docs
      /\ DocsOf \in SUBSET Docs
  BY DocShownIsList DEF There
<1>3. CASE docList = "tokens"
  BY <1>1, <1>2, <1>3 DEF DocCount, FindTokenCount
<1>4. CASE docList = "unbondings"
  <2>1. PICK m \in Int : m = Cardinality(There) - (docWalk.page - 1) * DocsPerPage
    BY <1>1, <1>2, DocQuerySettings DEF WalksOf
  <2>2. PICK k \in Int : k = Min({DocsPerPage, m})
    <3>1. DocsPerPage \in Int
      BY DocQuerySettings
    <3>2. Min({DocsPerPage, m}) \in {DocsPerPage, m}
      BY <3>1, OneOfTwo
    <3> QED
      BY <3>1, <3>2
  <2>3. Max({0, k}) \in Nat
    <3>1. Max({0, k}) \in {0, k} /\ 0 <= Max({0, k})
      BY OneOfTwo
    <3> QED
      BY <3>1
  <2> QED
    BY <1>4, <2>1, <2>2, <2>3 DEF DocCount, UnbondingCount
<1>5. CASE docList \notin {"tokens", "unbondings"}
  BY <1>1, <1>2, <1>5, DocCountIs DEF DocBasics
<1> QED
  BY <1>3, <1>4, <1>5

DocShownIsFine == IsList(DocShown) /\ DOMAIN DocShown \subseteq Docs

LEMMA DocShownNext == DocBasics' => DocShownIsFine'
<1>1. DocBasics => DocShownIsFine
  BY DocShownIsList DEF DocShownIsFine
<1> QED
  BY <1>1, PTL

LEMMA DocReaderCounts ==
    \A S : DocReader!Cardinality(S) = Cardinality(S) /\ DocReader!Min(S) = Min(S)
<1>1. \A S : DocReader!Cardinality(S) = Cardinality(S)
  BY DEF DocReader!Cardinality, Cardinality
<1>2. \A S : DocReader!Min(S) = Min(S)
  BY DEF DocReader!Min, Min
<1> QED
  BY <1>1, <1>2

DocReading ==
    /\ docWalk \in WalksOf(Docs)
    /\ ReaderKnows(DocShown, DocsPerPage, docWalk)
    /\ docList \notin {"tokens", "unbondings"} => ReaderCounts(DocShown, docWalk)

DocsInv == DocBasics /\ DocReading

LEMMA DocReaderReads ==
    DocReader!ReaderStep =>
        \/ MayOpen(DocShown, docWalk, docWalk')
        \/ MayTurn(DocShown, DocsPerPage, docWalk, docWalk')
        \/ MayCount(DocCount, docWalk, docWalk')
<1>1. DocReader!OpenList => MayOpen(DocShown, docWalk, docWalk')
  BY DEF DocReader!OpenList, DocReader!NotReading, DocReader!Listed, MayOpen, DocShown
<1>2. DocReader!TurnPage => MayTurn(DocShown, DocsPerPage, docWalk, docWalk')
  <2>1. \A n : DocReader!Firsts(n) = FirstsOf(DocShown, n)
    BY DocReaderCounts DEF DocReader!Firsts, DocReader!Listed, FirstsOf, DocShown
  <2>2. DocReader!Tied = TiedIn(DocShown) /\ DocReader!Listed = DOMAIN DocShown
    BY DEF DocReader!Tied, DocReader!Listed, TiedIn, DocShown
  <2> SUFFICES ASSUME DocReader!TurnPage
               PROVE  MayTurn(DocShown, DocsPerPage, docWalk, docWalk')
    OBVIOUS
  <2>3. PICK A \in DocReader!Page(docWalk.page) :
            docWalk' = [docWalk EXCEPT
                !.at = "count", !.full = Cardinality(A) = DocsPerPage,
                !.seen = docWalk.seen \cup A, !.unsure = docWalk.unsure \cup TiedIn(DocShown),
                !.found = Cardinality(DOMAIN DocShown), !.steady = TRUE]
    BY <2>2, DocReaderCounts DEF DocReader!TurnPage
  <2>4. PICK B \in FirstsOf(DocShown, (docWalk.page - 1) * DocsPerPage),
             F \in FirstsOf(DocShown, (docWalk.page - 1) * DocsPerPage + DocsPerPage) :
             B \subseteq F /\ A = F \ B
    BY <2>1 DEF DocReader!Page, DocReader!Skipped
  <2>5. docWalk.at = "turn"
    BY DEF DocReader!TurnPage
  <2> QED
    BY <2>3, <2>4, <2>5 DEF MayTurn
<1>3. DocReader!CountList => MayCount(DocCount, docWalk, docWalk')
  BY DEF DocReader!CountList, MayCount
<1> QED
  BY <1>1, <1>2, <1>3 DEF DocReader!ReaderStep

LEMMA DocListMoves ==
    DocReader!ListChanges => MayChange(DocShown, DocShown', docWalk, docWalk')
  BY DEF DocReader!ListChanges, DocReader!Moved, DocReader!Backwards, DocReader!Listed,
     MayChange, Gone, Back, DocShown

LEMMA DocsStartInv == DocsStart => DocsInv
<1> SUFFICES ASSUME DocsStart
             PROVE  DocsInv
  OBVIOUS
<1>1. DocBasics
  BY DocQuerySettings DEF DocsStart, DocBasics
<1>2. docWalk = [at |-> "idle", page |-> 1, full |-> TRUE, seen |-> {}, wanted |-> {},
                 unsure |-> {}, found |-> 0, total |-> 0, steady |-> TRUE]
  BY DEF DocsStart, DocReader!NotReading
<1> QED
  BY <1>1, <1>2, AtFirst DEF DocsInv, DocReading

LEMMA DocListMayMove ==
    DocsInv /\ DocBasics' /\ docList' = docList /\ DocReader!ListChanges => DocsInv'
<1> SUFFICES ASSUME DocsInv, DocBasics', docList' = docList, DocReader!ListChanges
             PROVE  DocReading'
  BY DEF DocsInv
<1>1. IsList(DocShown) /\ DOMAIN DocShown \subseteq Docs /\ IsList(DocShown')
  BY DocShownIsList, DocShownNext DEF DocsInv, DocShownIsFine
<1>2. MayChange(DocShown, DocShown', docWalk, docWalk')
  BY DocListMoves
<1>3. docWalk \in WalksOf(Docs) /\ ReaderKnows(DocShown, DocsPerPage, docWalk)
  BY DEF DocsInv, DocReading
<1>4. /\ docWalk' \in WalksOf(Docs) /\ ReaderKnows(DocShown', DocsPerPage, docWalk')
      /\ ReaderCounts(DocShown, docWalk) => ReaderCounts(DocShown', docWalk')
  BY <1>1, <1>2, <1>3, ReadingGoesOn, DocQuerySettings
<1> QED
  BY <1>4 DEF DocsInv, DocReading

LEMMA DocsStepInv == DocsInv /\ [DocsNext]_docVars => DocsInv'
<1> SUFFICES ASSUME DocsInv, [DocsNext]_docVars
             PROVE  DocsInv'
  OBVIOUS
<1>1. edits < MaxEdits => edits + 1 \in 0..MaxEdits
  BY DocQuerySettings DEF DocsInv, DocBasics
<1>2. ASSUME NEW d \in Docs, PutDoc(d)
      PROVE  DocsInv'
  <2>1. PICK k \in RanksFor(d) \cap 1..TopRank : rank' = [rank EXCEPT ![d] = k]
    BY <1>2 DEF PutDoc
  <2>2. k \in 0..TopRank
    BY <2>1, DocQuerySettings
  <2>3. DocBasics'
    BY <1>1, <1>2, <2>1, <2>2 DEF PutDoc, DocsInv, DocBasics
  <2> QED
    BY <1>2, <2>3, DocListMayMove DEF PutDoc
<1>3. ASSUME NEW d \in Docs, DropDoc(d)
      PROVE  DocsInv'
  <2>1. 0 \in 0..TopRank
    BY DocQuerySettings
  <2>2. DocBasics'
    BY <1>1, <1>3, <2>1 DEF DropDoc, DocsInv, DocBasics
  <2> QED
    BY <1>3, <2>2, DocListMayMove DEF DropDoc
<1>4. ASSUME NEW d \in Docs, ChangeFact(d)
      PROVE  DocsInv'
  <2>1. DocBasics'
    BY <1>1, <1>4 DEF ChangeFact, DocsInv, DocBasics
  <2> QED
    BY <1>4, <2>1, DocListMayMove DEF ChangeFact
<1>5. CASE DocReader!ReaderStep /\ UNCHANGED <<docList, asked, facts, rank, edits>>
  <2>1. DocBasics' /\ DocShown' = DocShown
    BY <1>5, DocsSame DEF DocsInv, DocBasics
  <2>2. /\ IsList(DocShown) /\ DOMAIN DocShown \subseteq Docs /\ DocCount \in Nat
        /\ docList \notin {"tokens", "unbondings"} =>
               DocCount = Cardinality(DOMAIN DocShown)
    BY DocShownIsList, DocCountIsNat DEF DocsInv, DocReading
  <2>3. /\ docWalk' \in WalksOf(Docs) /\ ReaderKnows(DocShown, DocsPerPage, docWalk')
        /\ ReaderCounts(DocShown, docWalk) /\ DocCount = Cardinality(DOMAIN DocShown)
               => ReaderCounts(DocShown, docWalk')
    BY <1>5, <2>2, DocReaderReads, ReaderKeeps, DocQuerySettings DEF DocsInv, DocReading
  <2> QED
    BY <1>5, <2>1, <2>2, <2>3 DEF DocsInv, DocReading
<1>6. CASE UNCHANGED docVars
  <2>1. DocBasics' /\ DocShown' = DocShown /\ docWalk' = docWalk /\ docList' = docList
    BY <1>6, DocsSame DEF docVars, DocsInv, DocBasics
  <2> QED
    BY <2>1 DEF DocsInv, DocReading
<1> QED
  BY <1>2, <1>3, <1>4, <1>5, <1>6 DEF DocsNext

LEMMA DocsInvMeans == DocsInv => DocsTypeOK /\ DocsAreNotMissed /\ DocCountsMatch
<1>1. DocsInv => DocsTypeOK
  BY WalksAre DEF DocsInv, DocBasics, DocReading, DocsTypeOK
<1>2. DocsInv => DocsAreNotMissed
  BY DEF DocsInv, DocReading, ReaderKnows, DocsAreNotMissed, DocReader!ReaderMissesNothing
<1>3. DocsInv => DocCountsMatch
  BY DEF DocsInv, DocReading, ReaderCounts, DocCountsMatch, DocReader!CountMatchesPage
<1> QED
  BY <1>1, <1>2, <1>3

(***************************************************************************)
(* Queries: the types of what the pages read.                              *)
(***************************************************************************)
LEMMA VotersTypeInit == VotersInit => VotersTypeOK
<1> SUFFICES ASSUME VotersInit
             PROVE  VotersTypeOK
  OBVIOUS
<1>1. PICK t \in {"all", "validator", "delegator"}, u \in BOOLEAN :
           voters = [at |-> "votes", type |-> t, useCount |-> u, hashes |-> {},
                     known |-> {}, byOption |-> <<>>, all |-> 0, validator |-> 0,
                     delegator |-> 0, listed |-> {}, then |-> {}]
  BY DEF VotersInit
<1>2. 0 \in Numbers
  BY BallotSettings, FS_CardinalityType DEF Numbers
<1>3. <<>> \in [{} -> Numbers] /\ {} \in SUBSET Options
  OBVIOUS
<1>4. <<>> \in UNION {[C -> Numbers] : C \in SUBSET Options}
  BY <1>3
<1>5. voters \in Requests
  BY <1>1, <1>2, <1>4 DEF Requests
<1>6. castAt \in [Ballots -> 0..TopBallot] /\ validating \subseteq People
  BY BallotSettings DEF VotersInit
<1> QED
  BY <1>5, <1>6 DEF VotersTypeOK

LEMMA BallotsCount ==
    ASSUME NEW H \in SUBSET Ballots
    PROVE  Cardinality(H) \in Numbers
<1>1. Cardinality(H) \in Nat /\ Cardinality(Ballots) \in Nat
  BY VotesAreFinite
<1>2. Cardinality(H) <= Cardinality(Ballots)
  BY BallotSettings, FS_Subset
<1> QED
  BY <1>1, <1>2 DEF Numbers

LEMMA VotersTypeStep == VotersInv /\ VotersTypeOK /\ [VotersNext]_voterVars => VotersTypeOK'
<1> SUFFICES ASSUME VotersInv, VotersTypeOK, [VotersNext]_voterVars
             PROVE  VotersTypeOK'
  OBVIOUS
<1>0. /\ voters.hashes \in SUBSET okBallots /\ voters.then \in SUBSET Ballots
      /\ okBallots \in SUBSET Ballots /\ voters \in Requests
      /\ castAt \in [Ballots -> 0..TopBallot] /\ validating \in SUBSET People
  BY BallotSettings DEF VotersInv, PageFits, OneOfEach, VotersTypeOK
<1>1. ASSUME NEW x \in Ballots, CastVote(x)
      PROVE  VotersTypeOK'
  <2>1. PICK h \in 1..TopBallot : castAt' = [castAt EXCEPT ![x] = h]
    BY <1>1 DEF CastVote
  <2>2. h \in 0..TopBallot
    OBVIOUS
  <2> QED
    BY <1>0, <1>1, <2>1, <2>2 DEF CastVote, VotersTypeOK
<1>2. CASE ValidatorsChange
  BY <1>2, <1>0 DEF ValidatorsChange, VotersTypeOK
<1>3. CASE ReadVotes
  <2>1. PICK H \in LastOfEach :
           voters' = [voters EXCEPT !.hashes = H, !.then = QueryVoteByProposalIdAll,
                                    !.at = IF H = {} THEN "failed" ELSE "validators"]
    BY <1>3 DEF ReadVotes
  <2>2. H \in SUBSET Ballots /\ QueryVoteByProposalIdAll \in SUBSET Ballots
    BY <1>0 DEF LastOfEach, QueryVoteByProposalIdAll
  <2>3. PICK at \in {"failed", "validators"} :
            at = IF H = {} THEN "failed" ELSE "validators"
    OBVIOUS
  <2>4. voters' \in Requests
    BY <1>0, <2>1, <2>2, <2>3 DEF Requests
  <2> QED
    BY <1>0, <1>3, <2>4 DEF ReadVotes, VotersTypeOK
<1>4. CASE ReadValidators
  <2>1. Cardinality(voters.hashes) \in Numbers
    BY <1>0, BallotsCount
  <2>2. PICK n \in Numbers : n = Cardinality(voters.hashes)
    BY <2>1
  <2>3. voters' = [voters EXCEPT !.known = validating, !.at = "options", !.all = n]
    BY <1>4, <2>2 DEF ReadValidators
  <2>4. voters' \in Requests
    BY <1>0, <2>3 DEF Requests
  <2> QED
    BY <1>0, <1>4, <2>4 DEF ReadValidators, VotersTypeOK
<1>5. ASSUME NEW o \in Options, CountVotes(o)
      PROVE  VotersTypeOK'
  <2> DEFINE C == DOMAIN voters.byOption \cup {o}
             f == [c \in C |-> IF c = o THEN QueryVoteByTxhashsAndOption(voters.hashes, o)
                                ELSE voters.byOption[c]]
  <2>1. voters' = [voters EXCEPT !.byOption = f,
                                 !.at = IF C = Options THEN "voters" ELSE voters.at]
    BY <1>5, <1>0 DEF CountVotes, Requests
  <2>2. PICK D \in SUBSET Options : voters.byOption \in [D -> Numbers]
    BY <1>0 DEF Requests
  <2>3. QueryVoteByTxhashsAndOption(voters.hashes, o) \in Numbers
    BY <1>0, BallotsCount DEF QueryVoteByTxhashsAndOption
  <2>4. C \in SUBSET Options /\ f \in [C -> Numbers]
    BY <2>2, <2>3
  <2>5. PICK g \in UNION {[c -> Numbers] : c \in SUBSET Options} : g = f
    <3> HIDE DEF C, f
    <3> QED
      BY <2>4
  <2>6. PICK at \in {"voters", voters.at} :
            at = IF C = Options THEN "voters" ELSE voters.at
    OBVIOUS
  <2> HIDE DEF C, f
  <2>7. voters' = [voters EXCEPT !.byOption = g, !.at = at]
    BY <2>1, <2>5, <2>6
  <2>8. voters' \in Requests
    BY <1>0, <2>6, <2>7 DEF Requests
  <2> QED
    BY <1>0, <1>5, <2>8 DEF CountVotes, VotersTypeOK
<1>6. CASE ReadVoters
  <2> DEFINE people == {voterOf[x] : x \in voters.hashes}
             ofKind == IF voters.type = "delegator" THEN people \ voters.known ELSE voters.known
             chosen == QueryVoteByTxhashsAndAddress(voters.hashes, ofKind)
             n == IF voters.useCount THEN Cardinality(chosen) ELSE NaN
             rest == IF voters.useCount THEN voters.all - n ELSE NaN
  <2>1. voters' = [voters EXCEPT
              !.at = "done",
              !.validator = IF voters.type = "delegator" THEN rest ELSE n,
              !.delegator = IF voters.type = "delegator" THEN n ELSE rest,
              !.listed = IF voters.type = "all" THEN QueryVoteByTxhashs(voters.hashes) ELSE chosen]
    BY <1>6 DEF ReadVoters
  <2>2. chosen \in SUBSET voters.hashes
    BY DEF QueryVoteByTxhashsAndAddress
  <2>3. n \in Numbers /\ rest \in Numbers
    <3>1. Cardinality(chosen) \in Numbers /\ voters.all = Cardinality(voters.hashes)
      BY <1>0, <1>6, <2>2, BallotsCount DEF ReadVoters, VotersInv, PageFits
    <3>2. Cardinality(chosen) <= Cardinality(voters.hashes) /\ IsFiniteSet(voters.hashes)
      BY <1>0, <2>2, VotesAreFinite, FS_Subset
    <3>3. /\ Cardinality(voters.hashes) \in Numbers /\ Cardinality(chosen) \in Nat
          /\ Cardinality(voters.hashes) \in Nat /\ Cardinality(Ballots) \in Nat
      BY <1>0, <2>2, BallotsCount, VotesAreFinite
    <3> HIDE DEF chosen
    <3>4. Cardinality(voters.hashes) - Cardinality(chosen) \in Numbers
      BY <3>1, <3>2, <3>3 DEF Numbers, NaN
    <3> QED
      BY <3>1, <3>4 DEF Numbers
  <2>4. QueryVoteByTxhashs(voters.hashes) \in SUBSET Ballots /\ chosen \in SUBSET Ballots
    BY <1>0, <2>2 DEF QueryVoteByTxhashs
  <2>5. PICK vs \in Numbers : vs = IF voters.type = "delegator" THEN rest ELSE n
    BY <2>3
  <2>6. PICK ds \in Numbers : ds = IF voters.type = "delegator" THEN n ELSE rest
    BY <2>3
  <2>7. PICK L \in SUBSET Ballots :
            L = IF voters.type = "all" THEN QueryVoteByTxhashs(voters.hashes) ELSE chosen
    BY <2>4
  <2> HIDE DEF n, rest, chosen
  <2>8. voters' = [voters EXCEPT !.at = "done", !.validator = vs, !.delegator = ds, !.listed = L]
    BY <2>1, <2>5, <2>6, <2>7
  <2>9. voters' \in Requests
    BY <1>0, <2>8 DEF Requests
  <2> QED
    BY <1>0, <1>6, <2>9 DEF ReadVoters, VotersTypeOK
<1>7. CASE UNCHANGED voterVars
  BY <1>7 DEF voterVars, VotersTypeOK
<1> QED
  BY <1>1, <1>2, <1>3, <1>4, <1>5, <1>6, <1>7 DEF VotersNext

LEMMA SetsTypeInit == SetsInit => SetsTypeOK
<1> SUFFICES ASSUME SetsInit
             PROVE  SetsTypeOK
  OBVIOUS
<1>1. PICK w \in {"power", "slice"}, n \in 1..Len(Members) + 1, k \in 1..3 :
        sets = [at |-> IF w = "power" THEN "block" ELSE "first", what |-> w, page |-> 1,
                full |-> FALSE, got |-> <<>>, total |-> 0, precommit |-> 0, count |-> 0,
                from |-> (n - 1) * k, size |-> k]
  BY DEF SetsInit
<1>2. PICK m \in Nat : m = (n - 1) * k
  OBVIOUS
<1>3. PICK at \in {"block", "first"} : at = IF w = "power" THEN "block" ELSE "first"
  OBVIOUS
<1>4. sets = [at |-> at, what |-> w, page |-> 1, full |-> FALSE, got |-> <<>>, total |-> 0,
              precommit |-> 0, count |-> 0, from |-> m, size |-> k]
  BY <1>1, <1>2, <1>3
<1> QED
  BY <1>4 DEF SetsTypeOK, SetRequests

SetMembers == ToSet(Members) \cup {Undefined}

LEMMA SliceType ==
    ASSUME NEW T, NEW s \in Seq(T), NEW from \in Nat, NEW size \in Nat
    PROVE  Slice(s, from, size) \in Seq(T)
<1>1. PICK m \in Int : m = IF from + size < Len(s) THEN from + size ELSE Len(s)
  OBVIOUS
<1>2. m <= Len(s) /\ from + 1 >= 1
  BY <1>1
<1>3. SubSeq(s, from + 1, m) \in Seq(T)
  BY <1>2, SubSeqProperties
<1> QED
  BY <1>1, <1>3 DEF Slice

LEMMA SetsTypeStep == SetsInv /\ SetsTypeOK /\ [SetsNext]_sets => SetsTypeOK'
<1> SUFFICES ASSUME SetsInv, SetsTypeOK, [SetsNext]_sets
             PROVE  SetsTypeOK'
  OBVIOUS
<1>0. /\ sets \in SetRequests /\ sets.got \in Seq(SetMembers) /\ sets.page \in Nat
      /\ sets.from \in Nat /\ sets.size \in Nat
  BY DEF SetsTypeOK, SetRequests, SetMembers
<1>a. PICK M : M = SetMembers
  OBVIOUS
<1>b. Members \in Seq(M)
  <2>1. PICK S : S = ToSet(Members)
    OBVIOUS
  <2>2. PICK m \in Seq(S) : m = Members
    BY <2>1, BlockSettings
  <2>3. S \subseteq M
    BY <1>a, <2>1 DEF SetMembers
  <2>4. m \in Seq(M)
    BY <2>3, SeqMonotonic
  <2> QED
    BY <2>2, <2>4
<1>c. sets.got \in Seq(M) /\ Undefined \in M
  BY <1>0, <1>a DEF SetMembers
<1>d. \A r \in [at : {"block", "first", "next", "sum", "done", "failed"},
                what : {"power", "slice"}, page : Nat, full : BOOLEAN,
                got : Seq(M), total : Nat, precommit : Nat, count : Nat,
                from : Nat, size : Nat] : r \in SetRequests
  BY <1>a DEF SetRequests, SetMembers
<1>e. sets \in [at : {"block", "first", "next", "sum", "done", "failed"},
                what : {"power", "slice"}, page : Nat, full : BOOLEAN,
                got : Seq(M), total : Nat, precommit : Nat, count : Nat,
                from : Nat, size : Nat]
  BY <1>0, <1>a DEF SetRequests, SetMembers
<1>1. CASE QueryBlockFromLcd
  <2>1. PICK at \in {"first", "failed"} : sets' = [sets EXCEPT !.at = at]
    BY <1>1 DEF QueryBlockFromLcd
  <2> QED
    BY <1>d, <1>e, <2>1 DEF SetsTypeOK
<1>2. CASE QueryFirstPage
  <2>1. PICK ok \in BOOLEAN :
           LET P == IF ok THEN ChainAnswers(1) ELSE <<>> IN
           sets' = [sets EXCEPT !.got = P, !.full = Len(P) = ChainPage, !.at = "next"]
    BY <1>2 DEF QueryFirstPage
  <2>2. ChainAnswers(1) \in Seq(M)
    <3>1. (1 - 1) * ChainPage \in Nat /\ ChainPage \in Nat
      BY BlockSettings
    <3> QED
      BY <1>b, <3>1, SliceType DEF ChainAnswers
  <2>3. PICK P \in Seq(M) : P = IF ok THEN ChainAnswers(1) ELSE <<>>
    <3>1. <<>> \in Seq(M)
      OBVIOUS
    <3>2. CASE ok
      BY <2>2, <3>2
    <3>3. CASE ~ok
      BY <3>1, <3>3
    <3> QED
      BY <3>2, <3>3
  <2>4. PICK full \in BOOLEAN : full <=> Len(P) = ChainPage
    OBVIOUS
  <2>5. sets' = [sets EXCEPT !.got = P, !.full = full, !.at = "next"]
    BY <2>1, <2>3, <2>4
  <2> QED
    BY <1>d, <1>e, <2>5 DEF SetsTypeOK
<1>3. CASE QueryNextPage
  <2>1. PICK ok \in BOOLEAN :
           LET P == ChainAnswers(sets.page + 1) IN
           sets' = [sets EXCEPT
               !.page = sets.page + 1, !.full = ok /\ Len(P) = ChainPage,
               !.got = IF ok THEN sets.got \o P ELSE WithLostPage(sets.got)]
    BY <1>3, <1>e DEF QueryNextPage
  <2>2. ChainAnswers(sets.page + 1) \in Seq(M)
    <3>1. PICK p \in Nat : p = sets.page
      BY <1>0
    <3>2. PICK k \in Nat : k = (p + 1 - 1) * ChainPage
      BY BlockSettings
    <3>3. ChainAnswers(p + 1) = Slice(Members, k, ChainPage) /\ ChainPage \in Nat
      BY <3>2, BlockSettings DEF ChainAnswers
    <3>4. Slice(Members, k, ChainPage) \in Seq(M)
      BY <1>b, <3>3, SliceType
    <3> QED
      BY <3>1, <3>3, <3>4
  <2>3. sets.got \o ChainAnswers(sets.page + 1) \in Seq(M)
    BY <1>c, <2>2, ConcatProperties
  <2>4. WithLostPage(sets.got) \in Seq(M)
    BY <1>c DEF WithLostPage
  <2>5. PICK G \in Seq(M) :
            G = IF ok THEN sets.got \o ChainAnswers(sets.page + 1) ELSE WithLostPage(sets.got)
    BY <2>3, <2>4
  <2>6. PICK full \in BOOLEAN : full <=> ok /\ Len(ChainAnswers(sets.page + 1)) = ChainPage
    OBVIOUS
  <2>7. PICK p \in Nat : p = sets.page + 1
    BY <1>0
  <2>8. sets' = [sets EXCEPT !.page = p, !.full = full, !.got = G]
    BY <2>1, <2>5, <2>6, <2>7
  <2> QED
    BY <1>d, <1>e, <2>8 DEF SetsTypeOK
<1>4. CASE SumPower
  <2>1. CASE Undefined \in ToSet(sets.got)
    <3>1. sets' = [sets EXCEPT !.at = "failed"]
      BY <1>4, <2>1 DEF SumPower
    <3> QED
      BY <1>d, <1>e, <3>1 DEF SetsTypeOK
  <2>2. CASE Undefined \notin ToSet(sets.got)
    <3>1. sets' = [sets EXCEPT
                   !.at = "done", !.total = PowerIn(sets.got), !.count = Len(sets.got),
                   !.precommit = PowerAt(sets.got, {i \in DOMAIN sets.got : sets.got[i] \in Signers})]
      BY <1>4, <2>2 DEF SumPower
    <3>2. PICK n \in Nat : n = Len(sets.got) /\ DOMAIN sets.got = 1..n
      BY <1>c
    <3>3. \A i \in 1..n : PowerOf[sets.got[i]] \in Nat
      <4>1. \A i \in 1..n : sets.got[i] \in M /\ sets.got[i] \in ToSet(sets.got)
        BY <1>c, <3>2 DEF ToSet
      <4>2. \A i \in 1..n : sets.got[i] \in ToSet(Members)
        BY <4>1, <2>2, <1>a DEF SetMembers
      <4> QED
        BY <4>2, BlockSettings
    <3>4. ASSUME NEW S \in SUBSET (1..n)
          PROVE  PowerAt(sets.got, S) \in Nat
      <4> DEFINE f == [i \in DOMAIN sets.got |-> PowerOf[sets.got[i]]]
      <4>1. IsFiniteSet(S) /\ \A i \in S : f[i] \in Nat
        <5>1. IsFiniteSet(1..n)
          BY FS_Interval
        <5>2. IsFiniteSet(S)
          BY <5>1, FS_Subset
        <5> QED
          BY <5>2, <3>2, <3>3
      <4> HIDE DEF f
      <4>2. Sum(f, S) \in Nat
        BY <4>1, SumsAreNat
      <4>3. PowerAt(sets.got, S) = Sum(f, S)
        BY DEF PowerAt, Sum, f
      <4> QED
        BY <4>2, <4>3
    <3>5. PICK a \in Nat, b \in Nat :
              /\ a = PowerIn(sets.got)
              /\ b = PowerAt(sets.got, {i \in DOMAIN sets.got : sets.got[i] \in Signers})
      <4>1. PowerIn(sets.got) \in Nat
        BY <3>2, <3>4 DEF PowerIn
      <4>2. {i \in DOMAIN sets.got : sets.got[i] \in Signers} \in SUBSET (1..n)
        BY <3>2
      <4> QED
        BY <4>1, <4>2, <3>4
    <3>6. sets' = [sets EXCEPT !.at = "done", !.total = a, !.count = n, !.precommit = b]
      BY <3>1, <3>2, <3>5
    <3> QED
      BY <1>d, <1>e, <3>6 DEF SetsTypeOK
  <2> QED
    BY <2>1, <2>2
<1>5. CASE AnswerSlice
  <2> DEFINE data == Slice(sets.got, sets.from, sets.size)
  <2>1. PICK D \in Seq(M) : D = data
    BY <1>0, <1>c, SliceType
  <2>2. PICK n \in Nat : n = Len(sets.got)
    BY <1>c
  <2>3. \/ sets' = [sets EXCEPT !.at = "failed"]
        \/ sets' = [sets EXCEPT !.at = "done", !.count = n, !.got = D]
    BY <1>5, <2>1, <2>2 DEF AnswerSlice
  <2> QED
    BY <1>d, <1>e, <2>3 DEF SetsTypeOK
<1>6. CASE UNCHANGED sets
  BY <1>6 DEF SetsTypeOK
<1> QED
  BY <1>1, <1>2, <1>3, <1>4, <1>5, <1>6 DEF SetsNext

(* An endpoint that averages the blocks has a case for their number, so    *)
(* WithBlock adds no code that none of them knows.                         *)
StatsTyped ==
    /\ StatsTypeOK
    /\ stats.params \in Seq(AllCodes)

LEMMA StatsTypeInit == StatsInit => StatsTyped
<1> SUFFICES ASSUME StatsInit
             PROVE  StatsTyped
  OBVIOUS
<1>1. PICK e \in Endpoints, n \in 1..MaxNamed : \E p \in [1..n -> AllCodes] :
          stats = [at |-> "asked", of |-> e, params |-> p, indicators |-> <<>>,
                   results |-> <<>>, latest |-> 0, oldest |-> 0]
  BY DEF StatsInit
<1>2. PICK p \in [1..n -> AllCodes] :
          stats = [at |-> "asked", of |-> e, params |-> p, indicators |-> <<>>,
                   results |-> <<>>, latest |-> 0, oldest |-> 0]
  BY <1>1
<1>3. p \in Seq(AllCodes)
  BY StatisticsSettings
<1>4. ToSet(p) \subseteq AllCodes
  BY <1>3 DEF ToSet
<1>5. newest \in 0..TopBlock
  BY StatisticsSettings DEF StatsInit
<1>6. /\ stats.of = e /\ stats.at = "asked" /\ stats.params = p
  BY <1>2
<1> QED
  BY <1>3, <1>4, <1>5, <1>6 DEF StatsTyped, StatsTypeOK

LEMMA StatsTypeStep == StatsInv /\ StatsTyped /\ [StatsNext]_statVars => StatsTyped'
<1> SUFFICES ASSUME StatsInv, StatsTyped, [StatsNext]_statVars
             PROVE  StatsTyped'
  OBVIOUS
<1>0. /\ DOMAIN stats = {"at", "of", "params", "indicators", "results", "latest", "oldest"}
      /\ newest \in 0..TopBlock
  BY DEF StatsInv, StatsShape, StatsTyped, StatsTypeOK
<1>1. CASE ChooseIndicators
  <2> DEFINE q == WithBlock(stats.of, stats.params)
  <2>0. stats' = [stats EXCEPT !.at = "reading", !.params = q,
                               !.indicators = IndicatorsOf(stats.of, q)]
        /\ newest' = newest
    BY <1>1 DEF ChooseIndicators
  <2>1. q \in Seq(AllCodes)
    <3>1. CASE q = stats.params
      BY <3>1 DEF StatsTyped
    <3>2. CASE q = <<"200">> \o stats.params /\ stats.of = "network"
      <4>1. "network" \in Endpoints
        BY <3>2 DEF StatsTyped, StatsTypeOK
      <4>2. "200" \in AllCodes
        BY <4>1, StatisticsSettings DEF AllCodes, Endpoints
      <4>3. <<"200">> \in Seq(AllCodes)
        BY <4>2
      <4> QED
        BY <3>2, <4>3 DEF StatsTyped
    <3> QED
      BY <3>1, <3>2 DEF WithBlock
  <2> HIDE DEF q
  <2>2. ToSet(q) \subseteq AllCodes
    BY <2>1 DEF ToSet
  <2>3. stats'.at = "reading" /\ stats'.params = q /\ stats'.of = stats.of
    BY <2>0, <1>0
  <2> QED
    BY <1>0, <2>0, <2>1, <2>2, <2>3 DEF StatsTyped, StatsTypeOK
<1>2. CASE ReadLatest
  <2>1. stats'.at = stats.at /\ stats'.params = stats.params /\ stats'.of = stats.of
        /\ newest' = newest
    BY <1>0, <1>2 DEF ReadLatest
  <2> QED
    BY <2>1 DEF StatsTyped, StatsTypeOK
<1>3. CASE FindNum100Height
  <2>1. stats'.at = stats.at /\ stats'.params = stats.params /\ stats'.of = stats.of
        /\ newest' = newest
    BY <1>0, <1>3 DEF FindNum100Height
  <2> QED
    BY <2>1 DEF StatsTyped, StatsTypeOK
<1>4. CASE AnswerStatistics
  <2>1. stats'.at = "done" /\ stats'.params = stats.params /\ stats'.of = stats.of
        /\ newest' = newest
    BY <1>0, <1>4 DEF AnswerStatistics
  <2> QED
    BY <2>1 DEF StatsTyped, StatsTypeOK
<1>5. CASE NextBlock
  BY <1>0, <1>5, StatisticsSettings DEF NextBlock, StatsTyped, StatsTypeOK
<1>6. CASE UNCHANGED statVars
  BY <1>6 DEF statVars, StatsTyped, StatsTypeOK
<1> QED
  BY <1>1, <1>2, <1>3, <1>4, <1>5, <1>6 DEF StatsNext

LEMMA RichTypeInit == RichInit => RichTypeOK
  BY RichListSettings DEF RichInit, RichTypeOK

LEMMA RichTypeStep == RichInv /\ RichTypeOK /\ [RichNext]_richVars => RichTypeOK'
<1> SUFFICES ASSUME RichInv, RichTypeOK, [RichNext]_richVars
             PROVE  RichTypeOK'
  OBVIOUS
<1> USE DEF RichTypeOK
<1>1. ASSUME NEW a \in Holders, UpdateTotal(a)
      PROVE  RichTypeOK'
  <2>1. PICK n \in 0..TopTotal : totalOf' = [totalOf EXCEPT ![a] = n]
    BY <1>1 DEF UpdateTotal
  <2>2. totalOf' \in [Holders -> 0..TopTotal] /\ updates' \in 0..MaxUpdates
    BY <1>1, <2>1, RichListSettings DEF UpdateTotal
  <2>3. rich'.at = rich.at
    BY <1>1 DEF UpdateTotal, RichInv
  <2>4. sentinel' \in BOOLEAN
    BY <1>1 DEF UpdateTotal
  <2> QED
    BY <2>2, <2>3, <2>4
<1>2. CASE ReadTokens
  BY <1>2 DEF ReadTokens, RichInv
<1>3. CASE ReadRichest
  <2>1. rich'.at = "done"
    BY <1>3 DEF ReadRichest, RichInv
  <2> QED
    BY <1>3, <2>1 DEF ReadRichest
<1>4. CASE UNCHANGED richVars
  BY <1>4 DEF richVars
<1>5. CASE StoreSentinel
  BY <1>5 DEF StoreSentinel, RichInv
<1> QED
  BY <1>1, <1>2, <1>3, <1>4, <1>5 DEF RichNext

(***************************************************************************)
(* Queries: the requests side by side.  A step of one kind leaves the      *)
(* state of the others alone, so the invariants of all hold together.      *)
(***************************************************************************)
QueriesInv ==
    /\ TxsInv /\ DocsInv /\ EdgeInv /\ TypesInv /\ VotersInv /\ SetsInv /\ StatsInv
    /\ SvcInv /\ RichInv
    /\ VotersTypeOK /\ SetsTypeOK /\ StatsTyped /\ RichTypeOK

LEMMA QueriesInitInv == QueriesInit => QueriesInv
  BY TxsStartInv, DocsStartInv, EdgeInit_Inv, TypesInitInv, VotersInitInv, SetsInit_Inv,
     StatsInit_Inv, SvcInitInv, RichInit_Inv, VotersTypeInit, SetsTypeInit, StatsTypeInit,
     RichTypeInit
     DEF QueriesInit, QueriesInv

LEMMA PartsMove ==
    ASSUME [QueriesNext]_queryVars
    PROVE  /\ [TxsNext]_txVars /\ [DocsNext]_docVars /\ [EdgeNext]_edgeVars
           /\ [TypesNext]_typeVars /\ [VotersNext]_voterVars /\ [SetsNext]_sets
           /\ [StatsNext]_statVars /\ [SvcNext]_svcVars /\ [RichNext]_richVars
<1>1. CASE QueriesNext
  BY <1>1 DEF QueriesNext, TxPart, DocPart, EdgePart, TypePart, VoterPart, SetPart,
              StatPart, SvcPart, RichPart
<1>2. CASE UNCHANGED queryVars
  BY <1>2 DEF queryVars
<1> QED
  BY <1>1, <1>2

LEMMA QueriesStepInv == QueriesInv /\ [QueriesNext]_queryVars => QueriesInv'
<1> SUFFICES ASSUME QueriesInv, [QueriesNext]_queryVars
             PROVE  QueriesInv'
  OBVIOUS
<1> QED
  BY PartsMove, TxsStepInv, DocsStepInv, EdgeStep, TypesStepInv, VotersStepInv, SetsStep,
     StatsStep, SvcStepInv, RichStep, VotersTypeStep, SetsTypeStep, StatsTypeStep,
     RichTypeStep
     DEF QueriesInv

LEMMA QueriesKeepInv == QueriesSpec => []QueriesInv
  BY QueriesInitInv, QueriesStepInv, PTL DEF QueriesSpec

(* The requests, what they have read and what they read from have their    *)
(* types.                                                                  *)
THEOREM QueriesAreTyped == QueriesSpec => []QueriesTypeOK
<1>1. QueriesInv => QueriesTypeOK
  BY TxsInvMeans, DocsInvMeans
     DEF QueriesInv, QueriesTypeOK, EdgeInv, EdgeShape, TypesInv, SvcInv, SvcShape,
         SvcTypeOK, StatsTyped
<1> QED
  BY <1>1, QueriesKeepInv, PTL

(* Whoever turns the pages of any list to the end (skip and limit over a   *)
(* list that changes) was shown all of it, but what moved, shares its key  *)
(* or was passed by something that went or fell back.                      *)
THEOREM NoPageIsSkipped == QueriesSpec => []PagesMissNothing
<1>1. QueriesInv => PagesMissNothing
  BY TxsInvMeans, DocsInvMeans DEF QueriesInv, PagesMissNothing
<1> QED
  BY <1>1, QueriesKeepInv, PTL

(* Every count that goes with a page selects what the list selects, but    *)
(* those of tokens and of the unbonding delegations of a validator.        *)
THEOREM CountsAreTrue == QueriesSpec => []CountsMatch
<1>1. QueriesInv => CountsMatch
  BY TxsInvMeans, DocsInvMeans DEF QueriesInv, CountsMatch
<1> QED
  BY <1>1, QueriesKeepInv, PTL

(* What is proved of each kind of request holds of all of them together:   *)
(* a behaviour of the web layer is one of each.                            *)
THEOREM WebLayerIsItsParts ==
    QueriesSpec => /\ TxsSpec /\ DocsSpec /\ EdgeSpec /\ TypesSpec /\ VotersSpec
                   /\ SetsSpec /\ StatsSpec /\ SvcSpec /\ RichSpec
<1>1. QueriesInit => /\ TxsStart /\ DocsStart /\ EdgeInit /\ TypesInit /\ VotersInit
                     /\ SetsInit /\ StatsInit /\ SvcInit /\ RichInit
  BY DEF QueriesInit
<1>2. [QueriesNext]_queryVars =>
           /\ [TxsNext]_txVars /\ [DocsNext]_docVars /\ [EdgeNext]_edgeVars
           /\ [TypesNext]_typeVars /\ [VotersNext]_voterVars /\ [SetsNext]_sets
           /\ [StatsNext]_statVars /\ [SvcNext]_svcVars /\ [RichNext]_richVars
  BY PartsMove
<1> QED
  BY <1>1, <1>2, PTL DEF QueriesSpec, TxsSpec, DocsSpec, EdgeSpec, TypesSpec, VotersSpec,
                         SetsSpec, StatsSpec, SvcSpec, RichSpec
=========================================================================
