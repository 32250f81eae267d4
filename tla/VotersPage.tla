----------------------------- MODULE VotersPage -----------------------------
(***************************************************************************)
(* The page of voters of a proposal.  The last vote of each voter is       *)
(* picked first, by hash; the numbers of votes by option and by kind of    *)
(* voter are counted later, in commands of their own, while votes go on    *)
(* and the list of validators changes.                                     *)
(***************************************************************************)
EXTENDS Integers, FiniteSets

CONSTANTS
    Ballots,            \* transactions with a vote for the proposal
    People,             \* voters, and Nobody
    Nobody,             \* the voter of a message that is not a vote
    voterOf,            \* msgs[0].msg.voter
    votersIn,           \* msgs.msg.voter: of all messages
    choicesIn,          \* msgs.msg.option: of all messages
    okBallots,          \* transactions that succeeded
    Options,            \* options
    TopBallot           \* height at which votes stop (bound)

ASSUME BallotSettings ==
    /\ IsFiniteSet(Ballots) /\ okBallots \subseteq Ballots
    /\ voterOf \in [Ballots -> People]
    /\ votersIn \in [Ballots -> SUBSET People]
    /\ \A x \in Ballots : voterOf[x] \in votersIn[x]
    /\ choicesIn \in [Ballots -> SUBSET Options]
    /\ TopBallot \in Nat

VARIABLES
    castAt,     \* height of each transaction, 0 before it is stored
    validating, \* the people that are validators, in the database
    voters      \* the request and what it has read

voterVars == <<castAt, validating, voters>>

(* No validators are counted unless the request says useCount. *)
NaN == -1
Numbers == 0..Cardinality(Ballots) \cup {NaN}
Requests == [at : {"votes", "validators", "options", "voters", "done", "failed"},
             type : {"all", "validator", "delegator"}, useCount : BOOLEAN,
             hashes : SUBSET Ballots, known : SUBSET People,
             byOption : UNION {[C -> Numbers] : C \in SUBSET Options},
             all : Numbers, validator : Numbers, delegator : Numbers,
             listed : SUBSET Ballots, then : SUBSET Ballots]

VotersInit ==
    /\ castAt = [x \in Ballots |-> 0]
    /\ validating \in SUBSET (People \ {Nobody})
    /\ \E t \in {"all", "validator", "delegator"}, u \in BOOLEAN :
           voters = [at |-> "votes", type |-> t, useCount |-> u, hashes |-> {},
                     known |-> {}, byOption |-> <<>>, all |-> 0, validator |-> 0,
                     delegator |-> 0, listed |-> {}, then |-> {}]

-----------------------------------------------------------------------------
QueryVoteByProposalIdAll == {x \in okBallots : castAt[x] > 0}

(* votes.set(voter, tx_hash) in ascending height, by the voter of the      *)
(* first message: the last one stays, any of them if several in a block.   *)
LastOfEach ==
    {H \in SUBSET QueryVoteByProposalIdAll :
        \A p \in {voterOf[x] : x \in QueryVoteByProposalIdAll} :
            \E x \in H : /\ {y \in H : voterOf[y] = p} = {x}
                         /\ \A y \in QueryVoteByProposalIdAll :
                                voterOf[y] = p => castAt[y] <= castAt[x]}

(* Mutant: all votes for the option, instead of those in the list. *)
CountOption(hashes, o) ==
    Cardinality({x \in QueryVoteByProposalIdAll : o \in choicesIn[x]})

(* Any message of the transaction matches, here and by address. *)
QueryVoteByTxhashsAndOption(hashes, o) ==
    Cardinality({x \in hashes \cap okBallots : o \in choicesIn[x]})

QueryVoteByTxhashsAndAddress(hashes, P) ==
    {x \in hashes \cap okBallots : votersIn[x] \cap P # {}}

QueryVoteByTxhashs(hashes) == hashes \cap okBallots

-----------------------------------------------------------------------------
CastVote(x) ==
    /\ castAt[x] = 0
    /\ \E h \in 1..TopBallot :
           /\ \A y \in Ballots : castAt[y] <= h
           /\ castAt' = [castAt EXCEPT ![x] = h]
    /\ UNCHANGED <<validating, voters>>

ValidatorsChange ==
    /\ validating' \in SUBSET (People \ {Nobody}) \ {validating}
    /\ UNCHANGED <<castAt, voters>>

(* A request without votes fails: votersData is undefined at its end. *)
ReadVotes ==
    /\ voters.at = "votes"
    /\ \E H \in LastOfEach :
           voters' = [voters EXCEPT !.hashes = H, !.then = QueryVoteByProposalIdAll,
                                    !.at = IF H = {} THEN "failed" ELSE "validators"]
    /\ UNCHANGED <<castAt, validating>>

ReadValidators ==
    /\ voters.at = "validators"
    /\ voters' = [voters EXCEPT !.known = validating, !.at = "options",
                                !.all = Cardinality(voters.hashes)]
    /\ UNCHANGED <<castAt, validating>>

(* Promise.all: the options are counted at the same time. *)
CountVotes(o) ==
    /\ voters.at = "options"
    /\ o \notin DOMAIN voters.byOption
    /\ LET C == DOMAIN voters.byOption \cup {o} IN
       voters' = [voters EXCEPT
           !.byOption = [c \in C |->
               IF c = o THEN QueryVoteByTxhashsAndOption(voters.hashes, o) ELSE @[c]],
           !.at = IF C = Options THEN "voters" ELSE @]
    /\ UNCHANGED <<castAt, validating>>

(* The voters of the page, and the counts of one kind; the other kind is   *)
(* the rest.  uniqueArr(allAddress, validatorAdd) are the delegators.      *)
ReadVoters ==
    /\ voters.at = "voters"
    /\ LET people == {voterOf[x] : x \in voters.hashes}
           ofKind == IF voters.type = "delegator" THEN people \ voters.known ELSE voters.known
           chosen == QueryVoteByTxhashsAndAddress(voters.hashes, ofKind)
           n == IF voters.useCount THEN Cardinality(chosen) ELSE NaN
           rest == IF voters.useCount THEN voters.all - n ELSE NaN
       IN voters' = [voters EXCEPT
              !.at = "done",
              !.validator = IF voters.type = "delegator" THEN rest ELSE n,
              !.delegator = IF voters.type = "delegator" THEN n ELSE rest,
              !.listed = IF voters.type = "all" THEN QueryVoteByTxhashs(voters.hashes) ELSE chosen]
    /\ UNCHANGED <<castAt, validating>>

VotersNext ==
    \/ \E x \in Ballots : CastVote(x)
    \/ ValidatorsChange
    \/ ReadVotes \/ ReadValidators \/ ReadVoters
    \/ \E o \in Options : CountVotes(o)

VotersSpec == VotersInit /\ [][VotersNext]_voterVars

-----------------------------------------------------------------------------
VotersTypeOK ==
    /\ castAt \in [Ballots -> 0..TopBallot]
    /\ validating \subseteq People
    /\ voters \in Requests

OneVoter(x) == votersIn[x] = {voterOf[x]}

(* The picked transactions with a vote of P; the first voters that are no  *)
(* validators.                                                             *)
WithVoteOf(P) == {x \in voters.hashes : votersIn[x] \cap P # {}}
OthersFirst == {voterOf[x] : x \in voters.hashes} \ voters.known

(* The numbers of an answered page are of one moment, whatever is voted    *)
(* while they are counted.  An option has every picked transaction that    *)
(* votes for it in any message: with one vote each they add up to all      *)
(* voters.  Validators and delegators always do: the page of delegators    *)
(* counts these and leaves the rest to validators, the others the other    *)
(* way round, and only a transaction of several voters makes a difference. *)
VotersAddUp ==
    voters.at = "done" =>
        /\ \A o \in Options : voters.byOption[o] =
               Cardinality({x \in voters.hashes : o \in choicesIn[x]})
        /\ voters.all = Cardinality({voterOf[x] : x \in voters.then})
        /\ voters.useCount =>
               /\ voters.validator + voters.delegator = voters.all
               /\ IF voters.type = "delegator"
                  THEN voters.delegator = Cardinality(WithVoteOf(OthersFirst))
                  ELSE voters.validator = Cardinality(WithVoteOf(voters.known))
               /\ (\A x \in voters.hashes : OneVoter(x)) =>
                      voters.validator =
                          Cardinality({x \in voters.hashes : voterOf[x] \in voters.known})
               /\ voters.type # "all" => Cardinality(voters.listed) =
                      (IF voters.type = "validator" THEN voters.validator ELSE voters.delegator)
=============================================================================
