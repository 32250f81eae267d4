------------------------------ MODULE GovTally ------------------------------
(***************************************************************************)
(* ProposalTaskService.tallyDetails for one proposal: the shares of the    *)
(* active validators are read from the collection, then the votes from the *)
(* transactions, then the delegations of one voter after the other from    *)
(* the chain; a validator that voted gets what is left of its shares.      *)
(* A share is worth one token.  What it is compared with is the vote that  *)
(* GovService.getProposalsVoter shows for each voter.                      *)
(***************************************************************************)
EXTENDS TaskRuns, Sequences, Functions

CONSTANTS
    Delegators,     \* accounts with delegations, voters or not
    Vals,           \* the active validators
    operator,       \* the account of each of them
    VoteTxs,        \* transactions that vote on the proposal
    votersOf,       \* the voter of each message of one
    optionOf,       \* the option of its first message
    Options,        \* yes, abstain, no, no_with_veto
    okVotes,        \* those that succeed
    Stake,          \* what each account delegates to each validator at first
    MaxRestakes     \* changes of the delegations (bound)

ASSUME TallySettings ==
    /\ IsFiniteSet(Delegators) /\ IsFiniteSet(Vals) /\ IsFiniteSet(VoteTxs)
    /\ IsFiniteSet(Options) /\ "none" \notin Options
    /\ operator \in [Vals -> Delegators]
    /\ votersOf \in [VoteTxs -> Seq(Delegators) \ {<<>>}]
    /\ optionOf \in [VoteTxs -> Options] /\ okVotes \subseteq VoteTxs
    /\ Stake \in [Delegators -> [Vals -> Nat]]
    /\ MaxRestakes \in Nat

VARIABLES
    stake,          \* the delegations on the chain
    restakes,       \* how often they have changed
    kept,           \* delegator_shares of the validators in the collection
    castAt,         \* the order of the votes, 0 before they are cast
    tally,          \* a run of tallyDetails
    result          \* current_tally_result of the last one that ended

tallyVars == <<stake, restakes, kept, castAt, tally, result>>

(* What the accounts of W delegate to a validator. *)
Delegated(s, v, W) == SumFunctionOnSet([w \in Delegators |-> s[w][v]], W)
SharesOf(s) == [v \in Vals |-> Delegated(s, v, Delegators)]

NoInfo == [option |-> "none", own |-> 0, other |-> 0, isValidator |-> FALSE]
(* disturbed is a history field: something moved while the run was reading. *)
TallyIdle ==
    [at |-> "idle", shares |-> [v \in Vals |-> 0], todo |-> {},
     info |-> [w \in Delegators |-> NoInfo], deducted |-> [v \in Vals |-> 0],
     total |-> 0, disturbed |-> FALSE]
NoResult == [total |-> 0, power |-> [o \in Options |-> 0]]

TallyTypeOK ==
    /\ stake \in [Delegators -> [Vals -> Nat]]
    /\ restakes \in 0..MaxRestakes
    /\ kept \in [Vals -> Nat]
    /\ castAt \in [VoteTxs -> 0..Cardinality(VoteTxs)]
    /\ tally.at \in {"idle", "votes", "voters"}
    /\ tally.todo \subseteq VoteTxs
    /\ tally.total \in Nat /\ result.total \in Nat

TallyInit ==
    /\ stake = Stake /\ restakes = 0 /\ kept = SharesOf(Stake)
    /\ castAt = [x \in VoteTxs |-> 0]
    /\ tally = TallyIdle /\ result = NoResult

Disturbs == tally' = IF tally.at = "idle" THEN tally
                     ELSE [tally EXCEPT !.disturbed = TRUE]

(* An account takes a share from one validator to another. *)
Redelegate(w, from, to) ==
    /\ restakes < MaxRestakes /\ from # to /\ stake[w][from] > 0
    /\ restakes' = restakes + 1
    /\ stake' = [stake EXCEPT ![w][from] = @ - 1, ![w][to] = @ + 1]
    /\ Disturbs
    /\ UNCHANGED <<kept, castAt, result, faults>>

(* The staking task brings the collection up to date (StakingSync). *)
KeepShares ==
    /\ kept # SharesOf(stake)
    /\ kept' = SharesOf(stake)
    /\ UNCHANGED <<stake, restakes, castAt, tally, result, faults>>

Cast(x) ==
    /\ castAt[x] = 0
    /\ castAt' = [castAt EXCEPT ![x] = 1 + Max({castAt[y] : y \in VoteTxs})]
    /\ Disturbs
    /\ UNCHANGED <<stake, restakes, kept, result, faults>>

QueryActiveVal ==
    /\ tally.at = "idle"
    /\ tally' = [TallyIdle EXCEPT !.at = "votes", !.shares = kept,
                                  !.disturbed = kept # SharesOf(stake)]
    /\ UNCHANGED <<stake, restakes, kept, castAt, result, faults>>

(* Transactions, failed ones too, are grouped by the voters of all their   *)
(* messages; $first takes any one of a group, since nothing is sorted.     *)
Groups == {votersOf[x] : x \in {y \in VoteTxs : castAt[y] > 0}}
FirstsOf(S) == Cardinality(S) = Cardinality(Groups)
               /\ {votersOf[x] : x \in S} = Groups

QueryVoteByProposalId ==
    /\ tally.at = "votes"
    /\ \E S \in SUBSET {x \in VoteTxs : castAt[x] > 0} :
           /\ FirstsOf(S)
           /\ tally' = [tally EXCEPT !.at = "voters", !.todo = S]
    /\ UNCHANGED <<stake, restakes, kept, castAt, result, faults>>

Power(w, S) == SumFunctionOnSet(stake[w], S)
Own(w) == {v \in Vals : operator[v] = w /\ stake[w][v] > 0}

(* Mutant: what a delegator voted with is not taken from its validators. *)
NotDeducted(w) == tally.deducted

Deducted(w) == [v \in Vals |-> tally.deducted[v] + stake[w][v]]

(* The delegations of the next voter.  Only msg[0] counts; a voter that    *)
(* comes again replaces the entry but not what was added to the total.     *)
CountVoter(x) ==
    LET w == votersOf[x][1] IN
    /\ tally.at = "voters" /\ x \in tally.todo
    /\ tally' = [tally EXCEPT
           !.todo = @ \ {x},
           !.info[w] = [option |-> optionOf[x], own |-> Power(w, Own(w)),
                        other |-> Power(w, Vals \ Own(w)),
                        isValidator |-> Own(w) # {}],
           !.deducted = Deducted(w),
           !.total = @ + Power(w, Vals)]
    /\ UNCHANGED <<stake, restakes, kept, castAt, result, faults>>

(* A missing answer counts as a voter without delegations. *)
DelegationsFail(x) ==
    LET w == votersOf[x][1] IN
    /\ tally.at = "voters" /\ x \in tally.todo
    /\ Fails
    /\ tally' = [tally EXCEPT !.todo = @ \ {x}, !.disturbed = TRUE,
                              !.info[w] = [NoInfo EXCEPT !.option = optionOf[x]]]
    /\ UNCHANGED <<stake, restakes, kept, castAt, result>>

(* What is left of a validator that voted and that delegates to itself. *)
NotVoted(w) ==
    IF tally.info[w].isValidator
    THEN SumFunctionOnSet([v \in Vals |-> tally.shares[v] - tally.deducted[v]],
                          {v \in Vals : operator[v] = w})
    ELSE 0

Total == tally.total + SumFunction([w \in Delegators |-> NotVoted(w)])

OptionPower(o) ==
    SumFunctionOnSet(
        [w \in Delegators |-> tally.info[w].own + tally.info[w].other + NotVoted(w)],
        {w \in Delegators : tally.info[w].option = o})

(* What tallyDetails returns when the last voter is counted. *)
TallyEnds ==
    /\ tally.at = "voters" /\ tally.todo = {}
    /\ result' = [total |-> Total, power |-> [o \in Options |-> OptionPower(o)]]
    /\ tally' = TallyIdle
    /\ UNCHANGED <<stake, restakes, kept, castAt, faults>>

TallyNext ==
    \/ \E w \in Delegators, from, to \in Vals : Redelegate(w, from, to)
    \/ KeepShares \/ \E x \in VoteTxs : Cast(x)
    \/ QueryActiveVal \/ QueryVoteByProposalId
    \/ \E x \in VoteTxs : CountVoter(x) \/ DelegationsFail(x)
    \/ TallyEnds

TallySpec == TallyInit /\ faults = 0 /\ [][TallyNext]_<<tallyVars, faults>>

(* GovService.getProposalsVoter: of the successful votes of an account,    *)
(* sorted by height, the map keeps the last one.                           *)
VotesBy(w) == {x \in okVotes : castAt[x] > 0 /\ votersOf[x][1] = w}
ShownVote(w) == CHOOSE x \in VotesBy(w) : \A y \in VotesBy(w) : castAt[y] <= castAt[x]
ShownVoters == {w \in Delegators : VotesBy(w) # {}}

(* The power of an option: what its voters delegate, and for a validator   *)
(* the shares of those who did not vote themselves.                        *)
VotingPower(w) ==
    Power(w, Vals) +
    SumFunctionOnSet([v \in Vals |-> Delegated(stake, v, Delegators \ ShownVoters)],
                     {v \in Vals : operator[v] = w})
PowerOf(o) ==
    SumFunctionOnSet([w \in Delegators |-> VotingPower(w)],
                     {w \in ShownVoters : optionOf[ShownVote(w)] = o})

(* Votes whose first one decides: one transaction with one message by each *)
(* account, which succeeds; and voting validators delegate to themselves.  *)
CastTxs == {x \in VoteTxs : castAt[x] > 0}
Plain ==
    /\ \A x \in CastTxs : x \in okVotes /\ Len(votersOf[x]) = 1
    /\ \A x, y \in CastTxs : votersOf[x] = votersOf[y] => x = y
    /\ \A w \in ShownVoters, v \in Vals : operator[v] = w => stake[w][v] > 0

(* The power the task stores for each option is that of the accounts the   *)
(* voters page shows with this option, if nothing moved while it read and  *)
(* nobody voted twice, in vain, or for several at once.  The options add   *)
(* up to the total in any case, even if delegations moved meanwhile or an  *)
(* answer was missing, unless one account leads two groups of votes.       *)
OptionsAddUp ==
    \/ result'.total = SumFunction(result'.power)
    \/ \E g, h \in Groups : g # h /\ g[1] = h[1]
TallyStep ==
    TallyEnds =>
        /\ OptionsAddUp
        /\ ~tally.disturbed /\ Plain => \A o \in Options : result'.power[o] = PowerOf(o)
TallyIsExact == [][TallyStep]_tallyVars
=============================================================================
