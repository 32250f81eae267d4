CONSTANTS
    r1 = r1
    r2 = r2
    Runs = {r1, r2}
    MaxId = 2
    Limit = 1
    MaxFaults = 1
SPECIFICATION LiveSpec
INVARIANTS
    FlaggedAreGone
    VotingHasDetails
PROPERTIES
    EveryProposalIsShown
CHECK_DEADLOCK FALSE
