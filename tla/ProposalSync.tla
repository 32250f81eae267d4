---------------------------- MODULE ProposalSync ----------------------------
(***************************************************************************)
(* The collections of proposals and of their tally details.                *)
(*   - ProposalTaskService lists the proposals of the chain, reads the     *)
(*     collection, flags as deleted what the chain no longer has, without  *)
(*     waiting for it, and writes first the details and then the documents *)
(*     of the new and of the still active proposals, one by one.           *)
(*   - ParametersTaskService stores the parameters of governance, without  *)
(*     which no proposal can be inserted.                                  *)
(*                                                                         *)
(* Rejected is shown as passed: nothing tells the two apart.  Two runs may *)
(* overlap, as a lock can be taken from a run that still works             *)
(* (TaskDispatch, MutualExclusion).                                        *)
(***************************************************************************)
EXTENDS Integers, FiniteSets

CONSTANTS
    MaxId,          \* bound: proposals are numbered 1..MaxId
    Limit,          \* proposalsLimit: how many the chain lists at most
    Runs,           \* runs of the task under way at most
    MaxFaults       \* bound: runs that fail or die, commands that are lost

ASSUME ProposalSettings ==
    /\ {MaxId, Limit} \subseteq Nat \ {0}
    /\ MaxFaults \in Nat

VARIABLES
    chain,      \* status of every proposal on the chain
    stored,     \* proposals whose submission is in the collection tx
    params,     \* groups of parameters in ex_sync_parameters
    table,      \* ex_sync_proposal
    details,    \* proposals with a document in ex_sync_proposal_detail
    got,        \* proposalFromLcdMap of every run
    owed,       \* details a run has still to write
    todo,       \* documents a run has still to write
    flags,      \* updateProposals under way
    faults,     \* faults so far
    crossed     \* history: proposals inserted while another run held a list
                \* without them

vars == <<chain, stored, params, table, details, got, owed, todo, flags, faults, crossed>>
runVars == <<got, owed, todo>>

Ids == 1..MaxId
Groups == {"tally", "deposit"}
ActiveStatus == {"deposit", "voting"}
ChainStatus == ActiveStatus \cup {"passed", "failed"}
DocStatus == ActiveStatus \cup {"passed", "unset"}
Doc == [status : DocStatus, deleted : BOOLEAN, submitted : BOOLEAN]
NoDoc == [status |-> "none", deleted |-> FALSE, submitted |-> FALSE]
Docs == [Ids -> Doc \cup {NoDoc}]
Nothing == [i \in Ids |-> "none"]
NoDocs == [i \in Ids |-> NoDoc]

Exists(docs, i) == docs[i] # NoDoc
Active(docs, i) == docs[i].status \in ActiveStatus

TypeOK ==
    /\ chain \in [Ids -> ChainStatus \cup {"none", "removed"}]
    /\ stored \subseteq Ids
    /\ params \subseteq Groups
    /\ table \in Docs
    /\ details \subseteq Ids
    /\ got \in [Runs -> [Ids -> ChainStatus \cup {"none"}]]
    /\ owed \in [Runs -> SUBSET Ids]
    /\ todo \in [Runs -> Docs]
    /\ flags \subseteq Ids
    /\ faults \in 0..MaxFaults
    /\ crossed \subseteq Ids

Init ==
    /\ chain = Nothing
    /\ stored = {}
    /\ params = {}
    /\ table = NoDocs
    /\ details = {}
    /\ got = [r \in Runs |-> Nothing]
    /\ owed = [r \in Runs |-> {}]
    /\ todo = [r \in Runs |-> NoDocs]
    /\ flags = {}
    /\ faults = 0
    /\ crossed = {}

Fault == faults < MaxFaults /\ faults' = faults + 1

-----------------------------------------------------------------------------
(* The chain, and its synchroniser, which stores a submission later. *)

Moves(from, to) ==
    <<from, to>> \in {<<"none", "deposit">>, <<"none", "voting">>,
                      <<"deposit", "voting">>, <<"deposit", "removed">>,
                      <<"voting", "passed">>, <<"voting", "failed">>}

ChainMoves(i) ==
    /\ \E to \in ChainStatus \cup {"removed"} :
          Moves(chain[i], to) /\ chain' = [chain EXCEPT ![i] = to]
    /\ \A j \in 1..(i - 1) : chain[j] # "none"
    /\ UNCHANGED <<stored, params, table, details, runVars, flags, faults, crossed>>

SubmitStored(i) ==
    /\ chain[i] # "none" /\ i \notin stored
    /\ stored' = stored \cup {i}
    /\ UNCHANGED <<chain, params, table, details, runVars, flags, faults, crossed>>

(* ParametersTaskService.doTask: each group comes from a request of its    *)
(* own, a failed one adds nothing, and every parameter is written apart.   *)
ParametersTask(g) ==
    /\ g \notin params
    /\ params' = params \cup {g}
    /\ UNCHANGED <<chain, stored, table, details, runVars, flags, faults, crossed>>

-----------------------------------------------------------------------------
(* ProposalTaskService.doTask. *)

Idle(r) == got[r] = Nothing /\ owed[r] = {} /\ todo[r] = NoDocs

OnChain == {i \in Ids : chain[i] \in ChainStatus}

(* Mutant: the newest are listed. *)
ListedNewest ==
    {i \in OnChain : Cardinality({j \in OnChain : j >= i}) <= Limit}

(* getProposals: the first Limit of them. *)
Listed ==
    {i \in OnChain : Cardinality({j \in OnChain : j <= i}) <= Limit}

(* An empty list, or none, ends the run. *)
GetProposals(r) ==
    /\ Idle(r)
    /\ Listed # {}
    /\ got' = [got EXCEPT ![r] = [i \in Ids |-> IF i \in Listed THEN chain[i] ELSE "none"]]
    /\ UNCHANGED <<chain, stored, params, table, details, owed, todo, flags, faults, crossed>>

(* queryAllProposals. *)
Kept == {i \in Ids : Exists(table, i) /\ ~table[i].deleted}

Vanished(r) == {i \in Kept : got[r][i] = "none"}
New(r) == {i \in Ids : got[r][i] # "none"} \ Kept
Refreshed == {i \in Kept : Active(table, i)}

(* The new proposals need all parameters, and the active ones their entry  *)
(* in the list.                                                            *)
Throws(r) ==
    \/ New(r) # {} /\ params # Groups
    \/ Refreshed \cap Vanished(r) # {}

(* proposalStatus knows no failed proposal. *)
StatusOf(s) == IF s = "failed" THEN "unset" ELSE s

(* Mutant: the flags are sent at the end, by a run that gets there. *)
FlaggedAtTheEnd(r) == IF Throws(r) THEN {} ELSE Vanished(r)

(* updateProposals is sent before anything can throw. *)
Flagged(r) == Vanished(r)

(* The document a run writes: it is not deleted in either source of it. *)
Made(r, i) ==
    [status |-> StatusOf(got[r][i]), deleted |-> FALSE, submitted |-> i \in stored]

(* Mutant: details are kept for what is being voted on. *)
TalliedVoting(r) ==
    {i \in Refreshed : table[i].status = "voting"} \cup
    {i \in New(r) : got[r][i] = "voting"}

(* Whose votes are counted: those active in the collection or, when new,   *)
(* on the chain.                                                           *)
Tallied(r) == Refreshed \cup {i \in New(r) : got[r][i] \in ActiveStatus}

(* The collection is read, the flags are sent, and unless it throws the    *)
(* run has its documents.  Submissions are looked up at this moment.       *)
Read(r) ==
    /\ got[r] # Nothing
    /\ got' = [got EXCEPT ![r] = Nothing]
    /\ flags' = flags \cup Flagged(r)
    /\ IF Throws(r)
         THEN UNCHANGED <<owed, todo>>
         ELSE /\ owed' = [owed EXCEPT ![r] = Tallied(r)]
              /\ todo' = [todo EXCEPT ![r] =
                            [i \in Ids |-> IF i \in New(r) \cup Refreshed
                                             THEN Made(r, i) ELSE NoDoc]]
    /\ UNCHANGED <<chain, stored, params, table, details, faults, crossed>>

(* insertAndUpdateProposalDetail. *)
WriteDetail(r, i) ==
    /\ i \in owed[r]
    /\ details' = details \cup {i}
    /\ owed' = [owed EXCEPT ![r] = @ \ {i}]
    /\ UNCHANGED <<chain, stored, params, table, got, todo, flags, faults, crossed>>

(* findOneAndUpdate with upsert: a field that is undefined stays as it is. *)
Saved(old, doc) ==
    IF old # NoDoc /\ doc.status = "unset" THEN [doc EXCEPT !.status = old.status] ELSE doc

(* insertAndUpdateProposal, once all details are written. *)
WriteProposal(r, i) ==
    /\ owed[r] = {}
    /\ Exists(todo[r], i)
    /\ table' = [table EXCEPT ![i] = Saved(@, todo[r][i])]
    /\ todo' = [todo EXCEPT ![r][i] = NoDoc]
    /\ crossed' = IF \E q \in Runs : got[q] # Nothing /\ got[q][i] = "none"
                    THEN crossed \cup {i} ELSE crossed
    /\ UNCHANGED <<chain, stored, params, details, got, owed, flags, faults>>

(* A command or a request of the run is rejected, or the process dies. *)
RunFails(r) ==
    /\ Fault
    /\ ~Idle(r)
    /\ got' = [got EXCEPT ![r] = Nothing]
    /\ owed' = [owed EXCEPT ![r] = {}]
    /\ todo' = [todo EXCEPT ![r] = NoDocs]
    /\ UNCHANGED <<chain, stored, params, table, details, flags, crossed>>

(* updateProposals. *)
FlagLands(i) ==
    /\ i \in flags
    /\ flags' = flags \ {i}
    /\ table' = [table EXCEPT ![i] = IF @ = NoDoc THEN @ ELSE [@ EXCEPT !.deleted = TRUE]]
    /\ UNCHANGED <<chain, stored, params, details, runVars, faults, crossed>>

FlagLost(i) ==
    /\ Fault
    /\ i \in flags
    /\ flags' = flags \ {i}
    /\ UNCHANGED <<chain, stored, params, table, details, runVars, crossed>>

RunStep(r) ==
    GetProposals(r) \/ Read(r) \/ \E i \in Ids : WriteDetail(r, i) \/ WriteProposal(r, i)

Next ==
    \/ \E i \in Ids : ChainMoves(i) \/ SubmitStored(i) \/ FlagLands(i) \/ FlagLost(i)
    \/ \E g \in Groups : ParametersTask(g)
    \/ \E r \in Runs : RunStep(r) \/ RunFails(r)

Spec == Init /\ [][Next]_vars

(* Cron starts both tasks again and again, the synchroniser catches up,    *)
(* and a command that was sent arrives unless it is lost.                  *)
LiveSpec ==
    /\ Spec
    /\ \A r \in Runs : WF_vars(RunStep(r))
    /\ \A g \in Groups : WF_vars(ParametersTask(g))
    /\ \A i \in Ids : WF_vars(SubmitStored(i)) /\ WF_vars(FlagLands(i))
-----------------------------------------------------------------------------
(* Correctness. *)

(* Only what the chain has removed is flagged as deleted, whenever the     *)
(* flags sent by a run land and however short its list was.  The one       *)
(* exception is a proposal that an overlapping run inserted between the    *)
(* list and the reading of the collection.                                 *)
FlaggedAreGone ==
    \A i \in Ids \ crossed : i \in flags \/ table[i].deleted => chain[i] = "removed"

(* A proposal shown with a vote open has its tally details already: they   *)
(* are written first, and a run that dies between the two leaves no gap.   *)
VotingHasDetails ==
    \A i \in Ids : table[i].status = "voting" => i \in details

(* What the collection should say of a proposal.  A failed proposal is     *)
(* shown in the state in which it was last read, one beyond the limit not  *)
(* at all, and a removed one is flagged only while others are listed.      *)
Shown(i) ==
    /\ i \in Listed /\ chain[i] # "failed" =>
          /\ table[i].status = chain[i] /\ ~table[i].deleted
          /\ Active(table, i) => table[i].submitted
    /\ chain[i] = "removed" /\ Listed # {} /\ Exists(table, i) => table[i].deleted

(* When chain and faults rest, every proposal is shown as it is for good:  *)
(* overlapping runs, lost flags, a missing submission and aborted runs     *)
(* delay it but leave nothing wrong for ever.                              *)
EveryProposalIsShown == \A i \in Ids : <>[]Shown(i)
=============================================================================
