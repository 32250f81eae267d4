---------------------------- MODULE StakingSync ----------------------------
(***************************************************************************)
(* The collection of staking validators and its three writers.             *)
(*   - StakingValidatorInfoTaskService asks the chain for the bonded, the  *)
(*     unbonded and the unbonding validators, one list after the other and *)
(*     one page of each, saves every validator it got and deletes the      *)
(*     others, without waiting for either.                                 *)
(*   - StakingValidatorMoreInfoTaskService reads the whole collection and  *)
(*     writes the documents back one by one, each as it was read.          *)
(*   - insertBlacks marks a validator (is_black) on a moderator's request. *)
(*                                                                         *)
(* Of a document the status stands for all that the chain says of the      *)
(* validator; "none" is a validator that does not exist, or no document.   *)
(* Of the same write sent again before it landed one is kept.              *)
(***************************************************************************)
EXTENDS Integers, FiniteSets

CONSTANTS
    Validators,
    ListSize,       \* pageSize: validators one request returns
    address,        \* the order in which the chain lists its validators
    Suspects,       \* bound: validators the moderator decides on
    MaxMoves,       \* bound: changes of a validator's status
    MaxFaults       \* bound: failed requests, lost writes, aborted passes

ASSUME StakingSettings ==
    /\ ListSize \in Nat \ {0}
    /\ address \in [Validators -> Nat]
    /\ \A u, v \in Validators : address[u] = address[v] => u = v
    /\ Suspects \subseteq Validators
    /\ {MaxMoves, MaxFaults} \subseteq Nat

VARIABLES
    chain,      \* status of every validator on the chain
    moves,      \* changes so far
    table,      \* ex_staking_validator
    stage,      \* the list the info task asks for next, or where it stands
    known,      \* validatorsFromDb: who had a document at the start
    found,      \* allValidatorsFromLcd
    sent,       \* writes of the info task under way
    copy,       \* documents the more-info task has read and not yet written
    faults,     \* faults so far
    vouched,    \* history: validators the lists of this run can be relied on for
    wanted,     \* history: the mark the moderator last set
    disturbed   \* history: marks another writer may have undone

vars == <<chain, moves, table, stage, known, found, sent, copy, faults,
          vouched, wanted, disturbed>>
infoVars == <<stage, known, found, vouched>>
markVars == <<wanted, disturbed>>

Statuses == {"bonded", "unbonded", "unbonding"}
Status == Statuses \cup {"none"}
Doc == [status : Status, black : BOOLEAN]
NoDoc == [status |-> "none", black |-> FALSE]
Save == [op : {"save"}, val : Validators, status : Statuses]
Delete == [op : {"delete"}, val : Validators]

TypeOK ==
    /\ chain \in [Validators -> Status]
    /\ moves \in 0..MaxMoves
    /\ table \in [Validators -> Doc]
    /\ stage \in Statuses \cup {"idle", "handling"}
    /\ known \subseteq Validators
    /\ found \in [Validators -> Status]
    /\ sent \subseteq Save \cup Delete
    /\ copy \in [Validators -> Doc]
    /\ faults \in 0..MaxFaults
    /\ vouched \subseteq Validators
    /\ wanted \in [Validators -> BOOLEAN]
    /\ disturbed \subseteq Validators

(* A chain makes no block without a bonded validator. *)
Runs(ch) == \E v \in Validators : ch[v] = "bonded"

Init ==
    /\ chain \in {ch \in [Validators -> Status] : Runs(ch)}
    /\ moves = 0
    /\ table = [v \in Validators |-> NoDoc]
    /\ stage = "idle"
    /\ known = {}
    /\ found = [v \in Validators |-> "none"]
    /\ sent = {}
    /\ copy = [v \in Validators |-> NoDoc]
    /\ faults = 0
    /\ vouched = {}
    /\ wanted = [v \in Validators |-> FALSE]
    /\ disturbed = {}

Exists(docs, v) == docs[v].status # "none"

Fault == faults < MaxFaults /\ faults' = faults + 1

-----------------------------------------------------------------------------
(* The chain: a validator is created unbonded and removed unbonded. *)
Moves(from, to) ==
    <<from, to>> \in {<<"none", "unbonded">>, <<"unbonded", "bonded">>,
                      <<"bonded", "unbonding">>, <<"unbonding", "bonded">>,
                      <<"unbonding", "unbonded">>, <<"unbonded", "none">>}

ChainMoves(v) ==
    /\ moves < MaxMoves
    /\ moves' = moves + 1
    /\ \E to \in Status : Moves(chain[v], to) /\ chain' = [chain EXCEPT ![v] = to]
    /\ Runs(chain')
    /\ vouched' = vouched \ {v}
    /\ UNCHANGED <<table, stage, known, found, sent, copy, faults, markVars>>

-----------------------------------------------------------------------------
(* StakingValidatorInfoTaskService.doTask. *)

Start ==
    /\ stage = "idle"
    /\ stage' = "bonded"
    /\ known' = {v \in Validators : Exists(table, v)}
    /\ vouched' = Validators
    /\ UNCHANGED <<chain, moves, table, found, sent, copy, faults, markVars>>

After(s) ==
    CASE s = "bonded" -> "unbonded"
      [] s = "unbonded" -> "unbonding"
      [] s = "unbonding" -> "handling"

(* Mutant: the third list is the second one again. *)
AskedTwice(s) == IF s = "unbonding" THEN "unbonded" ELSE s

(* The status a request asks for. *)
Asked(s) == s

(* The chain returns ListSize validators of a status, in the order of the  *)
(* addresses.  The page number is not sent and no next page is asked for.  *)
Beyond(v) ==
    /\ chain[v] # "none"
    /\ Cardinality({u \in Validators : chain[u] = chain[v] /\ address[u] < address[v]})
          >= ListSize

(* One list arrives; a validator named again takes the later status. *)
QueryList ==
    /\ stage \in Statuses
    /\ found' = [v \in Validators |->
                   IF chain[v] = Asked(stage) /\ ~Beyond(v) THEN chain[v] ELSE found[v]]
    /\ stage' = After(stage)
    /\ vouched' = {v \in vouched : chain[v] = stage => ~Beyond(v)}
    /\ UNCHANGED <<chain, moves, table, known, sent, copy, faults, markVars>>

Ended ==
    /\ stage' = "idle"
    /\ known' = {}
    /\ found' = [v \in Validators |-> "none"]
    /\ vouched' = {}

(* An answer without a list.  Only the bonded one is looked at: without it *)
(* the run ends, without one of the others it goes on as if nobody were    *)
(* unbonded or unbonding.                                                  *)
NoList ==
    /\ Fault
    /\ stage \in Statuses
    /\ \/ stage = "bonded" /\ Ended
       \/ /\ stage # "bonded"
          /\ stage' = After(stage)
          /\ vouched' = {v \in vouched : chain[v] # stage}
          /\ UNCHANGED <<known, found>>
    /\ UNCHANGED <<chain, moves, table, sent, copy, markVars>>

(* getInsertOrUpdateValidators and getDeleteValidators. *)
Saves ==
    {[op |-> "save", val |-> v, status |-> found[v]] :
       v \in {u \in Validators : found[u] # "none"}}

(* Mutant: nobody is deleted. *)
DeletesNobody == {}

Deletes ==
    {[op |-> "delete", val |-> v] : v \in {u \in known : found[u] = "none"}}

(* The writes are sent, unless the lists are empty, and the run ends: the  *)
(* callbacks of forEach are awaited by nobody.                             *)
Handle ==
    /\ stage = "handling"
    /\ sent' = IF Saves = {} THEN sent ELSE sent \cup Saves \cup Deletes
    /\ Ended
    /\ UNCHANGED <<chain, moves, table, copy, faults, markVars>>

(* A request or a computation on its answer throws. *)
RunThrows ==
    /\ Fault
    /\ stage # "idle"
    /\ Ended
    /\ UNCHANGED <<chain, moves, table, sent, copy, markVars>>

(* Mutant: the document is replaced, not its fields set. *)
SavedWhole(old, w) == [status |-> w.status, black |-> FALSE]

(* insertValidator: findOneAndUpdate with upsert sets the chain's fields. *)
Saved(old, w) == [old EXCEPT !.status = w.status]

SaveLands(w) ==
    /\ w \in sent \cap Save
    /\ sent' = sent \ {w}
    /\ table' = [table EXCEPT ![w.val] = Saved(@, w)]
    /\ UNCHANGED <<chain, moves, infoVars, copy, faults, markVars>>

(* deleteValidator.  The mark goes with the document. *)
DeleteLands(w) ==
    /\ w \in sent \cap Delete
    /\ sent' = sent \ {w}
    /\ table' = [table EXCEPT ![w.val] = NoDoc]
    /\ disturbed' = IF Exists(table, w.val) THEN disturbed \cup {w.val} ELSE disturbed
    /\ UNCHANGED <<chain, moves, infoVars, copy, faults, wanted>>

WriteLost(w) ==
    /\ Fault
    /\ w \in sent
    /\ sent' = sent \ {w}
    /\ UNCHANGED <<chain, moves, table, infoVars, copy, markVars>>

-----------------------------------------------------------------------------
(* StakingValidatorMoreInfoTaskService.doTask. *)

ReadAll ==
    /\ \A v \in Validators : ~Exists(copy, v)
    /\ \E v \in Validators : Exists(table, v)
    /\ copy' = table
    /\ UNCHANGED <<chain, moves, table, infoVars, sent, faults, markVars>>

(* insertValidator with the document that was read: every field of it is   *)
(* written, and a document deleted since is there again.                   *)
WriteBack(v) ==
    /\ Exists(copy, v)
    /\ table' = [table EXCEPT ![v] = copy[v]]
    /\ copy' = [copy EXCEPT ![v] = NoDoc]
    /\ UNCHANGED <<chain, moves, infoVars, sent, faults, markVars>>

(* A request fails in a way the pass does not expect (no icon) or a write  *)
(* is rejected: the documents not written yet are left alone.              *)
PassThrows ==
    /\ Fault
    /\ \E v \in Validators : Exists(copy, v)
    /\ copy' = [v \in Validators |-> NoDoc]
    /\ UNCHANGED <<chain, moves, table, infoVars, sent, markVars>>

-----------------------------------------------------------------------------
(* StakingService.insertBlacks: updateOne, nothing without a document. *)
InsertBlack(v, isBlack) ==
    /\ Exists(table, v)
    /\ table' = [table EXCEPT ![v].black = isBlack]
    /\ wanted' = [wanted EXCEPT ![v] = isBlack]
    /\ disturbed' = IF Exists(copy, v) THEN disturbed \cup {v} ELSE disturbed \ {v}
    /\ UNCHANGED <<chain, moves, infoVars, sent, copy, faults>>

InfoStep == Start \/ QueryList \/ Handle
Lands(v) == \E w \in sent : w.val = v /\ (SaveLands(w) \/ DeleteLands(w))

Next ==
    \/ InfoStep \/ NoList \/ RunThrows
    \/ ReadAll \/ PassThrows
    \/ \E v \in Validators :
          \/ ChainMoves(v) \/ Lands(v) \/ WriteBack(v)
    \/ \E v \in Suspects, isBlack \in BOOLEAN : InsertBlack(v, isBlack)
    \/ \E w \in sent : WriteLost(w)

Spec == Init /\ [][Next]_vars

(* Both tasks are started again and again and go on, writes land. *)
LiveSpec ==
    /\ Spec
    /\ WF_vars(InfoStep)
    /\ \A v \in Validators : WF_vars(Lands(v)) /\ WF_vars(WriteBack(v))
-----------------------------------------------------------------------------
(* Correctness. *)

(* A run deletes nobody who has kept his status since it began, although   *)
(* its three lists are read at three moments: only a validator that moved  *)
(* between them, one whose list was missing, or one beyond the limit of    *)
(* the request can slip through.  The last is deleted though it is there.  *)
SteadyAreKept ==
    stage = "handling" => \A w \in Deletes : w.val \in vouched => chain[w.val] = "none"

(* A mark stays what the moderator last set, unless the more-info task     *)
(* held an older copy at that moment or the document was deleted since:    *)
(* the info task, whatever it saves and whenever that lands, leaves it.    *)
MarkIsKept ==
    \A v \in Validators \ disturbed : Exists(table, v) => table[v].black = wanted[v]

(* When the chain rests every validator that is within the limit of its    *)
(* list is shown as it is time and again, the removed ones as removed: no  *)
(* stale copy written back lasts for ever.                                 *)
EveryoneIsUpToDate ==
    \A v \in Validators : []<>(table[v].status = chain[v] \/ Beyond(v))
=============================================================================
