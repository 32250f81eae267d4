------------------------- MODULE ProposalSync_proofs -------------------------
(* Theorems about ProposalSync, for any number of proposals, any limit and *)
(* any overlapping runs.                                                   *)
EXTENDS ProposalSync, FiniteSetTheorems, TLAPS

LEMMA NoDocType ==
    /\ NoDoc.status = "none" /\ NoDoc.deleted = FALSE
    /\ NoDoc \notin Doc
    /\ NoDocs \in Docs
BY DEF NoDoc, NoDocs, Docs, Doc, DocStatus, ActiveStatus

LEMMA FaultType == TypeOK /\ Fault => faults' \in 0..MaxFaults
BY ProposalSettings DEF TypeOK, Fault

(* What a run writes of a proposal it has in its list. *)
LEMMA MadeType ==
    ASSUME TypeOK, NEW r \in Runs, NEW i \in Ids, got[r][i] # "none"
    PROVE  /\ Made(r, i) \in Doc
           /\ Made(r, i).deleted = FALSE
           /\ Made(r, i).status = "voting" => got[r][i] = "voting"
BY DEF TypeOK, Made, StatusOf, Doc, DocStatus, ChainStatus, ActiveStatus

(* A run that does not throw has every proposal it writes in its list. *)
LEMMA WrittenIsListed ==
    ASSUME TypeOK, NEW r \in Runs, ~Throws(r), NEW i \in New(r) \cup Refreshed
    PROVE  got[r][i] # "none"
BY DEF Throws, New, Vanished, Refreshed, Kept

LEMMA SavedType ==
    ASSUME NEW old \in Doc \cup {NoDoc}, NEW doc \in Doc
    PROVE  /\ Saved(old, doc) \in Doc
           /\ Saved(old, doc).deleted = doc.deleted
           /\ Saved(old, doc).status \in {old.status, doc.status}
BY NoDocType DEF Saved, Doc

LEMMA ReadType ==
    ASSUME TypeOK, NEW r \in Runs, Read(r)
    PROVE  TypeOK'
<1> USE DEF TypeOK
<1>1. Nothing \in [Ids -> ChainStatus \cup {"none"}]
  BY DEF Nothing
<1>2. Tallied(r) \subseteq Ids
  BY DEF Tallied, New, Refreshed, Kept
<1>3. Flagged(r) \subseteq Ids
  BY DEF Flagged, Vanished, Kept
<1>4. ASSUME ~Throws(r)
      PROVE  [i \in Ids |-> IF i \in New(r) \cup Refreshed THEN Made(r, i) ELSE NoDoc]
               \in Docs
  BY <1>4, MadeType, WrittenIsListed DEF Docs
<1>5. QED
  BY <1>1, <1>2, <1>3, <1>4 DEF Read

LEMMA TypeStep ==
    ASSUME TypeOK, [Next]_vars
    PROVE  TypeOK'
<1> USE DEF TypeOK, runVars
<1>1. ASSUME NEW i \in Ids, ChainMoves(i)
      PROVE  TypeOK'
  BY <1>1 DEF ChainMoves
<1>2. ASSUME NEW i \in Ids, SubmitStored(i)
      PROVE  TypeOK'
  BY <1>2 DEF SubmitStored
<1>3. ASSUME NEW i \in Ids, FlagLands(i)
      PROVE  TypeOK'
  <2>1. table[i] # NoDoc => [table[i] EXCEPT !.deleted = TRUE] \in Doc
    BY DEF Docs, Doc
  <2>2. QED
    BY <1>3, <2>1 DEF FlagLands, Docs
<1>4. ASSUME NEW i \in Ids, FlagLost(i)
      PROVE  TypeOK'
  BY <1>4, FaultType DEF FlagLost
<1>5. ASSUME NEW g \in Groups, ParametersTask(g)
      PROVE  TypeOK'
  BY <1>5 DEF ParametersTask
<1>6. ASSUME NEW r \in Runs, GetProposals(r)
      PROVE  TypeOK'
  <2>1. [i \in Ids |-> IF i \in Listed THEN chain[i] ELSE "none"]
          \in [Ids -> ChainStatus \cup {"none"}]
    BY DEF Listed, OnChain
  <2>2. QED
    BY <1>6, <2>1 DEF GetProposals
<1>7. ASSUME NEW r \in Runs, NEW i \in Ids, WriteDetail(r, i)
      PROVE  TypeOK'
  BY <1>7 DEF WriteDetail
<1>8. ASSUME NEW r \in Runs, NEW i \in Ids, WriteProposal(r, i)
      PROVE  TypeOK'
  <2>1. todo[r][i] \in Doc /\ table[i] \in Doc \cup {NoDoc}
    BY <1>8 DEF WriteProposal, Exists, Docs
  <2>2. table' \in Docs
    BY <1>8, <2>1, SavedType DEF WriteProposal, Docs
  <2>3. todo' \in [Runs -> Docs]
    BY <1>8 DEF WriteProposal, Docs
  <2>4. QED
    BY <1>8, <2>2, <2>3 DEF WriteProposal
<1>9. ASSUME NEW r \in Runs, RunFails(r)
      PROVE  TypeOK'
  BY <1>9, FaultType, NoDocType DEF RunFails, Nothing
<1>10. CASE UNCHANGED vars
  BY <1>10 DEF vars
<1>11. QED
  BY <1>1, <1>2, <1>3, <1>4, <1>5, <1>6, <1>7, <1>8, <1>9, <1>10, ReadType
     DEF Next, RunStep

LEMMA TypeInit == Init => TypeOK
BY NoDocType, ProposalSettings DEF Init, TypeOK, Nothing

(* The state is always of its types: no run writes a document without a    *)
(* status, not even for a proposal that has vanished from its list.        *)
THEOREM TypeCorrect == Spec => []TypeOK
<1>1. QED
  BY TypeInit, TypeStep, PTL DEF Spec

-----------------------------------------------------------------------------
(* A vote a run is about to show has its details or is among those the run *)
(* will write first.                                                       *)
DetailsFirst ==
    /\ VotingHasDetails
    /\ \A r \in Runs, i \in Ids :
          todo[r][i].status = "voting" => i \in details \cup owed[r]

LEMMA DetailsFirstRead ==
    ASSUME TypeOK, DetailsFirst, NEW r \in Runs, Read(r)
    PROVE  DetailsFirst'
<1> USE DEF TypeOK, DetailsFirst, VotingHasDetails
<1>1. CASE Throws(r)
  BY <1>1 DEF Read
<1>2. CASE ~Throws(r)
  <2>1. ASSUME NEW i \in Ids, todo'[r][i].status = "voting"
        PROVE  i \in owed'[r]
    <3>1. /\ todo'[r][i] = IF i \in New(r) \cup Refreshed THEN Made(r, i) ELSE NoDoc
          /\ owed'[r] = Tallied(r)
      BY <1>2 DEF Read
    <3>2. i \in New(r) \cup Refreshed
      BY <2>1, <3>1, NoDocType
    <3>3. got[r][i] = "voting"
      BY <1>2, <2>1, <3>1, <3>2, MadeType, WrittenIsListed
    <3>4. QED
      BY <3>1, <3>2, <3>3 DEF Tallied, ActiveStatus
  <2>2. QED
    BY <1>2, <2>1 DEF Read
<1>3. QED
  BY <1>1, <1>2

LEMMA DetailsFirstStep ==
    ASSUME TypeOK, DetailsFirst, [Next]_vars
    PROVE  DetailsFirst'
<1> USE DEF TypeOK, DetailsFirst, VotingHasDetails, runVars
<1>1. ASSUME NEW i \in Ids, FlagLands(i)
      PROVE  DetailsFirst'
  BY <1>1 DEF FlagLands, Docs, Doc
<1>2. ASSUME NEW r \in Runs, NEW i \in Ids, WriteDetail(r, i)
      PROVE  DetailsFirst'
  BY <1>2 DEF WriteDetail
<1>3. ASSUME NEW r \in Runs, NEW i \in Ids, WriteProposal(r, i)
      PROVE  DetailsFirst'
  <2>1. todo[r][i] \in Doc /\ table[i] \in Doc \cup {NoDoc}
    BY <1>3 DEF WriteProposal, Exists, Docs
  <2>2. Saved(table[i], todo[r][i]).status = "voting" => i \in details
    BY <1>3, <2>1, SavedType DEF WriteProposal
  <2>3. table'[i] = Saved(table[i], todo[r][i])
        /\ \A j \in Ids \ {i} : table'[j] = table[j]
    BY <1>3 DEF WriteProposal, Docs
  <2>4. \A q \in Runs, j \in Ids : todo'[q][j] = todo[q][j] \/ todo'[q][j] = NoDoc
    BY <1>3 DEF WriteProposal, Docs
  <2>5. QED
    BY <1>3, <2>2, <2>3, <2>4, NoDocType DEF WriteProposal
<1>4. ASSUME NEW r \in Runs, RunFails(r)
      PROVE  DetailsFirst'
  BY <1>4, NoDocType DEF RunFails, NoDocs
<1>5. CASE UNCHANGED <<table, details, owed, todo>>
  BY <1>5
<1>6. QED
  BY <1>1, <1>2, <1>3, <1>4, <1>5, DetailsFirstRead
     DEF Next, RunStep, ChainMoves, SubmitStored, FlagLost, ParametersTask,
         GetProposals, vars

(* A proposal shown in its voting period has its tally details, whatever   *)
(* run showed it and wherever that run or another one died.                *)
THEOREM DetailsAreThere == Spec => []VotingHasDetails
<1>1. Init => DetailsFirst
  BY NoDocType DEF Init, DetailsFirst, VotingHasDetails, NoDocs
<1>2. DetailsFirst => VotingHasDetails
  BY DEF DetailsFirst
<1>3. QED
  BY <1>1, <1>2, TypeInit, TypeStep, DetailsFirstStep, PTL DEF Spec

-----------------------------------------------------------------------------
(* A proposal the collection, a list or a run knows is on the chain, and   *)
(* will be listed for as long as the chain has it: those that come later   *)
(* have higher numbers and cannot push it beyond the limit.                *)
Secure(i) == chain[i] # "none" /\ (i \in OnChain => i \in Listed)

Numbered == \A i \in Ids : \A j \in 1..(i - 1) : chain[i] # "none" => chain[j] # "none"

Known(i) ==
    \/ Exists(table, i)
    \/ \E r \in Runs : got[r][i] # "none" \/ Exists(todo[r], i)

(* A run whose list lacks a stored proposal has been read after the chain  *)
(* removed it.                                                             *)
GapsAreGone ==
    \A r \in Runs, i \in Ids \ crossed :
       got[r] # Nothing /\ Exists(table, i) /\ got[r][i] = "none" => chain[i] = "removed"

FlagInv ==
    /\ Numbered
    /\ \A i \in Ids : Known(i) => Secure(i)
    /\ \A r \in Runs, i \in Ids : todo[r][i].deleted = FALSE
    /\ GapsAreGone
    /\ FlaggedAreGone

LEMMA SecureSame ==
    ASSUME UNCHANGED chain
    PROVE  \A i \in Ids : Secure(i)' <=> Secure(i)
<1>1. OnChain' = OnChain
  BY DEF OnChain
<1>2. Listed' = Listed
  BY <1>1 DEF Listed
<1>3. QED
  BY <1>1, <1>2 DEF Secure

LEMMA OnChainMonotone ==
    ASSUME TypeOK, Numbered, NEW k \in Ids, ChainMoves(k)
    PROVE  /\ Numbered'
           /\ \A i \in Ids : chain[i] # "none" => chain'[i] # "none"
           /\ \A i \in Ids : chain[i] = "removed" => chain'[i] = "removed"
           /\ \A i \in Ids : chain[i] # "none" =>
                 {j \in OnChain' : j <= i} \subseteq {j \in OnChain : j <= i}
<1>1. PICK to \in ChainStatus \cup {"removed"} :
         Moves(chain[k], to) /\ chain' = [chain EXCEPT ![k] = to]
  BY DEF ChainMoves
<1>2. /\ to # "none" /\ chain[k] # "removed"
      /\ chain[k] # "none" => chain[k] \in ChainStatus
  BY <1>1 DEF Moves, ChainStatus, ActiveStatus
<1>3. \A i \in Ids : chain'[i] = IF i = k THEN to ELSE chain[i]
  BY <1>1 DEF TypeOK
<1>4. \A j \in 1..(k - 1) : chain[j] # "none"
  BY DEF ChainMoves
<1>5. Numbered'
  <2>1. \A i \in Ids : \A j \in 1..(i - 1) : j \in Ids
    BY ProposalSettings DEF Ids
  <2>2. \A i \in Ids : chain[i] # "none" => chain'[i] # "none"
    BY <1>2, <1>3
  <2>3. \A i \in Ids \ {k} : chain'[i] # "none" => chain[i] # "none"
    BY <1>3
  <2>4. QED
    BY <1>4, <2>1, <2>2, <2>3 DEF Numbered
<1>6. ASSUME NEW i \in Ids, chain[i] # "none", NEW j \in OnChain', j <= i
      PROVE  j \in OnChain
  <2>1. j \in Ids /\ chain'[j] \in ChainStatus
    BY <1>6 DEF OnChain
  <2>2. chain[j] # "none"
    BY <1>6, <2>1, ProposalSettings DEF Numbered, Ids
  <2>3. QED
    BY <1>2, <1>3, <2>1, <2>2 DEF OnChain
<1>7. QED
  BY <1>2, <1>3, <1>5, <1>6

LEMMA SecureStable ==
    ASSUME TypeOK, Numbered, NEW k \in Ids, ChainMoves(k), NEW i \in Ids, Secure(i)
    PROVE  Secure(i)'
<1> DEFINE S == {j \in OnChain : j <= i}
<1>1. chain'[i] # "none" /\ {j \in OnChain' : j <= i} \subseteq S
  BY OnChainMonotone DEF Secure
<1>2. ASSUME i \in OnChain'
      PROVE  i \in Listed'
  <2>1. i \in OnChain
    BY <1>1, <1>2, ProposalSettings DEF Ids
  <2>2. Cardinality(S) <= Limit
    BY <2>1 DEF Secure, Listed
  <2>3. IsFiniteSet(S)
    <3>1. IsFiniteSet(Ids)
      BY FS_Interval, ProposalSettings DEF Ids
    <3>2. QED
      BY <3>1, FS_Subset DEF OnChain
  <2>4. /\ Cardinality({j \in OnChain' : j <= i}) \in Nat
        /\ Cardinality(S) \in Nat
        /\ Cardinality({j \in OnChain' : j <= i}) <= Cardinality(S)
    BY <1>1, <2>3, FS_Subset, FS_CardinalityType
  <2>5. QED
    BY <1>2, <2>2, <2>4, ProposalSettings DEF Listed
<1>3. QED
  BY <1>1, <1>2 DEF Secure

LEMMA FlagInvChain ==
    ASSUME TypeOK, FlagInv, NEW k \in Ids, ChainMoves(k)
    PROVE  FlagInv'
<1> USE DEF FlagInv
<1>1. UNCHANGED <<table, got, owed, todo, flags, crossed>>
  BY DEF ChainMoves, runVars
<1>2. Numbered' /\ \A i \in Ids : chain[i] = "removed" => chain'[i] = "removed"
  BY OnChainMonotone
<1>3. \A i \in Ids : Known(i)' => Secure(i)'
  BY <1>1, SecureStable DEF Known, Exists
<1>4. GapsAreGone' /\ FlaggedAreGone'
  BY <1>1, <1>2 DEF GapsAreGone, FlaggedAreGone, Exists
<1>5. QED
  BY <1>1, <1>2, <1>3, <1>4

LEMMA FlagInvList ==
    ASSUME TypeOK, FlagInv, NEW r \in Runs, GetProposals(r)
    PROVE  FlagInv'
<1> USE DEF FlagInv
<1>1. UNCHANGED <<chain, table, todo, flags, crossed>>
  BY DEF GetProposals
<1>2. /\ \A i \in Ids : got'[r][i] = IF i \in Listed THEN chain[i] ELSE "none"
      /\ \A q \in Runs \ {r} : got'[q] = got[q]
  BY DEF GetProposals, TypeOK
<1>3. \A i \in Ids : Secure(i)' <=> Secure(i)
  BY <1>1, SecureSame
<1>4. ASSUME NEW i \in Ids, Known(i)'
      PROVE  Secure(i)'
  <2>1. Known(i) \/ i \in Listed
    BY <1>1, <1>2, <1>4 DEF Known, Exists
  <2>2. i \in Listed => Secure(i)
    BY DEF Secure, Listed, OnChain, ChainStatus, ActiveStatus
  <2>3. QED
    BY <1>3, <2>1, <2>2
<1>5. ASSUME NEW i \in Ids \ crossed, Exists(table, i), i \notin Listed
      PROVE  chain[i] = "removed"
  BY <1>5 DEF Known, Secure, OnChain, TypeOK
<1>6. GapsAreGone'
  <2>1. \A i \in Listed : chain[i] # "none"
    BY DEF Listed, OnChain, ChainStatus, ActiveStatus
  <2>2. QED
    BY <1>1, <1>2, <1>5, <2>1 DEF GapsAreGone, Exists
<1>7. QED
  BY <1>1, <1>4, <1>6 DEF Numbered, FlaggedAreGone

LEMMA FlagInvRead ==
    ASSUME TypeOK, FlagInv, NEW r \in Runs, Read(r)
    PROVE  FlagInv'
<1> USE DEF FlagInv
<1>1. UNCHANGED <<chain, table, crossed>> /\ flags' = flags \cup Vanished(r)
  BY DEF Read, Flagged
<1>2. /\ got'[r] = Nothing /\ got[r] # Nothing
      /\ \A q \in Runs \ {r} : got'[q] = got[q] /\ todo'[q] = todo[q]
  BY DEF Read, TypeOK
<1>3. ASSUME NEW i \in Ids
      PROVE  \/ todo'[r][i] = todo[r][i]
             \/ todo'[r][i] = NoDoc
             \/ todo'[r][i] = Made(r, i) /\ (got[r][i] # "none" \/ Exists(table, i))
  BY DEF Read, TypeOK, New, Refreshed, Kept
<1>4. ASSUME NEW i \in Ids
      PROVE  todo'[r][i].deleted = FALSE
  <2>1. Made(r, i).deleted = FALSE
    BY DEF Made
  <2>2. todo[r][i].deleted = FALSE
    OBVIOUS
  <2>3. QED
    BY <1>3, <2>1, <2>2, NoDocType
<1>5. \A i \in Ids : Secure(i)' <=> Secure(i)
  BY <1>1, SecureSame
<1>6. ASSUME NEW i \in Ids, Known(i)'
      PROVE  Known(i)
  BY <1>1, <1>2, <1>3, <1>6 DEF Known, Exists, Nothing
<1>7. \A i \in Vanished(r) \ crossed : chain[i] = "removed"
  BY <1>2 DEF Vanished, Kept, GapsAreGone
<1>8. GapsAreGone' /\ FlaggedAreGone'
  BY <1>1, <1>2, <1>7 DEF GapsAreGone, FlaggedAreGone, Exists
<1>9. QED
  BY <1>1, <1>2, <1>4, <1>5, <1>6, <1>8 DEF Numbered

LEMMA FlagInvWrite ==
    ASSUME TypeOK, FlagInv, NEW r \in Runs, NEW k \in Ids, WriteProposal(r, k)
    PROVE  FlagInv'
<1> USE DEF FlagInv
<1>1. /\ UNCHANGED <<chain, got, flags>> /\ crossed \subseteq crossed'
      /\ (\E q \in Runs : got[q] # Nothing /\ got[q][k] = "none") => k \in crossed'
      /\ Exists(todo[r], k)
  BY DEF WriteProposal
<1>2. todo[r][k] \in Doc /\ table[k] \in Doc \cup {NoDoc}
  BY <1>1 DEF Exists, TypeOK, Docs
<1>3. /\ table'[k].deleted = FALSE
      /\ \A i \in Ids \ {k} : table'[i] = table[i]
      /\ \A q \in Runs, i \in Ids : todo'[q][i] \in {todo[q][i], NoDoc}
  <2>1. Saved(table[k], todo[r][k]).deleted = FALSE
    BY <1>2, SavedType
  <2>2. /\ table'[k] = Saved(table[k], todo[r][k])
        /\ \A i \in Ids \ {k} : table'[i] = table[i]
    BY DEF WriteProposal, TypeOK, Docs
  <2>3. \A q \in Runs, i \in Ids : todo'[q][i] \in {todo[q][i], NoDoc}
    BY DEF WriteProposal, TypeOK, Docs
  <2>4. QED
    BY <2>1, <2>2, <2>3
<1>4. \A i \in Ids : Secure(i)' <=> Secure(i)
  BY <1>1, SecureSame
<1>5. \A i \in Ids : Known(i)' => Known(i)
  BY <1>1, <1>3 DEF Known, Exists
<1>6. GapsAreGone'
  BY <1>1, <1>3 DEF GapsAreGone, Exists
<1>7. FlaggedAreGone'
  BY <1>1, <1>3 DEF FlaggedAreGone
<1>8. QED
  BY <1>1, <1>3, <1>4, <1>5, <1>6, <1>7, NoDocType DEF Numbered

LEMMA FlagInvStep ==
    ASSUME TypeOK, FlagInv, [Next]_vars
    PROVE  FlagInv'
<1> USE DEF TypeOK, FlagInv
<1>1. ASSUME NEW i \in Ids, FlagLands(i)
      PROVE  FlagInv'
  <2>1. /\ UNCHANGED <<chain, got, todo, crossed>> /\ flags' \subseteq flags /\ i \in flags
        /\ \A j \in Ids \ {i} : table'[j] = table[j]
        /\ Exists(table, i)' => Exists(table, i)
    BY <1>1 DEF FlagLands, runVars, Docs, Exists
  <2>2. QED
    BY <2>1 DEF Numbered, Known, Secure, OnChain, Listed, GapsAreGone, FlaggedAreGone, Exists
<1>2. ASSUME NEW r \in Runs, RunFails(r)
      PROVE  FlagInv'
  <2>1. /\ UNCHANGED <<chain, table, flags, crossed>>
        /\ got'[r] = Nothing /\ todo'[r] = NoDocs
        /\ \A q \in Runs \ {r} : got'[q] = got[q] /\ todo'[q] = todo[q]
    BY <1>2 DEF RunFails
  <2>2. \A i \in Ids : Secure(i)' <=> Secure(i)
    BY <2>1, SecureSame
  <2>3. \A i \in Ids : Known(i)' => Known(i)
    BY <2>1 DEF Known, Exists, Nothing, NoDocs
  <2>4. GapsAreGone' /\ FlaggedAreGone'
    BY <2>1 DEF GapsAreGone, FlaggedAreGone, Exists
  <2>5. QED
    BY <2>1, <2>2, <2>3, <2>4, NoDocType DEF Numbered, NoDocs
<1>3. ASSUME UNCHANGED <<chain, table, got, todo, crossed>>, flags' \subseteq flags
      PROVE  FlagInv'
  BY <1>3 DEF Numbered, Known, Secure, OnChain, Listed, GapsAreGone, FlaggedAreGone, Exists
<1>4. QED
  BY <1>1, <1>2, <1>3, FlagInvChain, FlagInvList, FlagInvRead, FlagInvWrite
     DEF Next, RunStep, SubmitStored, FlagLost, ParametersTask, WriteDetail, vars, runVars

(* Nothing is flagged as deleted that the chain still has, for any limit   *)
(* on the list and any number of overlapping runs, save a proposal         *)
(* inserted between the list and the read of another run.                  *)
THEOREM FlagsAreRight == Spec => []FlaggedAreGone
<1>1. Init => FlagInv
  BY NoDocType DEF Init, FlagInv, Numbered, Known, GapsAreGone, FlaggedAreGone, Exists,
     NoDocs, Nothing
<1>2. FlagInv => FlaggedAreGone
  BY DEF FlagInv
<1>3. QED
  BY <1>1, <1>2, TypeInit, TypeStep, FlagInvStep, PTL DEF Spec
=============================================================================
