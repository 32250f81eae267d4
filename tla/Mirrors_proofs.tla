---------------------------- MODULE Mirrors_proofs ----------------------------
(***************************************************************************)
(* Theorems about the tasks that mirror what the chain has in a collection *)
(* each (Mirrors): denoms, tokens, validators, account information and the *)
(* tally of proposals; and about the identities (IdentitySync), which are  *)
(* mirrored the same way; for any setting of the constants.                *)
(***************************************************************************)
EXTENDS Mirrors, IdentitySync, SetFacts, SequenceTheorems, TLAPS

(***************************************************************************)
(* DenomSync.                                                              *)
(***************************************************************************)
AllIds == Ids \cup {NoId}
Heights == 0..MaxDenomHeight
RunStates == [at : {"idle", "query", "insert"}, cursor : Heights, batch : SUBSET IssueTxs]

-----------------------------------------------------------------------------
(* A document carries the height of a transaction it was made of. *)
DocsAreOfTxs ==
    \A i \in AllIds : denoms[i] # 0 =>
        \E x \in IssueTxs : firstId[x] = i /\ issued[x] = denoms[i]

(* What the first messages say is stored. *)
FirstsAreKept ==
    \A x \in IssueTxs \ (cutTxs \cup brokenTxs) :
        0 < issued[x] /\ issued[x] <= DenomCursor => denoms[firstId[x]] # 0

(* A run under way began at a cursor that is not above the present one,    *)
(* and its batch has everything between that cursor and any height of its  *)
(* own, but for what is cut off or was broken off.                         *)
RunIsComplete(r) ==
    /\ denomRun[r].at # "idle" => denomRun[r].cursor <= DenomCursor
    /\ denomRun[r].at = "insert" =>
           \A b \in denomRun[r].batch :
               /\ issued[b] > denomRun[r].cursor
               /\ \A x \in IssueTxs \ (cutTxs \cup brokenTxs) :
                      denomRun[r].cursor < issued[x] /\ issued[x] <= issued[b]
                          => x \in denomRun[r].batch

DenomInv ==
    /\ DenomTypeOK
    /\ DocsAreOfTxs
    /\ \A r \in Runs : RunIsComplete(r)
    /\ FirstsAreKept

-----------------------------------------------------------------------------
LEMMA CursorIsHighest ==
    ASSUME denoms \in [AllIds -> Heights]
    PROVE  /\ DenomCursor \in Heights
           /\ \A i \in AllIds : denoms[i] <= DenomCursor
           /\ \E i \in AllIds : denoms[i] = DenomCursor
<1> DEFINE S == {denoms[i] : i \in AllIds}
<1>1. S \in SUBSET (0..MaxDenomHeight) /\ denoms[NoId] \in S
  BY DEF AllIds, Heights
<1>2. Max(S) \in S /\ \A y \in S : y <= Max(S)
  BY <1>1, DenomSettings, MaxIsGreatest
<1>3. DenomCursor = Max(S)
  BY DEF DenomCursor, AllIds
<1>4. QED
  BY <1>1, <1>2, <1>3 DEF Heights

LEMMA DenomInitInv == DenomInit => DenomInv
<1> SUFFICES ASSUME DenomInit
             PROVE  DenomInv
  OBVIOUS
<1>1. DenomTypeOK
  BY DenomSettings DEF DenomInit, DenomTypeOK, DenomIdle
<1>2. QED
  BY <1>1 DEF DenomInit, DenomInv, DocsAreOfTxs, RunIsComplete, FirstsAreKept, DenomIdle, AllIds

(* A new block is above all others, so above the cursor and every batch.   *)
LEMMA BlockKeepsInv ==
    ASSUME DenomInv, NEW S \in SUBSET IssueTxs, DenomBlock(S)
    PROVE  DenomInv'
<1> DEFINE H == {issued[x] : x \in IssueTxs}
           top == Max(H)
<1>1. H \in SUBSET (0..MaxDenomHeight) /\ H # {}
  BY DEF DenomInv, DenomTypeOK, DenomBlock
<1>2. top \in H /\ \A y \in H : y <= top
  BY <1>1, DenomSettings, MaxIsGreatest
<1>3. /\ \A x \in IssueTxs : issued[x] \in Nat /\ issued[x] <= top
      /\ top \in Nat /\ top < MaxDenomHeight
  BY <1>1, <1>2 DEF DenomBlock
<1>4. /\ denoms' = denoms /\ denomRun' = denomRun
      /\ cutTxs' = cutTxs /\ brokenTxs' = brokenTxs
      /\ issued' = [x \in IssueTxs |-> IF x \in S THEN top + 1 ELSE issued[x]]
      /\ \A x \in S : issued[x] = 0
  BY DEF DenomBlock
<1> HIDE DEF H, top
<1>5. DenomTypeOK'
  <2>1. top + 1 \in 0..MaxDenomHeight
    BY <1>3, DenomSettings
  <2>2. QED
    BY <1>4, <2>1 DEF DenomInv, DenomTypeOK
<1>6. DenomCursor' = DenomCursor
  BY <1>4 DEF DenomCursor
<1>7. /\ DenomCursor \in Nat /\ DenomCursor <= top
  <2>1. denoms \in [AllIds -> Heights]
    BY DEF DenomInv, DenomTypeOK, AllIds, Heights
  <2>2. PICK i \in AllIds : denoms[i] = DenomCursor
    BY <2>1, CursorIsHighest
  <2>3. DenomCursor \in Nat
    BY <2>1, CursorIsHighest DEF Heights
  <2>4. DenomCursor # 0 => \E x \in IssueTxs : issued[x] = DenomCursor
    BY <2>2 DEF DenomInv, DocsAreOfTxs
  <2>5. QED
    BY <1>3, <2>3, <2>4
<1>8. \A x \in IssueTxs : issued[x] # 0 => issued'[x] = issued[x]
  BY <1>4
<1>9. \A x \in IssueTxs : issued'[x] = issued[x] \/ issued'[x] = top + 1
  BY <1>4
<1>10. DocsAreOfTxs'
  BY <1>4, <1>8 DEF DenomInv, DocsAreOfTxs, AllIds
<1>11. ASSUME NEW r \in Runs
       PROVE  RunIsComplete(r)'
  <2>1. denomRun[r].cursor \in Nat /\ denomRun[r].batch \subseteq IssueTxs
    BY DEF DenomInv, DenomTypeOK
  <2>2. RunIsComplete(r)
    BY DEF DenomInv
  <2>3. \A b \in denomRun[r].batch : denomRun[r].at = "insert" =>
            issued'[b] = issued[b] /\ issued[b] <= top
    BY <1>3, <1>8, <2>1, <2>2 DEF RunIsComplete
  <2>4. QED
    BY <1>3, <1>4, <1>6, <1>9, <2>1, <2>2, <2>3 DEF RunIsComplete
<1>12. FirstsAreKept'
  BY <1>3, <1>4, <1>6, <1>7, <1>9 DEF DenomInv, FirstsAreKept, DenomTypeOK
<1>13. QED
  BY <1>5, <1>10, <1>11, <1>12 DEF DenomInv

(* A batch is cut only among the transactions of its last height.          *)
LEMMA QueryKeepsInv ==
    ASSUME DenomInv, NEW r \in Runs, QueryDenomTxList(r)
    PROVE  DenomInv'
<1> DEFINE above == {x \in IssueTxs : issued[x] > denomRun[r].cursor}
<1>1. PICK B \in DenomBatches(above) :
          /\ denomRun' = [denomRun EXCEPT
                 ![r] = IF B = {} THEN DenomIdle
                        ELSE [@ EXCEPT !.at = "insert", !.batch = B]]
          /\ cutTxs' = cutTxs \cup CutOff(above, B, issued)
  BY DEF QueryDenomTxList
<1>2. /\ issued' = issued /\ denoms' = denoms /\ brokenTxs' = brokenTxs
      /\ denomRun[r].at = "query"
  BY DEF QueryDenomTxList
<1>3. B \in SUBSET above /\ \A x \in B, y \in above \ B : issued[x] <= issued[y]
  BY <1>1 DEF DenomBatches, Smallest
<1>4. /\ issued \in [IssueTxs -> Heights] /\ denomRun[r].cursor \in Heights
      /\ \A x \in IssueTxs : issued[x] \in Nat
  BY DEF DenomInv, DenomTypeOK, Heights
<1>5. CutOff(above, B, issued) \subseteq IssueTxs
  BY DEF CutOff
<1>6. /\ \/ denomRun'[r] = DenomIdle
         \/ /\ denomRun'[r].at = "insert" /\ denomRun'[r].batch = B
            /\ denomRun'[r].cursor = denomRun[r].cursor
      /\ \A s \in Runs \ {r} : denomRun'[s] = denomRun[s]
      /\ DenomTypeOK'
  <2>1. /\ denomRun \in [Runs -> RunStates] /\ denomRun[r] \in RunStates
        /\ B \in SUBSET IssueTxs
    BY <1>3 DEF DenomInv, DenomTypeOK, RunStates, Heights
  <2>2. /\ DenomIdle \in RunStates
        /\ [denomRun[r] EXCEPT !.at = "insert", !.batch = B] \in RunStates
    <3>1. DenomIdle \in RunStates
      BY DenomSettings DEF RunStates, DenomIdle, Heights
    <3>2. [denomRun[r] EXCEPT !.at = "insert", !.batch = B] \in RunStates
      BY <2>1 DEF RunStates
    <3>3. QED
      BY <3>1, <3>2
  <2>3. denomRun' \in [Runs -> RunStates] /\ \A s \in Runs \ {r} : denomRun'[s] = denomRun[s]
    BY <1>1, <2>1, <2>2
  <2>4. \/ denomRun'[r] = DenomIdle
        \/ /\ denomRun'[r].at = "insert" /\ denomRun'[r].batch = B
           /\ denomRun'[r].cursor = denomRun[r].cursor
    BY <1>1, <2>1 DEF RunStates
  <2>5. DenomTypeOK'
    BY <1>1, <1>2, <1>5, <2>3 DEF DenomInv, DenomTypeOK, RunStates, Heights
  <2>6. QED
    BY <2>3, <2>4, <2>5
<1>7. DenomCursor' = DenomCursor
  BY <1>2 DEF DenomCursor
<1>8. \A x \in above \ B, b \in B : issued[x] <= issued[b] => x \in cutTxs'
  BY <1>1, <1>3, <1>4 DEF CutOff
<1>9. ASSUME NEW s \in Runs, s # r
      PROVE  RunIsComplete(s)'
  BY <1>1, <1>2, <1>6, <1>7, <1>9 DEF DenomInv, RunIsComplete
<1>10. RunIsComplete(r)'
  <2>1. RunIsComplete(r)
    BY DEF DenomInv
  <2>2. CASE denomRun'[r] = DenomIdle
    BY <2>2 DEF RunIsComplete, DenomIdle
  <2>3. CASE denomRun'[r] # DenomIdle
    BY <1>2, <1>3, <1>4, <1>6, <1>7, <1>8, <2>1, <2>3 DEF RunIsComplete
  <2>4. QED
    BY <2>2, <2>3
<1>11. FirstsAreKept'
  BY <1>1, <1>2, <1>7 DEF DenomInv, FirstsAreKept
<1>12. DocsAreOfTxs'
  BY <1>2 DEF DenomInv, DocsAreOfTxs
<1>13. QED
  BY <1>6, <1>9, <1>10, <1>11, <1>12 DEF DenomInv

LEMMA FindKeepsInv ==
    ASSUME DenomInv, NEW r \in Runs, FindLastBlockHeight(r)
    PROVE  DenomInv'
<1>1. /\ denomRun' = [denomRun EXCEPT ![r] = [at |-> "query", cursor |-> DenomCursor, batch |-> {}]]
      /\ issued' = issued /\ denoms' = denoms /\ cutTxs' = cutTxs /\ brokenTxs' = brokenTxs
  BY DEF FindLastBlockHeight
<1>2. DenomCursor \in Heights
  BY CursorIsHighest DEF DenomInv, DenomTypeOK, AllIds, Heights
<1>3. DenomCursor' = DenomCursor
  BY <1>1 DEF DenomCursor
<1>4. /\ denomRun \in [Runs -> RunStates]
      /\ [at |-> "query", cursor |-> DenomCursor, batch |-> {}] \in RunStates
  BY <1>2 DEF DenomInv, DenomTypeOK, RunStates, Heights
<1>5. /\ denomRun' \in [Runs -> RunStates]
      /\ denomRun'[r] = [at |-> "query", cursor |-> DenomCursor, batch |-> {}]
      /\ \A s \in Runs \ {r} : denomRun'[s] = denomRun[s]
  BY <1>1, <1>4
<1>6. DenomTypeOK'
  BY <1>1, <1>5 DEF DenomInv, DenomTypeOK, RunStates, Heights
<1>7. ASSUME NEW s \in Runs
      PROVE  RunIsComplete(s)'
  <2>1. CASE s = r
    BY <1>2, <1>3, <1>5, <2>1 DEF RunIsComplete, Heights
  <2>2. CASE s # r
    BY <1>1, <1>3, <1>5, <2>2 DEF DenomInv, RunIsComplete
  <2>3. QED
    BY <2>1, <2>2
<1>8. FirstsAreKept' /\ DocsAreOfTxs'
  BY <1>1, <1>3 DEF DenomInv, FirstsAreKept, DocsAreOfTxs
<1>9. QED
  BY <1>6, <1>7, <1>8 DEF DenomInv

(* insertMany fills ids that have no document, with heights of its own.    *)
LEMMA DocsOfBatch ==
    ASSUME DenomInv, NEW S \in SUBSET IssueTxs, \A x \in S : issued[x] > 0
    PROVE  /\ DenomsWith(S) \in [AllIds -> Heights]
           /\ \A i \in AllIds : denoms[i] # 0 => DenomsWith(S)[i] = denoms[i]
           /\ \A x \in S : DenomsWith(S)[firstId[x]] # 0
           /\ \A i \in AllIds : DenomsWith(S)[i] # denoms[i] =>
                  \E x \in S : firstId[x] = i /\ issued[x] = DenomsWith(S)[i]
<1>1. /\ denoms \in [AllIds -> Heights] /\ firstId \in [IssueTxs -> AllIds]
      /\ issued \in [IssueTxs -> Heights]
  BY DenomSettings DEF DenomInv, DenomTypeOK, AllIds, Heights
<1>2. ASSUME NEW i \in AllIds, NEW z \in S, firstId[z] = i
      PROVE  LET M == Min({issued[x] : x \in {y \in S : firstId[y] = i}}) IN
             M \in Heights \ {0} /\ \E x \in S : firstId[x] = i /\ issued[x] = M
  <2> DEFINE H == {issued[x] : x \in {y \in S : firstId[y] = i}}
  <2>1. H \in SUBSET Nat /\ H # {}
    BY <1>1, <1>2 DEF Heights
  <2>2. Min(H) \in H
    BY <2>1, MinIsLeast, Zenon
  <2>3. PICK x \in S : firstId[x] = i /\ issued[x] = Min(H)
    BY <2>2
  <2>4. Min(H) \in Heights /\ Min(H) # 0
    BY <1>1, <2>3 DEF Heights
  <2>5. QED
    BY <2>3, <2>4
<1>3. DenomsWith(S) =
          [i \in AllIds |->
              IF denoms[i] = 0 /\ \E x \in S : firstId[x] = i
              THEN Min({issued[x] : x \in {y \in S : firstId[y] = i}})
              ELSE denoms[i]]
  BY DEF DenomsWith, AllIds
<1>4. ASSUME NEW i \in AllIds
      PROVE  /\ DenomsWith(S)[i] \in Heights
             /\ denoms[i] # 0 => DenomsWith(S)[i] = denoms[i]
             /\ DenomsWith(S)[i] # denoms[i] =>
                    \E x \in S : firstId[x] = i /\ issued[x] = DenomsWith(S)[i]
             /\ (\E x \in S : firstId[x] = i) => DenomsWith(S)[i] # 0
  <2>1. CASE denoms[i] = 0 /\ \E x \in S : firstId[x] = i
    <3>1. PICK z \in S : firstId[z] = i
      BY <2>1
    <3>2. DenomsWith(S)[i] = Min({issued[x] : x \in {y \in S : firstId[y] = i}})
      BY <1>3, <2>1, Zenon
    <3>3. QED
      BY <1>2, <2>1, <3>1, <3>2
  <2>2. CASE ~(denoms[i] = 0 /\ \E x \in S : firstId[x] = i)
    <3>1. DenomsWith(S)[i] = denoms[i]
      BY <1>3, <2>2, Zenon
    <3>2. QED
      BY <1>1, <2>2, <3>1
  <2>3. QED
    BY <2>1, <2>2
<1>5. DenomsWith(S) \in [AllIds -> Heights]
  <2>1. DenomsWith(S) = [i \in AllIds |-> DenomsWith(S)[i]]
    BY <1>3, Zenon
  <2>2. QED
    BY <1>4, <2>1
<1>6. QED
  BY <1>1, <1>4, <1>5

(* Whatever part S of a batch is stored: the rest is counted as broken.    *)
LEMMA InsertKeepsInv ==
    ASSUME DenomInv, NEW r \in Runs, denomRun[r].at = "insert",
           NEW S \in SUBSET denomRun[r].batch,
           denoms' = DenomsWith(S), issued' = issued, cutTxs' = cutTxs,
           brokenTxs' = brokenTxs \cup (denomRun[r].batch \ S),
           denomRun' = [denomRun EXCEPT ![r] = DenomIdle]
    PROVE  DenomInv'
<1>1. /\ issued \in [IssueTxs -> Heights] /\ denoms \in [AllIds -> Heights]
      /\ denomRun \in [Runs -> RunStates] /\ denomRun[r].batch \subseteq IssueTxs
      /\ firstId \in [IssueTxs -> AllIds] /\ denomRun[r].cursor \in Heights
  BY DenomSettings DEF DenomInv, DenomTypeOK, RunStates, AllIds, Heights
<1>2. RunIsComplete(r)
  BY DEF DenomInv
<1>3. S \in SUBSET IssueTxs /\ \A x \in S : issued[x] > 0
  BY <1>1, <1>2 DEF RunIsComplete, Heights
<1>4. /\ denoms' \in [AllIds -> Heights]
      /\ \A i \in AllIds : denoms[i] # 0 => denoms'[i] = denoms[i]
      /\ \A x \in S : denoms'[firstId[x]] # 0
      /\ \A i \in AllIds : denoms'[i] # denoms[i] =>
             \E x \in S : firstId[x] = i /\ issued[x] = denoms'[i]
  BY <1>3, DocsOfBatch
<1>5. /\ DenomIdle \in RunStates /\ denomRun'[r] = DenomIdle
      /\ denomRun' \in [Runs -> RunStates]
      /\ \A s \in Runs \ {r} : denomRun'[s] = denomRun[s]
  BY <1>1, DenomSettings DEF DenomIdle, RunStates, Heights
<1>6. DenomTypeOK'
  BY <1>1, <1>4, <1>5 DEF DenomInv, DenomTypeOK, RunStates, AllIds, Heights
<1>7. DocsAreOfTxs'
  BY <1>3, <1>4 DEF DenomInv, DocsAreOfTxs
<1>8. /\ DenomCursor \in Heights /\ \A i \in AllIds : denoms[i] <= DenomCursor
      /\ \E i \in AllIds : denoms[i] = DenomCursor
  BY <1>1, CursorIsHighest
<1>9. /\ DenomCursor' \in Heights /\ \A i \in AllIds : denoms'[i] <= DenomCursor'
      /\ \E i \in AllIds : denoms'[i] = DenomCursor'
  <2> DEFINE H == {denoms'[i] : i \in AllIds}
  <2>1. H \in SUBSET (0..MaxDenomHeight) /\ denoms'[NoId] \in H
    BY <1>4 DEF AllIds, Heights
  <2>2. Max(H) \in H /\ \A y \in H : y <= Max(H)
    BY <2>1, DenomSettings, MaxIsGreatest
  <2>3. DenomCursor' = Max(H)
    BY DEF DenomCursor, AllIds
  <2>4. QED
    BY <2>1, <2>2, <2>3 DEF Heights
<1>10. DenomCursor <= DenomCursor'
  <2>1. PICK i \in AllIds : denoms[i] = DenomCursor
    BY <1>8
  <2>2. denoms'[i] \in Heights /\ denoms'[i] <= DenomCursor'
    BY <1>4, <1>9
  <2>3. denoms[i] = 0 \/ denoms'[i] = denoms[i]
    BY <1>4
  <2>4. QED
    BY <1>8, <1>9, <2>1, <2>2, <2>3 DEF Heights
<1>11. DenomCursor' # DenomCursor => \E y \in S : issued[y] = DenomCursor'
  <2>1. PICK i \in AllIds : denoms'[i] = DenomCursor'
    BY <1>9
  <2>2. denoms'[i] = denoms[i] => DenomCursor' <= DenomCursor
    BY <1>8, <2>1
  <2>3. QED
    BY <1>4, <1>8, <1>9, <1>10, <2>1, <2>2 DEF Heights
<1>12. FirstsAreKept'
  <2>1. SUFFICES ASSUME NEW x \in IssueTxs \ (cutTxs' \cup brokenTxs'),
                        0 < issued[x], issued[x] <= DenomCursor'
                 PROVE  denoms'[firstId[x]] # 0
    BY DEF FirstsAreKept
  <2>2. issued[x] \in Nat /\ firstId[x] \in AllIds
    BY <1>1 DEF Heights
  <2>3. CASE issued[x] <= DenomCursor
    <3>1. denoms[firstId[x]] # 0
      BY <2>1, <2>3 DEF DenomInv, FirstsAreKept
    <3>2. QED
      BY <1>4, <2>2, <3>1
  <2>4. CASE ~(issued[x] <= DenomCursor)
    <3>1. PICK y \in S : issued[y] = DenomCursor'
      BY <1>11, <2>1, <2>4
    <3>2. denomRun[r].cursor < issued[x] /\ issued[x] <= issued[y]
      BY <1>1, <1>2, <1>8, <2>1, <2>2, <2>4, <3>1 DEF RunIsComplete, Heights
    <3>3. x \in denomRun[r].batch
      BY <1>2, <2>1, <3>1, <3>2 DEF RunIsComplete
    <3>4. x \in S
      BY <2>1, <3>3
    <3>5. QED
      BY <1>4, <3>4
  <2>5. QED
    BY <2>3, <2>4
<1>13. ASSUME NEW s \in Runs
       PROVE  RunIsComplete(s)'
  <2>1. CASE s = r
    BY <1>5, <2>1 DEF RunIsComplete, DenomIdle
  <2>2. CASE s # r
    <3>1. RunIsComplete(s) /\ denomRun'[s] = denomRun[s] /\ denomRun[s].cursor \in Heights
      BY <1>1, <1>5, <2>2 DEF DenomInv, RunStates
    <3>2. denomRun[s].cursor <= DenomCursor => denomRun[s].cursor <= DenomCursor'
      BY <1>8, <1>9, <1>10, <3>1 DEF Heights
    <3>3. QED
      BY <3>1, <3>2 DEF RunIsComplete
  <2>3. QED
    BY <2>1, <2>2
<1>14. QED
  BY <1>6, <1>7, <1>12, <1>13 DEF DenomInv

LEMMA DenomStepInv == DenomInv /\ [DenomNext]_denomVars => DenomInv'
<1> SUFFICES ASSUME DenomInv, [DenomNext]_denomVars
             PROVE  DenomInv'
  OBVIOUS
<1>1. ASSUME NEW S \in SUBSET IssueTxs, DenomBlock(S)
      PROVE  DenomInv'
  BY <1>1, BlockKeepsInv
<1>2. ASSUME NEW r \in Runs, FindLastBlockHeight(r)
      PROVE  DenomInv'
  BY <1>2, FindKeepsInv
<1>3. ASSUME NEW r \in Runs, QueryDenomTxList(r)
      PROVE  DenomInv'
  BY <1>3, QueryKeepsInv
<1>4. ASSUME NEW r \in Runs, InsertManyDenom(r)
      PROVE  DenomInv'
  BY <1>4, InsertKeepsInv DEF InsertManyDenom
<1>5. ASSUME NEW r \in Runs, InsertBreaks(r)
      PROVE  DenomInv'
  BY <1>5, InsertKeepsInv DEF InsertBreaks
<1>6. CASE UNCHANGED denomVars
  BY <1>6 DEF denomVars, DenomInv, DenomTypeOK, DocsAreOfTxs, RunIsComplete, FirstsAreKept,
     DenomCursor
<1>7. QED
  BY <1>1, <1>2, <1>3, <1>4, <1>5, <1>6 DEF DenomNext, DenomRunStep

LEMMA DenomInvMeans == DenomInv => NoDenomSkipped
<1>1. \A x \in IssueTxs : \A i \in issues[x] \ Unread(x) : i = firstId[x]
  BY DEF Unread
<1>2. QED
  BY <1>1 DEF DenomInv, FirstsAreKept, DocsAreOfTxs, NoDenomSkipped, AllIds

(* No denom at or below the cursor (DenomTaskService.doTask) is missing,   *)
(* however the runs overlap and wherever a batch is cut, but for those the *)
(* model names: cut off, broken off, or not in the first message of their  *)
(* transaction; of these nothing is ever stored.                           *)
THEOREM DenomsAreKept == DenomSpec => []NoDenomSkipped
<1>1. [DenomNext]_<<denomVars, faults>> => [DenomNext]_denomVars
  OBVIOUS
<1>2. QED
  BY <1>1, DenomInvMeans, DenomInitInv, DenomStepInv, PTL DEF DenomSpec

(***************************************************************************)
(* ValidatorsSync.                                                         *)
(***************************************************************************)
Lists == [Names -> Infos \cup {Gone}]
ValStates == [at : {"idle", "pages", "compare", "insert", "update"}, page : Nat \ {0},
              found : Lists, inserts : SUBSET Names, updates : SUBSET Names,
              deletes : SUBSET Names, shaky : SUBSET Names]

UpTo(L, v) == {u \in L : u <= v}
Place(L, v) == Cardinality(UpTo(L, v))
PageOf(L, k) == {v \in L : (k - 1) * PageSize < Place(L, v) /\ Place(L, v) <= k * PageSize}

(* Who is not shaky is still on the node, and the run has found it or will *)
(* find it on a page it has yet to read.                                   *)
RunKnows(R, list) ==
    /\ R.at = "idle" => R.page = 1
    /\ R.at = "pages" => \A v \in Names \ R.shaky :
           v \in Known(list) /\ (v \in Known(R.found) \/ (R.page - 1) * PageSize < Place(Known(list), v))
    /\ R.at = "compare" => Names \ R.shaky \subseteq Known(R.found)
    /\ R.at \in {"idle", "pages", "compare"} => R.deletes = {}
    /\ R.deletes \subseteq R.shaky

ValInv ==
    /\ node \in Lists /\ table \in Lists
    /\ valRun \in [Runs -> ValStates]
    /\ \A r \in Runs : RunKnows(valRun[r], node)

-----------------------------------------------------------------------------
LEMMA NamesAreFinite ==
    ASSUME NEW S \in SUBSET Names
    PROVE  IsFiniteSet(S) /\ Cardinality(S) \in Nat
<1>1. IsFiniteSet(S)
  BY ValidatorSettings, FS_Subset
<1>2. QED
  BY <1>1, FS_CardinalityType

LEMMA PlaceType ==
    ASSUME NEW L \in SUBSET Names, NEW v \in Names
    PROVE  /\ Place(L, v) \in Nat
           /\ v \in L => 1 <= Place(L, v) /\ Place(L, v) <= Cardinality(L)
<1>1. UpTo(L, v) \in SUBSET L /\ UpTo(L, v) \in SUBSET Names
  BY DEF UpTo
<1>2. /\ IsFiniteSet(L) /\ IsFiniteSet(UpTo(L, v))
      /\ Place(L, v) \in Nat /\ Cardinality(L) \in Nat
  BY <1>1, NamesAreFinite DEF Place
<1>3. Place(L, v) <= Cardinality(L)
  BY <1>1, <1>2, FS_Subset DEF Place
<1>4. v \in L => Place(L, v) # 0
  <2>1. v \in L => v \in UpTo(L, v)
    BY ValidatorSettings DEF UpTo
  <2>2. QED
    BY <1>2, <2>1, FS_EmptySet DEF Place
<1>5. QED
  BY <1>2, <1>3, <1>4

(* Nobody moves up in a list that grows. *)
LEMMA PlaceGrows ==
    ASSUME NEW L \in SUBSET Names, NEW M \in SUBSET Names, NEW v \in Names,
           UpTo(L, v) \subseteq UpTo(M, v)
    PROVE  Place(L, v) <= Place(M, v)
<1>1. UpTo(M, v) \in SUBSET Names
  BY DEF UpTo
<1>2. IsFiniteSet(UpTo(M, v))
  BY <1>1, NamesAreFinite
<1>3. QED
  BY <1>2, FS_Subset DEF Place

LEMMA PlacesDiffer ==
    ASSUME NEW L \in SUBSET Names, NEW u \in L, NEW v \in L, Place(L, u) = Place(L, v)
    PROVE  u = v
<1> SUFFICES ASSUME NEW x \in L, NEW y \in L, Place(L, x) = Place(L, y), x < y
             PROVE  FALSE
  BY ValidatorSettings
<1>1. UpTo(L, x) \in SUBSET UpTo(L, y) /\ UpTo(L, y) \in SUBSET Names
  <2>1. \A z \in L : z \in Nat
    BY ValidatorSettings
  <2>2. \A z \in L : z <= x => z <= y
    BY <2>1
  <2>3. QED
    BY <2>2 DEF UpTo
<1>2. IsFiniteSet(UpTo(L, y))
  BY <1>1, NamesAreFinite
<1>3. UpTo(L, x) = UpTo(L, y)
  BY <1>1, <1>2, FS_Subset DEF Place
<1>4. y \in UpTo(L, y) /\ y \notin UpTo(L, x)
  BY ValidatorSettings DEF UpTo
<1>5. QED
  BY <1>3, <1>4

(* The places are the numbers from one to the length of the list. *)
LEMMA EveryPlaceIsTaken ==
    ASSUME NEW L \in SUBSET Names, NEW n \in 1..Cardinality(L)
    PROVE  \E v \in L : Place(L, v) = n
<1> DEFINE T == 1..Cardinality(L)
           f == [v \in L |-> Place(L, v)]
<1>1. IsFiniteSet(L) /\ Cardinality(L) \in Nat
  BY NamesAreFinite
<1>2. IsFiniteSet(T) /\ Cardinality(T) = Cardinality(L)
  BY <1>1, FS_Interval
<1>3. f \in [L -> T]
  BY <1>1, PlaceType
<1>4. f \in Injection(L, T)
  BY <1>3, PlacesDiffer DEF Injection, IsInjective
<1>5. f \in Surjection(L, T)
  BY <1>1, <1>2, <1>4, FS_Injection
<1>6. QED
  BY <1>5 DEF Surjection

(* A page that others follow is full. *)
LEMMA PageIsFull ==
    ASSUME NEW L \in SUBSET Names, NEW k \in Nat \ {0}, NEW v \in L,
           k * PageSize < Place(L, v)
    PROVE  Cardinality(PageOf(L, k)) = PageSize
<1> DEFINE low == (k - 1) * PageSize
           high == k * PageSize
           T == low + 1..high
           P == PageOf(L, k)
           f == [u \in P |-> Place(L, u)]
<1>1. low \in Nat /\ high \in Nat /\ high = low + PageSize /\ PageSize \in Nat
  BY ValidatorSettings
<1>2. P \in SUBSET L /\ \A u \in P : low < Place(L, u) /\ Place(L, u) <= high
  BY DEF PageOf
<1>3. high < Cardinality(L) /\ Cardinality(L) \in Nat
  BY <1>1, PlaceType, NamesAreFinite
<1>4. \A u \in L : low < Place(L, u) /\ Place(L, u) <= high => u \in P
  BY DEF PageOf
<1> HIDE DEF low, high, P
<1>5. f \in [P -> T]
  BY <1>1, <1>2, PlaceType
<1>6. f \in Injection(P, T)
  BY <1>2, <1>5, PlacesDiffer DEF Injection, IsInjective
<1>7. \A n \in T : \E u \in P : f[u] = n
  <2>1. SUFFICES ASSUME NEW n \in T
                 PROVE  \E u \in P : f[u] = n
    OBVIOUS
  <2>2. n \in 1..Cardinality(L) /\ low < n /\ n <= high
    BY <1>1, <1>3
  <2>3. PICK u \in L : Place(L, u) = n
    BY <2>2, EveryPlaceIsTaken
  <2>4. u \in P
    BY <1>4, <2>2, <2>3
  <2>5. QED
    BY <2>3, <2>4
<1>8. f \in Surjection(P, T)
  BY <1>5, <1>7 DEF Surjection
<1>9. IsFiniteSet(T) /\ Cardinality(T) = PageSize
  BY <1>1, FS_Interval
<1>10. Cardinality(P) = Cardinality(T)
  BY <1>6, <1>8, <1>9, FS_Injection
<1>11. QED
  BY <1>9, <1>10 DEF P

-----------------------------------------------------------------------------
LEMMA KnownNames == \A list : Known(list) \in SUBSET Names
BY DEF Known

LEMMA ValInitInv == ValInit => ValInv
<1> SUFFICES ASSUME ValInit
             PROVE  ValInv
  OBVIOUS
<1>1. Nobody \in Lists
  BY DEF Nobody, Lists
<1>2. ValIdle \in ValStates
  BY <1>1 DEF ValIdle, ValStates
<1>3. ValIdle.at = "idle" /\ ValIdle.page = 1 /\ ValIdle.deletes = {}
  BY DEF ValIdle
<1>4. RunKnows(ValIdle, node)
  BY <1>3 DEF RunKnows
<1>5. QED
  BY <1>1, <1>2, <1>4 DEF ValInit, ValInv, Lists

(* A step of the run r. *)
LEMMA RunStepKeepsInv ==
    ASSUME ValInv, NEW r \in Runs, NEW R \in ValStates, RunKnows(R, node),
           valRun' = [valRun EXCEPT ![r] = R], node' = node, table' \in Lists
    PROVE  ValInv'
<1>1. valRun' \in [Runs -> ValStates]
  BY DEF ValInv
<1>2. \A s \in Runs : valRun'[s] = IF s = r THEN R ELSE valRun[s]
  BY DEF ValInv
<1>3. QED
  BY <1>1, <1>2 DEF ValInv

LEMMA EndOfRun == ValIdle \in ValStates /\ \A list : RunKnows(ValIdle, list)
<1>1. Nobody \in Lists
  BY DEF Nobody, Lists
<1>2. ValIdle.at = "idle" /\ ValIdle.page = 1 /\ ValIdle.deletes = {}
  BY DEF ValIdle
<1>3. QED
  BY <1>1, <1>2 DEF ValIdle, ValStates, RunKnows

(* The list of the node changes: who goes makes those behind it shaky.     *)
LEMMA MoveKeepsInv ==
    ASSUME ValInv, NEW v \in Names, NEW i \in Infos \cup {Gone}, NodeMoves(v, i)
    PROVE  ValInv'
<1>1. /\ node \in Lists /\ node' = [node EXCEPT ![v] = i] /\ node' \in Lists
      /\ table' = table /\ table \in Lists /\ valRun \in [Runs -> ValStates]
  BY DEF NodeMoves, ValInv, Lists
<1>2. \A u \in Names : node'[u] = IF u = v THEN i ELSE node[u]
  BY <1>1 DEF Lists
<1>3. ASSUME NEW r \in Runs
      PROVE  valRun'[r] \in ValStates /\ RunKnows(valRun'[r], node')
  <2> DEFINE R == valRun[r]
             behind == {z \in Names : z >= v}
  <2>1. R \in ValStates /\ RunKnows(R, node)
    BY <1>1 DEF ValInv
  <2>2. CASE ~(i = Gone /\ R.at = "pages")
    <3>1. valRun'[r] = R
      BY <2>2 DEF NodeMoves
    <3>2. ASSUME R.at = "pages", NEW u \in Names, u \in Known(node)
          PROVE  u \in Known(node') /\ Place(Known(node), u) <= Place(Known(node'), u)
      <4>1. i # Gone
        BY <2>2, <3>2
      <4>2. Known(node) \subseteq Known(node')
        BY <1>2, <4>1 DEF Known
      <4>3. UpTo(Known(node), u) \subseteq UpTo(Known(node'), u)
        BY <4>2 DEF UpTo
      <4>4. QED
        BY <3>2, <4>2, <4>3, KnownNames, PlaceGrows
    <3>3. R.at = "pages" => \A u \in Names \ R.shaky :
              u \in Known(node') /\
              (u \in Known(R.found) \/ (R.page - 1) * PageSize < Place(Known(node'), u))
      <4>1. SUFFICES ASSUME R.at = "pages", NEW u \in Names \ R.shaky
                     PROVE  u \in Known(node') /\
                            (u \in Known(R.found) \/ (R.page - 1) * PageSize < Place(Known(node'), u))
        OBVIOUS
      <4>2. /\ u \in Known(node)
            /\ u \in Known(R.found) \/ (R.page - 1) * PageSize < Place(Known(node), u)
        BY <2>1, <4>1 DEF RunKnows
      <4>3. u \in Known(node') /\ Place(Known(node), u) <= Place(Known(node'), u)
        BY <3>2, <4>1, <4>2
      <4>4. /\ (R.page - 1) * PageSize \in Int
            /\ Place(Known(node), u) \in Nat /\ Place(Known(node'), u) \in Nat
        <5>1. R.page \in Nat
          BY <2>1 DEF ValStates
        <5>2. (R.page - 1) * PageSize \in Int
          BY <5>1, ValidatorSettings
        <5>3. QED
          BY <5>2, <4>1, KnownNames, PlaceType
      <4>5. QED
        BY <4>2, <4>3, <4>4
    <3>4. QED
      BY <2>1, <3>1, <3>3 DEF RunKnows
  <2>3. CASE i = Gone /\ R.at = "pages"
    <3>1. valRun'[r] = [R EXCEPT !.shaky = @ \cup behind]
      BY <2>3 DEF NodeMoves
    <3>2. /\ valRun'[r] \in ValStates /\ valRun'[r].shaky = R.shaky \cup behind
          /\ valRun'[r].at = R.at /\ valRun'[r].page = R.page
          /\ valRun'[r].found = R.found /\ valRun'[r].deletes = R.deletes
      BY <2>1, <3>1 DEF ValStates
    <3>3. ASSUME NEW u \in Names \ (R.shaky \cup behind)
          PROVE  /\ u \in Known(node')
                 /\ u \in Known(R.found) \/ (R.page - 1) * PageSize < Place(Known(node'), u)
      <4>1. /\ u \in Known(node)
            /\ u \in Known(R.found) \/ (R.page - 1) * PageSize < Place(Known(node), u)
        BY <2>1, <2>3 DEF RunKnows
      <4>2. u \in Nat /\ v \in Nat /\ u < v
        BY <3>3, ValidatorSettings
      <4>3. u \in Known(node')
        BY <1>2, <4>1, <4>2 DEF Known
      <4>4. ASSUME NEW w \in Names, w <= u
            PROVE  w \in Known(node) <=> w \in Known(node')
        <5>1. w # v
          BY <4>2, <4>4, ValidatorSettings
        <5>2. QED
          BY <1>2, <5>1 DEF Known
      <4>5. UpTo(Known(node), u) = UpTo(Known(node'), u)
        BY <4>4, KnownNames DEF UpTo
      <4>6. QED
        BY <4>1, <4>3, <4>5 DEF Place
    <3>4. QED
      BY <2>1, <2>3, <3>2, <3>3 DEF RunKnows
  <2>4. QED
    BY <2>2, <2>3
<1>4. valRun' \in [Runs -> ValStates]
  <2>1. valRun' = [r \in Runs |-> valRun'[r]]
    BY DEF NodeMoves
  <2>2. QED
    BY <1>3, <2>1
<1>5. QED
  BY <1>1, <1>3, <1>4 DEF ValInv

(* A page is read: who is not shaky was on an earlier page, is on this one *)
(* or is behind it, and then this one is full.                             *)
LEMMA ReadPageKeepsInv ==
    ASSUME ValInv, NEW r \in Runs, ReadPage(r)
    PROVE  ValInv'
<1> DEFINE R == valRun[r]
           k == R.page
           L == Known(node)
           more == More(k, Page(k))
           found == [v \in Names |-> IF v \in Page(k) THEN node[v] ELSE R.found[v]]
           Q == [R EXCEPT !.found = found, !.page = k + 1,
                          !.at = IF more THEN "pages" ELSE "compare"]
<1>1. /\ R \in ValStates /\ RunKnows(R, node) /\ R.at = "pages"
      /\ node \in Lists /\ k \in Nat \ {0} /\ R.found \in Lists
  BY DEF ValInv, ReadPage, ValStates
<1>2. Page(k) = PageOf(L, k)
  BY DEF Page, PageOf, Place, UpTo
<1>3. found \in Lists
  BY <1>1 DEF Lists
<1>4. /\ Q \in ValStates /\ Q.found = found /\ Q.page = k + 1
      /\ Q.at = (IF more THEN "pages" ELSE "compare")
      /\ Q.shaky = R.shaky /\ Q.deletes = R.deletes
  <2>1. k + 1 \in Nat \ {0} /\ (IF more THEN "pages" ELSE "compare") \in {"pages", "compare"}
    BY <1>1
  <2> HIDE DEF found, more
  <2>2. QED
    BY <1>1, <1>3, <2>1 DEF ValStates
<1>5. valRun' = [valRun EXCEPT ![r] = Q] /\ node' = node /\ table' = table
  BY <1>1 DEF ReadPage, ValInv
<1>6. \A v \in Page(k) : v \in Known(found)
  BY <1>1 DEF Page, Known
<1>7. \A v \in Known(R.found) : v \in Known(found)
  BY <1>6 DEF Known
<1>8. \A v \in Names \ R.shaky :
          v \in L /\ (v \in Known(R.found) \/ (k - 1) * PageSize < Place(L, v))
  BY <1>1 DEF RunKnows
<1>9. ASSUME NEW v \in Names \ R.shaky
      PROVE  v \in Known(found) \/ (k * PageSize < Place(L, v) /\ more)
  <2>1. CASE v \in Known(R.found)
    BY <1>7, <2>1
  <2>2. CASE (k - 1) * PageSize < Place(L, v) /\ Place(L, v) <= k * PageSize
    <3>1. v \in Page(k)
      BY <1>2, <1>8, <2>2 DEF PageOf
    <3>2. QED
      BY <1>6, <3>1
  <2>3. CASE ~(Place(L, v) <= k * PageSize)
    <3>1. k * PageSize \in Nat /\ Place(L, v) \in Nat
      BY <1>1, ValidatorSettings, KnownNames, PlaceType
    <3>2. k * PageSize < Place(L, v)
      BY <2>3, <3>1
    <3>3. Cardinality(PageOf(L, k)) = PageSize
      BY <1>1, <1>8, <3>2, KnownNames, PageIsFull
    <3>4. QED
      BY <1>2, <3>2, <3>3 DEF More
  <2>4. QED
    BY <1>8, <2>1, <2>2, <2>3
<1>10. RunKnows(Q, node)
  <2>1. (Q.page - 1) * PageSize = k * PageSize
    BY <1>1, <1>4
  <2>2. R.deletes = {}
    BY <1>1 DEF RunKnows
  <2>3. CASE more
    <3>1. Q.at = "pages"
      BY <1>4, <2>3
    <3>2. \A v \in Names \ Q.shaky :
              v \in Known(node) /\ (v \in Known(Q.found) \/ (Q.page - 1) * PageSize < Place(Known(node), v))
      BY <1>4, <1>8, <1>9, <2>1
    <3> HIDE DEF Q, L, found, more
    <3>3. QED
      BY <1>4, <2>2, <3>1, <3>2 DEF RunKnows
  <2>4. CASE ~more
    <3>1. Q.at = "compare"
      BY <1>4, <2>4
    <3>2. Names \ Q.shaky \subseteq Known(Q.found)
      BY <1>4, <1>9, <2>4
    <3> HIDE DEF Q, L, found, more
    <3>3. QED
      BY <1>4, <2>2, <3>1, <3>2 DEF RunKnows
  <2>5. QED
    BY <2>3, <2>4
<1>11. table \in Lists
  BY DEF ValInv
<1> HIDE DEF Q
<1>12. QED
  BY <1>4, <1>5, <1>10, <1>11, RunStepKeepsInv

LEMMA BeginKeepsInv ==
    ASSUME ValInv, NEW r \in Runs, BeginPages(r)
    PROVE  ValInv'
<1> DEFINE R == valRun[r]
           Q == [R EXCEPT !.at = "pages", !.shaky = Names \ Known(node)]
<1>1. R \in ValStates /\ R.page = 1 /\ R.deletes = {}
  BY DEF ValInv, BeginPages, RunKnows
<1>2. /\ Q \in ValStates /\ Q.at = "pages" /\ Q.page = 1 /\ Q.deletes = {}
      /\ Q.shaky = Names \ Known(node)
  BY <1>1 DEF ValStates
<1>3. valRun' = [valRun EXCEPT ![r] = Q] /\ node' = node /\ table' = table
  BY DEF BeginPages, ValInv
<1> HIDE DEF Q
<1>4. ASSUME NEW v \in Names \ Q.shaky
      PROVE  v \in Known(node) /\ (Q.page - 1) * PageSize < Place(Known(node), v)
  <2>1. v \in Known(node)
    BY <1>2, <1>4
  <2>2. Place(Known(node), v) \in Nat /\ 1 <= Place(Known(node), v)
    BY <2>1, KnownNames, PlaceType
  <2>3. (Q.page - 1) * PageSize = 0
    BY <1>2, ValidatorSettings
  <2>4. QED
    BY <2>1, <2>2, <2>3
<1>5. RunKnows(Q, node)
  BY <1>2, <1>4 DEF RunKnows
<1>6. QED
  BY <1>2, <1>3, <1>5, RunStepKeepsInv DEF ValInv

(* The deletions are of those the run has not found. *)
LEMMA CompareKeepsInv ==
    ASSUME ValInv, NEW r \in Runs, Compare(r)
    PROVE  ValInv'
<1> DEFINE R == valRun[r]
           found == R.found
           Q == [R EXCEPT !.at = "insert", !.inserts = ShouldInsert(found),
                          !.updates = ShouldUpdate(found), !.deletes = ShouldDelete(found)]
<1>1. R \in ValStates /\ Names \ R.shaky \subseteq Known(found)
  BY DEF ValInv, Compare, RunKnows
<1>2. /\ ShouldInsert(found) \in SUBSET Names /\ ShouldUpdate(found) \in SUBSET Names
      /\ ShouldDelete(found) \in SUBSET Names
  BY KnownNames DEF ShouldInsert, ShouldUpdate, ShouldDelete
<1>3. Q \in ValStates /\ Q.at = "insert" /\ Q.deletes = ShouldDelete(found) /\ Q.shaky = R.shaky
  BY <1>1, <1>2 DEF ValStates
<1>4. valRun' = [valRun EXCEPT ![r] = Q] /\ node' = node /\ table' = table
  BY DEF Compare, ValInv
<1>5. ShouldDelete(found) \subseteq R.shaky
  BY <1>1, <1>2 DEF ShouldDelete
<1> HIDE DEF Q
<1>6. RunKnows(Q, node)
  BY <1>3, <1>5 DEF RunKnows
<1>7. QED
  BY <1>3, <1>4, <1>6, RunStepKeepsInv DEF ValInv

LEMMA SaveKeepsInv ==
    ASSUME ValInv, NEW r \in Runs, SaveValidators(r)
    PROVE  ValInv'
<1> DEFINE R == valRun[r]
           Q == [R EXCEPT !.at = "update"]
<1>1. R \in ValStates /\ RunKnows(R, node) /\ R.at = "insert"
  BY DEF ValInv, SaveValidators
<1>2. Q \in ValStates /\ Q.at = "update" /\ Q.deletes = R.deletes /\ Q.shaky = R.shaky
  BY <1>1 DEF ValStates
<1>3. RunKnows(Q, node)
  BY <1>1, <1>2 DEF RunKnows
<1>4. table' \in Lists
  BY <1>1 DEF SaveValidators, ValInv, Lists, ValStates
<1>5. node' = node /\ \/ valRun' = [valRun EXCEPT ![r] = Q]
                      \/ valRun' = [valRun EXCEPT ![r] = ValIdle]
  BY DEF SaveValidators, ValInv
<1> HIDE DEF Q
<1>6. QED
  BY <1>2, <1>3, <1>4, <1>5, EndOfRun, RunStepKeepsInv

LEMMA UpdateKeepsInv ==
    ASSUME ValInv, NEW r \in Runs, NEW v \in Names, UpdateValidator(r, v)
    PROVE  ValInv'
<1> DEFINE R == valRun[r]
           Q == [R EXCEPT !.updates = @ \ {v}]
<1>1. R \in ValStates /\ RunKnows(R, node) /\ R.at = "update"
  BY DEF ValInv, UpdateValidator
<1>2. Q \in ValStates /\ Q.at = "update" /\ Q.deletes = R.deletes /\ Q.shaky = R.shaky
  BY <1>1 DEF ValStates
<1>3. RunKnows(Q, node)
  BY <1>1, <1>2 DEF RunKnows
<1>4. table' \in Lists
  BY <1>1 DEF UpdateValidator, ValInv, Lists, ValStates
<1>5. valRun' = [valRun EXCEPT ![r] = Q] /\ node' = node
  BY DEF UpdateValidator, ValInv
<1> HIDE DEF Q
<1>6. QED
  BY <1>2, <1>3, <1>4, <1>5, RunStepKeepsInv

LEMMA ValStepInv == ValInv /\ [ValNext]_valVars => ValInv'
<1> SUFFICES ASSUME ValInv, [ValNext]_valVars
             PROVE  ValInv'
  OBVIOUS
<1>1. ASSUME NEW v \in Names, NEW i \in Infos \cup {Gone}, NodeMoves(v, i)
      PROVE  ValInv'
  BY <1>1, MoveKeepsInv
<1>2. ASSUME NEW r \in Runs, ValRunStep(r)
      PROVE  ValInv'
  <2>1. CASE DeleteValidators(r)
    BY <2>1, EndOfRun, RunStepKeepsInv DEF DeleteValidators, ValInv
  <2>2. QED
    BY <1>2, <2>1, BeginKeepsInv, ReadPageKeepsInv, CompareKeepsInv, SaveKeepsInv,
       UpdateKeepsInv DEF ValRunStep
<1>3. ASSUME NEW r \in Runs, PageFails(r) \/ ValRunFails(r)
      PROVE  ValInv'
  BY <1>3, EndOfRun, RunStepKeepsInv DEF PageFails, ValRunFails, ValInv
<1>4. ASSUME NEW v \in Names, DeleteLands(v) \/ DeleteLost(v)
      PROVE  ValInv'
  <2>1. table' \in Lists
    BY <1>4 DEF DeleteLands, DeleteLost, ValInv, Lists
  <2>2. node' = node /\ valRun' = valRun
    BY <1>4 DEF DeleteLands, DeleteLost
  <2>3. QED
    BY <2>1, <2>2 DEF ValInv
<1>5. CASE UNCHANGED valVars
  BY <1>5 DEF valVars, ValInv
<1>6. QED
  BY <1>1, <1>2, <1>3, <1>4, <1>5 DEF ValNext

(* A run gives up only validators that were away at some moment of its     *)
(* reading or came after one that went, however long the node's list is    *)
(* and however it changes between two pages.                               *)
THEOREM NobodyIsGivenUp == ValSpec => []NobodyIsDropped
<1>1. ValInv => NobodyIsDropped
  BY DEF ValInv, RunKnows, NobodyIsDropped
<1>2. [ValNext]_<<valVars, faults>> => [ValNext]_valVars
  OBVIOUS
<1>3. QED
  BY <1>1, <1>2, ValInitInv, ValStepInv, PTL DEF ValSpec

(***************************************************************************)
(* IdentitySync.                                                           *)
(***************************************************************************)
(* Heights grow along the chain, and an identity is created before it is   *)
(* used.                                                                   *)
ChainIsSane ==
    /\ \A j \in 1..Len(txs) : txs[j].height > 0
    /\ \A j \in 1..Len(txs) : \A k \in 1..j : txs[k].height <= txs[j].height
    /\ \A j \in 1..Len(txs) : \E k \in 1..j : txs[k].id = txs[j].id /\ txs[k].op = "create"

(* Height h is one of the chain, and whoever was created below it is       *)
(* covered: it may become the cursor.                                      *)
SafeBelow(h) ==
    /\ h <= Top
    /\ \A k \in 1..Len(txs) :
           txs[k].op = "create" /\ txs[k].height < h => Covered(txs[k].id)

(* An identity is there, or it was lost. *)
Settled(i) == identities[i] # NoDoc \/ i \in lost

(* Wherever the cursor can come from is safe: the documents, the batch and *)
(* the writes on their way.                                                *)
HeightsAreSafe ==
    /\ \A i \in Identities : SafeBelow(identities[i].height)
    /\ stage = "querying" => SafeBelow(from)
    /\ \A j \in 1..Len(batch) :
           batch[j].height > 0 /\ SafeBelow(batch[j].height) /\ Covered(batch[j].id)
    /\ \A w \in sent : SafeBelow(w.height) /\ Settled(w.id)

IdentityInv ==
    /\ TypeOK
    /\ ChainIsSane
    /\ \A i \in Identities : identities[i] # NoDoc => identities[i].made # 0
    /\ todo \subseteq ToSet(batch)
    /\ stage # "inserting" => todo = {}
    /\ HeightsAreSafe
    /\ KeysFollowIdentity

-----------------------------------------------------------------------------
LEMMA TopIs ==
    ASSUME TypeOK, ChainIsSane
    PROVE  /\ Top \in Nat
           /\ \A j \in 1..Len(txs) : txs[j].height <= Top
<1>1. txs \in Seq(Tx) /\ Len(txs) \in Nat
  BY LenProperties DEF TypeOK
<1>2. CASE txs = <<>>
  BY <1>1, <1>2, EmptySeq DEF Top
<1>3. CASE txs # <<>>
  <2>1. Len(txs) \in 1..Len(txs)
    BY <1>1, <1>3, EmptySeq
  <2>2. txs[Len(txs)] \in Tx
    BY <1>1, <2>1, ElementOfSeq
  <2>3. QED
    BY <1>1, <1>3, <2>1, <2>2 DEF Top, Last, Tx, ChainIsSane
<1>4. QED
  BY <1>2, <1>3

(* The documents' heights are those of the chain, and the cursor is one.   *)
LEMMA CursorIs ==
    ASSUME IdentityInv
    PROVE  /\ Cursor \in Nat
           /\ SafeBelow(Cursor)
<1> DEFINE S == {0} \cup {identities[i].height : i \in Identities}
<1>1. Top \in Nat
  BY TopIs DEF IdentityInv
<1>2. SafeBelow(0)
  <2>1. \A k \in 1..Len(txs) : ~(txs[k].height < 0)
    <3>1. \A k \in 1..Len(txs) : txs[k] \in Tx
      BY ElementOfSeq DEF IdentityInv, TypeOK
    <3>2. QED
      BY <3>1 DEF Tx
  <2>2. QED
    BY <1>1, <2>1 DEF SafeBelow
<1>3. \A i \in Identities : identities[i].height \in Nat /\ SafeBelow(identities[i].height)
  BY DEF IdentityInv, TypeOK, Doc, HeightsAreSafe
<1>4. S \in SUBSET (0..Top) /\ S # {}
  BY <1>1, <1>3 DEF SafeBelow
<1>5. Max(S) \in S
  BY <1>1, <1>4, MaxIsGreatest
<1>6. QED
  BY <1>2, <1>3, <1>5 DEF Cursor

(* What Below counts: the transactions up to there are below h, those      *)
(* after it are not.                                                       *)
LEMMA BelowIs ==
    ASSUME TypeOK, ChainIsSane, NEW h \in Nat
    PROVE  /\ Below(h) \in 0..Len(txs)
           /\ \A j \in 1..Len(txs) : txs[j].height < h <=> j <= Below(h)
<1> DEFINE S == {0} \cup {j \in 1..Len(txs) : txs[j].height < h}
<1>1. Len(txs) \in Nat
  BY LenProperties DEF TypeOK
<1>2. S \in SUBSET (0..Len(txs)) /\ S # {}
  BY <1>1
<1>3. Max(S) \in S /\ \A y \in S : y <= Max(S)
  BY <1>1, <1>2, MaxIsGreatest
<1>4. Below(h) = Max(S)
  BY DEF Below
<1>5. ASSUME NEW j \in 1..Len(txs), j <= Below(h)
      PROVE  txs[j].height < h
  <2>1. Below(h) \in 1..Len(txs) /\ txs[Below(h)].height < h
    BY <1>1, <1>3, <1>4, <1>5
  <2>2. txs[j].height <= txs[Below(h)].height
    BY <1>1, <1>5, <2>1 DEF ChainIsSane
  <2>3. txs[j] \in Tx /\ txs[Below(h)] \in Tx
    BY <2>1, ElementOfSeq DEF TypeOK
  <2>4. QED
    BY <2>1, <2>2, <2>3 DEF Tx
<1>6. QED
  BY <1>2, <1>3, <1>4, <1>5

(* A batch is a stretch of the chain that starts at height h.              *)
LEMMA TxListIs ==
    ASSUME TypeOK, ChainIsSane, NEW h \in Nat
    PROVE  /\ TxList(h) \in Seq(Tx)
           /\ \A j \in 1..Len(TxList(h)) :
                  /\ Below(h) + j \in 1..Len(txs)
                  /\ TxList(h)[j] = txs[Below(h) + j]
<1> DEFINE m == Below(h) + 1
           n == Min({Len(txs), m + IdentityLimitSize - 1})
<1>1. Len(txs) \in Nat /\ m \in 1..(Len(txs) + 1) /\ IdentityLimitSize \in Nat \ {0}
  <2>1. Len(txs) \in Nat
    BY LenProperties DEF TypeOK
  <2>2. Below(h) \in 0..Len(txs)
    BY BelowIs
  <2>3. QED
    BY <2>1, <2>2, IdentitySettings
<1>2. n \in {Len(txs), m + IdentityLimitSize - 1}
      /\ \A y \in {Len(txs), m + IdentityLimitSize - 1} : n <= y
  <2>1. {Len(txs), m + IdentityLimitSize - 1} \in SUBSET Nat
    BY <1>1
  <2>2. QED
    BY <2>1, MinIsLeast
<1>3. n \in Nat /\ n <= Len(txs)
  BY <1>1, <1>2
<1>4. TxList(h) = SubSeq(txs, m, n)
  BY DEF TxList, TxsFrom
<1>5. Below(h) \in Nat
  BY <1>1, BelowIs
<1>6. m = Below(h) + 1
  OBVIOUS
<1> HIDE DEF m, n
<1>7. \A k \in m..n : txs[k] \in Tx
  <2>1. \A k \in m..n : k \in 1..Len(txs)
    BY <1>1, <1>3
  <2>2. QED
    BY <2>1, ElementOfSeq DEF TypeOK
<1>8. m \in Int /\ n \in Int
  BY <1>1, <1>3
<1>9. /\ SubSeq(txs, m, n) \in Seq(Tx)
      /\ Len(SubSeq(txs, m, n)) = IF m <= n THEN n - m + 1 ELSE 0
      /\ \A i \in 1..n - m + 1 : SubSeq(txs, m, n)[i] = txs[m + i - 1]
  BY <1>7, <1>8, SubSeqProperties
<1>10. ASSUME NEW j \in 1..Len(TxList(h))
       PROVE  Below(h) + j \in 1..Len(txs) /\ TxList(h)[j] = txs[Below(h) + j]
  <2>1. j \in 1..(n - m + 1)
    BY <1>1, <1>3, <1>4, <1>9, <1>10
  <2>2. m + j - 1 = Below(h) + j /\ Below(h) + j \in 1..Len(txs)
    BY <1>1, <1>3, <1>5, <1>6, <2>1
  <2>3. QED
    BY <1>4, <1>9, <2>1, <2>2
<1>11. QED
  BY <1>4, <1>9, <1>10

-----------------------------------------------------------------------------
(* Whoever is covered stays covered, on a chain that stands still: what    *)
(* was safe to become the cursor is safe.                                  *)
LEMMA StaysSafe ==
    ASSUME txs' = txs,
           \A i : Covered(i) => Covered(i)'
    PROVE  \A h : SafeBelow(h) => SafeBelow(h)'
BY DEF SafeBelow, Top

LEMMA IdentityInitInv == Init => IdentityInv
<1> SUFFICES ASSUME Init
             PROVE  IdentityInv
  OBVIOUS
<1>1. TypeOK
  <2>1. txs \in Seq(Tx) /\ batch \in Seq(Tx)
    BY EmptySeq DEF Init
  <2>2. 0 \in 0..MaxFailures
    BY IdentitySettings
  <2>3. identities \in [Identities -> Doc]
    BY DEF Init, Doc, NoDoc
  <2>4. keyTable \in [Identities \X Keys -> Nat]
    BY DEF Init
  <2>5. QED
    BY <2>1, <2>2, <2>3, <2>4 DEF Init, TypeOK
<1>2. Len(txs) = 0 /\ Len(batch) = 0 /\ Top = 0
  BY EmptySeq DEF Init, Top
<1>3. \A h : h = 0 => SafeBelow(h)
  BY <1>2 DEF SafeBelow
<1>4. HeightsAreSafe
  <2>1. \A i \in Identities : identities[i].height = 0
    BY DEF Init, NoDoc
  <2>2. QED
    BY <1>2, <1>3, <2>1 DEF Init, HeightsAreSafe
<1>5. ChainIsSane
  BY <1>2 DEF ChainIsSane
<1>6. KeysFollowIdentity /\ \A i \in Identities : identities[i] = NoDoc
  BY DEF Init, KeysFollowIdentity
<1>7. QED
  BY <1>1, <1>4, <1>5, <1>6 DEF Init, IdentityInv

(* A new transaction is not below any height of the chain before it.       *)
LEMMA NewTxKeepsInv ==
    ASSUME IdentityInv, NewTx
    PROVE  IdentityInv'
<1>1. PICK i \in Identities, sets \in BOOLEAN, ks \in SUBSET Keys, gap \in 0..MaxGap :
          /\ Len(txs) < MaxTxs
          /\ Top + gap > 0
          /\ txs' = Append(txs,
                     [id |-> i, op |-> IF Created(i) THEN "update" ELSE "create",
                      cred |-> IF sets THEN Len(txs) + 1 ELSE 0,
                      keys |-> ks, height |-> Top + gap])
  BY DEF NewTx
<1>2. UNCHANGED <<identities, keyTable, stage, from, batch, todo, clash, sent, lost, failures>>
  BY DEF NewTx, runVars
<1> DEFINE t == [id |-> i, op |-> IF Created(i) THEN "update" ELSE "create",
                 cred |-> IF sets THEN Len(txs) + 1 ELSE 0,
                 keys |-> ks, height |-> Top + gap]
           n == Len(txs)
<1>3. /\ TypeOK /\ ChainIsSane
      /\ txs \in Seq(Tx) /\ n \in Nat
  BY LenProperties DEF IdentityInv, TypeOK
<1>4. Top \in Nat /\ \A j \in 1..n : txs[j].height <= Top
  BY <1>3, TopIs
<1>5. gap \in Nat
  BY IdentitySettings
<1>6. /\ t \in Tx /\ t.height = Top + gap /\ t.id = i
      /\ t.op = "create" <=> ~Created(i)
  <2>1. Top + gap \in Nat /\ (IF sets THEN n + 1 ELSE 0) \in Nat
    BY <1>3, <1>4, <1>5
  <2>2. QED
    BY <2>1 DEF Tx
<1> HIDE DEF t
<1>7. /\ txs' = Append(txs, t) /\ txs' \in Seq(Tx) /\ txs' # <<>>
      /\ Len(txs') = n + 1 /\ txs'[n + 1] = t
      /\ \A j \in 1..n : txs'[j] = txs[j]
  BY <1>1, <1>3, <1>6, AppendProperties DEF t
<1>8. Top' = Top + gap
  BY <1>3, <1>6, <1>7 DEF Top, Last
<1>9. \A j \in 1..n : txs[j] \in Tx
  BY <1>3, ElementOfSeq
<1> HIDE DEF n
<1>10. ChainIsSane'
  <2>1. ASSUME NEW j \in 1..(n + 1)
        PROVE  /\ txs'[j].height > 0
               /\ \A k \in 1..j : txs'[k].height <= txs'[j].height
               /\ \E k \in 1..j : txs'[k].id = txs'[j].id /\ txs'[k].op = "create"
    <3>1. CASE j \in 1..n
      <4>1. \A k \in 1..j : k \in 1..n
        BY <1>3, <3>1
      <4>2. QED
        BY <1>7, <3>1, <4>1, <1>3 DEF ChainIsSane, n
    <3>2. CASE j = n + 1
      <4>1. \A k \in 1..j : k \in 1..n \/ k = n + 1
        BY <1>3, <3>2
      <4>2. \A k \in 1..n : k \in 1..j
        BY <1>3, <3>2
      <4>3. \A k \in 1..n : txs[k].height \in Nat /\ txs[k].height <= Top + gap
        BY <1>4, <1>5, <1>9 DEF Tx
      <4>4. t.height > 0 /\ \A k \in 1..j : txs'[k].height <= t.height
        BY <1>1, <1>4, <1>5, <1>6, <1>7, <4>1, <4>3
      <4>5. CASE Created(i)
        <5>1. PICK m \in 1..n : txs[m].id = i
          BY <4>5 DEF Created, Of, n
        <5>2. PICK k \in 1..m : txs[k].id = i /\ txs[k].op = "create"
          BY <1>3, <5>1 DEF ChainIsSane, n
        <5>3. k \in 1..n /\ k \in 1..j
          BY <1>3, <4>2, <5>1, <5>2
        <5>4. QED
          BY <1>6, <1>7, <3>2, <4>4, <5>2, <5>3
      <4>6. CASE ~Created(i)
        BY <1>3, <1>6, <1>7, <3>2, <4>4, <4>6
      <4>7. QED
        BY <4>5, <4>6
    <3>3. QED
      BY <1>3, <3>1, <3>2
  <2>2. QED
    BY <1>7, <2>1 DEF ChainIsSane
<1>11. \A a : Covered(a)' <=> Covered(a)
  BY <1>2 DEF Covered
<1>12. ASSUME NEW h \in Nat, SafeBelow(h)
       PROVE  SafeBelow(h)'
  <2>1. h <= Top /\ h <= Top'
    BY <1>4, <1>5, <1>8, <1>12 DEF SafeBelow
  <2>2. ASSUME NEW k \in 1..(n + 1), txs'[k].op = "create", txs'[k].height < h
        PROVE  Covered(txs[k].id)'
    <3>1. k # n + 1
      BY <1>4, <1>5, <1>6, <1>7, <2>1, <2>2
    <3>2. k \in 1..n
      BY <1>3, <3>1
    <3>3. Covered(txs[k].id)
      BY <1>7, <1>12, <2>2, <3>2 DEF SafeBelow, n
    <3>4. QED
      BY <1>2, <1>7, <3>2, <3>3 DEF Covered
  <2>3. \A k \in 1..Len(txs') : k \in 1..(n + 1)
    BY <1>7
  <2>4. QED
    BY <2>1, <2>2, <2>3 DEF SafeBelow
<1>13. HeightsAreSafe'
  <2>1. \A a \in Identities : identities[a].height \in Nat
    BY <1>3 DEF TypeOK, Doc
  <2>2. from \in Nat /\ \A w \in sent : w.height \in Nat
    BY <1>3 DEF TypeOK, Update, KeyWrite
  <2>3. \A j \in 1..Len(batch) : batch[j].height \in Nat
    <3>1. \A j \in 1..Len(batch) : batch[j] \in Tx
      BY <1>3, ElementOfSeq DEF TypeOK
    <3>2. QED
      BY <3>1 DEF Tx
  <2>4. \A a : Settled(a)' <=> Settled(a)
    BY <1>2 DEF Settled
  <2>5. HeightsAreSafe
    BY DEF IdentityInv
  <2>6. QED
    BY <1>2, <1>11, <1>12, <2>1, <2>2, <2>3, <2>4, <2>5 DEF HeightsAreSafe
<1>14. TypeOK'
  BY <1>2, <1>3, <1>7 DEF TypeOK
<1>15. KeysFollowIdentity'
  BY <1>2 DEF IdentityInv, KeysFollowIdentity
<1>16. QED
  BY <1>2, <1>10, <1>13, <1>14, <1>15 DEF IdentityInv

(* A run starts at the cursor. *)
LEMMA StartKeepsInv ==
    ASSUME IdentityInv, Start
    PROVE  IdentityInv'
<1>1. UNCHANGED <<txs, identities, keyTable, batch, todo, clash, sent, lost, failures>>
  BY DEF Start
<1>2. stage' = "querying" /\ from' = Cursor /\ stage = "idle"
  BY DEF Start
<1>3. Cursor \in Nat /\ SafeBelow(Cursor)
  BY CursorIs
<1>4. \A h : SafeBelow(h) => SafeBelow(h)'
  BY <1>1 DEF SafeBelow, Covered, Top
<1>5. \A a : Covered(a) => Covered(a)'
  BY <1>1 DEF Covered
<1>6. HeightsAreSafe'
  BY <1>1, <1>2, <1>3, <1>4, <1>5 DEF IdentityInv, HeightsAreSafe, Settled
<1>7. TypeOK'
  BY <1>1, <1>2, <1>3 DEF IdentityInv, TypeOK
<1>8. ChainIsSane' /\ KeysFollowIdentity'
  BY <1>1 DEF IdentityInv, ChainIsSane, KeysFollowIdentity
<1>9. QED
  BY <1>1, <1>2, <1>6, <1>7, <1>8 DEF IdentityInv

(* The batch starts at a safe height, so whoever is created below one of   *)
(* its transactions is covered or about to be inserted.                    *)
LEMMA QueryTxsKeepsInv ==
    ASSUME IdentityInv, Query
    PROVE  IdentityInv'
<1>1. UNCHANGED <<txs, identities, keyTable, clash, sent, lost, failures>>
  BY DEF Query
<1>2. /\ stage = "querying" /\ stage' = "inserting" /\ from' = 0
      /\ batch' = TxList(from)
      /\ todo' = {t \in ToSet(batch') : t.op = "create"}
  BY DEF Query
<1>a. PICK low, n : low = Below(from) /\ n = Len(TxList(from))
  OBVIOUS
<1>3. TypeOK /\ ChainIsSane /\ from \in Nat /\ SafeBelow(from) /\ todo = {}
  BY <1>2 DEF IdentityInv, TypeOK, HeightsAreSafe
<1>4. /\ low \in 0..Len(txs)
      /\ \A j \in 1..Len(txs) : txs[j].height < from <=> j <= low
  BY <1>a, <1>3, BelowIs
<1>5. /\ batch' \in Seq(Tx) /\ Len(batch') = n /\ n \in Nat /\ Len(txs) \in Nat
      /\ \A j \in 1..n : low + j \in 1..Len(txs) /\ batch'[j] = txs[low + j]
  BY <1>a, <1>2, <1>3, TxListIs, LenProperties DEF TypeOK
<1>6. todo' \subseteq ToSet(batch') /\ ToSet(batch') \subseteq Tx
  <2>1. \A j \in DOMAIN batch' : batch'[j] \in Tx
    BY <1>5, LenProperties, ElementOfSeq
  <2>2. QED
    BY <1>2, <2>1 DEF ToSet
<1>7. \A a : Covered(a) => Covered(a)'
  BY <1>1, <1>3 DEF Covered
<1>8. \A h : SafeBelow(h) => SafeBelow(h)'
  BY <1>1, <1>7, StaysSafe
<1>9. \A j \in 1..Len(txs) : txs[j] \in Tx
  BY <1>3, ElementOfSeq DEF TypeOK
<1>10. ASSUME NEW k \in 1..Len(txs), NEW j \in 1..n, k <= low + j, txs[k].op = "create"
       PROVE  Covered(txs[k].id)'
  <2>1. CASE k <= low
    <3>1. txs[k].height < from
      BY <1>4, <2>1
    <3>2. Covered(txs[k].id)
      BY <1>3, <1>10, <3>1 DEF SafeBelow
    <3>3. QED
      BY <1>1, <1>3, <3>2 DEF Covered
  <2>2. CASE k > low
    <3>1. k - low \in 1..n /\ low + (k - low) = k
      BY <1>4, <1>5, <1>10, <2>2
    <3>2. batch'[k - low] = txs[k]
      BY <1>5, <3>1
    <3>3. k - low \in DOMAIN batch'
      BY <1>5, <3>1, LenProperties
    <3>4. txs[k] \in todo'
      BY <1>2, <1>10, <3>2, <3>3 DEF ToSet
    <3>5. QED
      BY <1>1, <3>4 DEF Covered
  <2>3. QED
    BY <1>4, <2>1, <2>2
<1>11. ASSUME NEW j \in 1..n
       PROVE  SafeBelow(txs[low + j].height)' /\ Covered(txs[low + j].id)'
  <2>1. low + j \in 1..Len(txs) /\ low \in Nat
    BY <1>4, <1>5
  <2>2. txs[low + j].height <= Top
    BY <1>3, <2>1, TopIs
  <2>3. ASSUME NEW k \in 1..Len(txs), txs[k].op = "create", txs[k].height < txs[low + j].height
        PROVE  Covered(txs[k].id)'
    <3>1. k <= low + j
      <4>1. SUFFICES ASSUME low + j < k
                     PROVE  FALSE
        BY <2>1
      <4>2. txs[low + j].height <= txs[k].height
        BY <1>3, <2>1, <4>1 DEF ChainIsSane
      <4>3. QED
        BY <1>9, <2>1, <2>3, <4>2 DEF Tx
    <3>2. QED
      BY <1>10, <2>3, <3>1
  <2>4. SafeBelow(txs[low + j].height)'
    BY <1>1, <2>2, <2>3 DEF SafeBelow, Top
  <2>5. PICK k \in 1..(low + j) : txs[k].id = txs[low + j].id /\ txs[k].op = "create"
    BY <1>3, <2>1 DEF ChainIsSane
  <2>6. k \in 1..Len(txs) /\ k <= low + j
    BY <2>1, <1>5
  <2>7. Covered(txs[k].id)'
    BY <1>10, <2>5, <2>6
  <2>8. QED
    BY <1>1, <2>4, <2>5, <2>7 DEF Covered
<1>12. HeightsAreSafe'
  <2>1. ASSUME NEW j \in 1..n
        PROVE  (batch[j].height > 0 /\ SafeBelow(batch[j].height) /\ Covered(batch[j].id))'
    <3>1. (txs[low + j].height > 0 /\ SafeBelow(txs[low + j].height) /\ Covered(txs[low + j].id))'
      BY <1>1, <1>3, <1>5, <1>11 DEF ChainIsSane
    <3>2. batch'[j] = txs'[low + j]
      BY <1>1, <1>5
    <3>3. QED
      BY <3>1, <3>2 DEF SafeBelow, Covered
  <2>2. QED
    BY <1>1, <1>2, <1>5, <1>8, <2>1 DEF IdentityInv, HeightsAreSafe, Settled
<1>13. TypeOK'
  BY <1>1, <1>2, <1>5, <1>6 DEF IdentityInv, TypeOK
<1>14. ChainIsSane' /\ KeysFollowIdentity'
  BY <1>1 DEF IdentityInv, ChainIsSane, KeysFollowIdentity
<1>15. QED
  BY <1>1, <1>2, <1>6, <1>12, <1>13, <1>14 DEF IdentityInv

(* A step that sends, writes or ends: it covers whoever was covered and    *)
(* writes heights that were safe.                                          *)
LEMMA StepKeepsInv ==
    ASSUME IdentityInv, TypeOK', txs' = txs, lost \subseteq lost',
           \A a \in Identities : Covered(a) => Covered(a)',
           \A a \in Identities : identities[a] # NoDoc => identities'[a] # NoDoc,
           \A a \in Identities : identities'[a] # NoDoc => identities'[a].made # 0,
           \A a \in Identities : SafeBelow(identities'[a].height),
           \A w \in sent' : w \in sent \/ (SafeBelow(w.height) /\ Settled(w.id)),
           \A a \in Identities, k \in Keys :
               keyTable'[<<a, k>>] # 0 => keyTable[<<a, k>>] # 0 \/ Settled(a),
           stage' = "querying" => stage = "querying" /\ from' = from,
           \/ stage' = stage /\ batch' = batch /\ todo' \subseteq todo
           \/ batch' = <<>> /\ todo' = {}
    PROVE  IdentityInv'
<1>1. TypeOK /\ ChainIsSane /\ HeightsAreSafe
  BY DEF IdentityInv
<1>2. ASSUME NEW h, SafeBelow(h)
      PROVE  SafeBelow(h)'
  <2>1. \A k \in 1..Len(txs) : txs[k].id \in Identities
    <3>1. \A k \in 1..Len(txs) : txs[k] \in Tx
      BY <1>1, ElementOfSeq DEF TypeOK
    <3>2. QED
      BY <3>1 DEF Tx
  <2>2. h <= Top' /\ Len(txs') = Len(txs)
    BY <1>2 DEF SafeBelow, Top
  <2>3. ASSUME NEW k \in 1..Len(txs), txs[k].op = "create", txs[k].height < h
        PROVE  Covered(txs[k].id)'
    <3>1. Covered(txs[k].id) /\ txs[k].id \in Identities
      BY <1>2, <2>1, <2>3 DEF SafeBelow
    <3>2. PICK a \in Identities : a = txs[k].id
      BY <3>1
    <3>3. Covered(a)'
      BY <3>1, <3>2
    <3>4. QED
      BY <3>2, <3>3 DEF Covered
  <2>4. QED
    BY <2>2, <2>3 DEF SafeBelow
<1>3. ASSUME NEW a \in Identities, Settled(a)
      PROVE  Settled(a)'
  BY <1>3 DEF Settled
<1>4. HeightsAreSafe'
  <2>1. ASSUME NEW a \in Identities
        PROVE  SafeBelow(identities[a].height)'
    <3>1. PICK h : h = identities'[a].height
      OBVIOUS
    <3>2. SafeBelow(h)'
      BY <1>2, <3>1
    <3>3. QED
      BY <3>1, <3>2 DEF SafeBelow
  <2>2. ASSUME NEW j \in 1..Len(batch')
        PROVE  (batch[j].height > 0 /\ SafeBelow(batch[j].height) /\ Covered(batch[j].id))'
    <3>1. batch' = batch
      BY <2>2, EmptySeq
    <3>2. batch[j] \in Tx
      BY <1>1, <2>2, <3>1, ElementOfSeq DEF TypeOK
    <3>3. PICK a \in Identities, h \in Nat : a = batch[j].id /\ h = batch[j].height
      BY <3>2 DEF Tx
    <3>4. h > 0 /\ SafeBelow(h)' /\ Covered(a)'
      BY <1>1, <1>2, <2>2, <3>1, <3>3 DEF HeightsAreSafe
    <3>5. QED
      BY <3>1, <3>3, <3>4 DEF SafeBelow, Covered
  <2>3. ASSUME NEW w \in sent'
        PROVE  SafeBelow(w.height)' /\ Settled(w.id)'
    <3>1. SafeBelow(w.height) /\ Settled(w.id)
      BY <1>1, <2>3 DEF HeightsAreSafe
    <3>2. w.id \in Identities
      BY <2>3 DEF TypeOK, Update, KeyWrite
    <3>3. QED
      BY <1>2, <1>3, <3>1, <3>2
  <2>4. ASSUME stage' = "querying"
        PROVE  SafeBelow(from)'
    <3>1. SafeBelow(from)
      BY <1>1, <2>4 DEF HeightsAreSafe
    <3>2. PICK h : h = from
      OBVIOUS
    <3>3. SafeBelow(h)' /\ h = from'
      BY <1>2, <2>4, <3>1, <3>2
    <3>4. QED
      BY <3>3 DEF SafeBelow
  <2>5. QED
    BY <2>1, <2>2, <2>3, <2>4 DEF HeightsAreSafe
<1>5. KeysFollowIdentity'
  <2>1. ASSUME NEW a \in Identities, NEW k \in Keys, keyTable'[<<a, k>>] # 0
        PROVE  Settled(a)'
    <3>1. Settled(a)
      BY <2>1 DEF IdentityInv, KeysFollowIdentity, Settled
    <3>2. QED
      BY <1>3, <3>1
  <2>2. QED
    BY <2>1 DEF KeysFollowIdentity, Settled
<1>6. ChainIsSane'
  BY <1>1 DEF ChainIsSane
<1>7. /\ todo' \subseteq ToSet(batch')
      /\ stage' # "inserting" => todo' = {}
  BY DEF IdentityInv
<1>8. QED
  BY <1>4, <1>5, <1>6, <1>7 DEF IdentityInv

(* insertMany: what is inserted is as safe as the batch it came with.      *)
LEMMA InsertManyKeepsInv ==
    ASSUME IdentityInv, NEW t \in todo, Insert(t)
    PROVE  IdentityInv'
<1>1. UNCHANGED <<txs, keyTable, stage, from, batch, sent, lost, failures>> /\ todo' = todo \ {t}
  BY DEF Insert
<1>2. TypeOK /\ ChainIsSane /\ HeightsAreSafe
  BY DEF IdentityInv
<1>3. /\ t \in Tx /\ stage = "inserting"
      /\ SafeBelow(t.height) /\ t.height \in Nat /\ t.height # 0
  <2>1. PICK j \in 1..Len(batch) : t = batch[j]
    BY <1>2, LenProperties DEF IdentityInv, ToSet, TypeOK
  <2>2. t \in Tx /\ stage = "inserting"
    BY <1>2 DEF IdentityInv, TypeOK
  <2>3. QED
    BY <1>2, <2>1, <2>2 DEF HeightsAreSafe, Tx
<1>4. \/ /\ identities[t.id] = NoDoc
         /\ identities' = [identities EXCEPT ![t.id] =
                             [made |-> t.height, cred |-> t.cred, height |-> t.height]]
         /\ UNCHANGED clash
      \/ /\ identities[t.id] # NoDoc
         /\ clash' = TRUE
         /\ UNCHANGED identities
  BY DEF Insert
<1>5. TypeOK'
  <2>1. [made |-> t.height, cred |-> t.cred, height |-> t.height] \in Doc
    BY <1>3 DEF Tx, Doc
  <2>2. identities' \in [Identities -> Doc]
    BY <1>2, <1>4, <2>1 DEF TypeOK
  <2>3. clash' \in BOOLEAN
    BY <1>2, <1>4 DEF TypeOK
  <2>4. QED
    BY <1>1, <1>2, <2>2, <2>3 DEF TypeOK
<1>6. \A a \in Identities : \/ identities'[a] = identities[a]
                          \/ /\ a = t.id
                             /\ identities'[a] # NoDoc
                             /\ identities'[a].made # 0
                             /\ identities'[a].height = t.height
  BY <1>2, <1>3, <1>4 DEF TypeOK, Tx, NoDoc
<1>7. identities'[t.id] # NoDoc
  BY <1>2, <1>3, <1>4 DEF TypeOK, Tx, NoDoc
<1>8. \A a \in Identities : Covered(a) => Covered(a)'
  BY <1>1, <1>6, <1>7 DEF Covered
<1>9. /\ \A a \in Identities : identities[a] # NoDoc => identities'[a] # NoDoc
      /\ \A a \in Identities : identities'[a] # NoDoc => identities'[a].made # 0
      /\ \A a \in Identities : SafeBelow(identities'[a].height)
  BY <1>2, <1>3, <1>6 DEF IdentityInv, HeightsAreSafe
<1>10. QED
  BY <1>1, <1>3, <1>5, <1>8, <1>9, StepKeepsInv

(* Sending ends the run: everybody of its batch is settled.                *)
LEMMA SendKeepsInv ==
    ASSUME IdentityInv, Send
    PROVE  IdentityInv'
<1>1. /\ UNCHANGED <<txs, identities, keyTable, lost, failures>>
      /\ stage = "inserting" /\ todo = {}
      /\ stage' = "idle" /\ from' = 0 /\ batch' = <<>> /\ todo' = {} /\ clash' = FALSE
      /\ sent' = sent \cup Updates \cup KeyWrites
  BY DEF Send, Ended
<1>2. TypeOK /\ HeightsAreSafe
  BY DEF IdentityInv
<1>3. \A a : Covered(a) => Settled(a)
  BY <1>1 DEF Covered, Settled
<1>4. Len(batch) \in Nat /\ DOMAIN batch = 1..Len(batch)
      /\ \A j \in 1..Len(batch) : batch[j] \in Tx
  BY <1>2, LenProperties, ElementOfSeq DEF TypeOK
<1>5. ASSUME NEW w \in KeyWrites
      PROVE  w \in KeyWrite /\ SafeBelow(w.height) /\ Settled(w.id)
  <2>1. PICK t \in ToSet(batch) : \E k \in t.keys : w = [id |-> t.id, key |-> k, height |-> t.height]
    BY <1>5 DEF KeyWrites
  <2>2. PICK j \in 1..Len(batch) : t = batch[j]
    BY <1>4, <2>1 DEF ToSet
  <2>3. t \in Tx
    BY <1>4, <2>2
  <2>4. w \in KeyWrite
    BY <2>1, <2>3 DEF Tx, KeyWrite
  <2>5. QED
    BY <1>2, <1>3, <2>1, <2>2, <2>4 DEF HeightsAreSafe
<1>6. ASSUME NEW w \in Updates
      PROVE  w \in Update /\ SafeBelow(w.height) /\ Settled(w.id)
  <2>1. PICK t \in ToSet(batch) : t.op = "update" /\ w = UpdateOf(t.id)
    BY <1>6 DEF Updates
  <2>2. PICK n \in 1..Len(batch) : t = batch[n]
    BY <1>4, <2>1 DEF ToSet
  <2> DEFINE ups == {j \in 1..Len(batch) : batch[j].id = t.id /\ batch[j].op = "update"}
             set == {j \in ups : batch[j].cred # 0}
  <2>3. ups \in SUBSET Nat /\ set \in SUBSET Nat /\ n \in ups
    BY <1>4, <2>1, <2>2
  <2>4. Min(ups) \in ups
    BY <2>3, MinIsLeast
  <2>5. set # {} => Min(set) \in set
    BY <2>3, MinIsLeast
  <2>6. PICK c : c = IF set = {} THEN 0 ELSE batch[Min(set)].cred
    OBVIOUS
  <2>7. w = [id |-> t.id, height |-> batch[Min(ups)].height, cred |-> c]
    BY <2>1, <2>6 DEF UpdateOf
  <2>8. c \in Nat
    <3>1. set # {} => batch[Min(set)] \in Tx
      BY <1>4, <2>5
    <3>2. QED
      BY <2>6, <3>1 DEF Tx
  <2>9. t \in Tx /\ batch[Min(ups)] \in Tx /\ Min(ups) \in 1..Len(batch)
    BY <1>4, <2>2, <2>4
  <2> HIDE DEF ups, set
  <2>10. w \in Update
    BY <2>7, <2>8, <2>9 DEF Tx, Update
  <2>11. w.height = batch[Min(ups)].height /\ w.id = t.id
    BY <2>7
  <2>12. QED
    BY <1>2, <1>3, <2>2, <2>9, <2>10, <2>11 DEF HeightsAreSafe
<1>7. TypeOK'
  <2>1. sent' \subseteq Update \cup KeyWrite
    BY <1>1, <1>2, <1>5, <1>6 DEF TypeOK
  <2>2. batch' \in Seq(Tx)
    BY <1>1, EmptySeq
  <2>3. QED
    BY <1>1, <1>2, <2>1, <2>2 DEF TypeOK
<1>8. \A a \in Identities : Covered(a) => Covered(a)'
  BY <1>1 DEF Covered
<1>9. \A a \in Identities : SafeBelow(identities'[a].height)
  BY <1>1, <1>2 DEF HeightsAreSafe
<1>10. QED
  BY <1>1, <1>5, <1>6, <1>7, <1>8, <1>9, StepKeepsInv DEF IdentityInv

(* A run that throws, is aborted or dies: what it had still to insert is   *)
(* lost.                                                                   *)
LEMMA EndKeepsInv ==
    ASSUME IdentityInv, Throw \/ Abort
    PROVE  IdentityInv'
<1>1. /\ UNCHANGED <<txs, identities, keyTable, sent>>
      /\ stage' = "idle" /\ from' = 0 /\ batch' = <<>> /\ todo' = {} /\ clash' = FALSE
      /\ lost' = lost \cup {t.id : t \in {c \in todo : identities[c.id] = NoDoc}}
      /\ failures' \in 0..MaxFailures
  BY IdentitySettings DEF Throw, Abort, Ended, IdentityInv, TypeOK
<1>2. TypeOK /\ HeightsAreSafe
  BY DEF IdentityInv
<1>3. TypeOK'
  <2>1. batch' \in Seq(Tx)
    BY <1>1, EmptySeq
  <2>2. lost' \subseteq Identities
    BY <1>1, <1>2 DEF TypeOK, Tx
  <2>3. QED
    BY <1>1, <1>2, <2>1, <2>2 DEF TypeOK
<1>4. \A a \in Identities : Covered(a) => Covered(a)'
  BY <1>1 DEF Covered
<1>5. \A a \in Identities : SafeBelow(identities'[a].height)
  BY <1>1, <1>2 DEF HeightsAreSafe
<1>6. QED
  BY <1>1, <1>3, <1>4, <1>5, StepKeepsInv DEF IdentityInv

(* A write that lands moves a document to its own height. *)
LEMMA LandingKeepsInv ==
    ASSUME IdentityInv, NEW w \in sent, UpdateLands(w) \/ KeyLands(w) \/ WriteLost(w)
    PROVE  IdentityInv'
<1>1. /\ UNCHANGED <<txs, stage, from, batch, todo, clash, lost>>
      /\ sent' = sent \ {w}
      /\ failures' \in 0..MaxFailures
  BY IdentitySettings DEF UpdateLands, KeyLands, WriteLost, runVars, IdentityInv, TypeOK
<1>2. TypeOK /\ HeightsAreSafe /\ SafeBelow(w.height) /\ Settled(w.id)
  BY DEF IdentityInv, HeightsAreSafe
<1>3. /\ identities' \in [Identities -> Doc]
      /\ \A a \in Identities : identities[a] # NoDoc => identities'[a] # NoDoc
      /\ \A a \in Identities : identities'[a] # NoDoc => identities'[a].made # 0
      /\ \A a \in Identities : SafeBelow(identities'[a].height)
  <2>1. CASE identities' = identities
    BY <1>2, <2>1 DEF IdentityInv, TypeOK, HeightsAreSafe
  <2>2. CASE identities' # identities
    <3>1. /\ w \in Update /\ identities[w.id] # NoDoc
          /\ identities' = [identities EXCEPT ![w.id] =
                              [made |-> @.made, height |-> w.height,
                               cred |-> IF w.cred = 0 THEN @.cred ELSE w.cred]]
      BY <2>2 DEF UpdateLands, KeyLands, WriteLost
    <3>2. w.id \in Identities /\ w.cred \in Nat /\ w.height \in Nat
      BY <3>1 DEF Update
    <3>3. identities[w.id] \in Doc /\ identities[w.id].made # 0
      BY <1>2, <3>1, <3>2 DEF IdentityInv, TypeOK
    <3>4. PICK d : d = [made |-> identities[w.id].made, height |-> w.height,
                        cred |-> IF w.cred = 0 THEN identities[w.id].cred ELSE w.cred]
      OBVIOUS
    <3>5. identities' = [identities EXCEPT ![w.id] = d]
      BY <3>1, <3>4
    <3>6. d \in Doc /\ d.made # 0 /\ d.height = w.height
      BY <3>2, <3>3, <3>4 DEF Doc
    <3>7. d # NoDoc
      BY <3>6 DEF NoDoc
    <3>8. identities \in [Identities -> Doc]
      BY <1>2 DEF TypeOK
    <3>9. \A a \in Identities : identities'[a] = IF a = w.id THEN d ELSE identities[a]
      BY <3>5, <3>8
    <3>10. identities' \in [Identities -> Doc]
      BY <3>5, <3>6, <3>8
    <3>11. QED
      BY <1>2, <3>6, <3>7, <3>9, <3>10 DEF IdentityInv, HeightsAreSafe
  <2>3. QED
    BY <2>1, <2>2
<1>4. /\ keyTable' \in [Identities \X Keys -> Nat]
      /\ \A a \in Identities, k \in Keys :
             keyTable'[<<a, k>>] # 0 => keyTable[<<a, k>>] # 0 \/ Settled(a)
  <2>1. CASE keyTable' = keyTable
    BY <1>2, <2>1 DEF TypeOK
  <2>2. CASE keyTable' # keyTable
    <3>1. w \in KeyWrite /\ keyTable' = [keyTable EXCEPT ![<<w.id, w.key>>] = w.height]
      BY <2>2 DEF UpdateLands, KeyLands, WriteLost
    <3>2. QED
      BY <1>2, <3>1 DEF TypeOK, KeyWrite
  <2>3. QED
    BY <2>1, <2>2
<1>5. TypeOK'
  BY <1>1, <1>2, <1>3, <1>4 DEF TypeOK
<1>6. \A a \in Identities : Covered(a) => Covered(a)'
  BY <1>1, <1>3 DEF Covered
<1>7. QED
  BY <1>1, <1>2, <1>3, <1>4, <1>5, <1>6, StepKeepsInv

LEMMA IdentityStepInv == IdentityInv /\ [Next]_vars => IdentityInv'
<1> SUFFICES ASSUME IdentityInv, [Next]_vars
             PROVE  IdentityInv'
  OBVIOUS
<1>1. CASE RunStep
  BY <1>1, StartKeepsInv, QueryTxsKeepsInv, SendKeepsInv, EndKeepsInv, InsertManyKeepsInv
     DEF RunStep
<1>2. CASE NewTx \/ Abort
  BY <1>2, NewTxKeepsInv, EndKeepsInv
<1>3. CASE WriteStep \/ \E w \in sent : WriteLost(w)
  BY <1>3, LandingKeepsInv DEF WriteStep
<1>4. CASE UNCHANGED vars
  BY <1>4 DEF vars, IdentityInv, TypeOK, ChainIsSane, HeightsAreSafe, SafeBelow, Top, Covered,
              Settled, KeysFollowIdentity
<1>5. QED
  BY <1>1, <1>2, <1>3, <1>4 DEF Next

(* Documents, keys and writes under way of the identity task have their    *)
(* types, for any number of transactions, runs and failures.               *)
THEOREM IdentityTypes == Spec => []TypeOK
<1>1. IdentityInv => TypeOK
  BY DEF IdentityInv
<1>2. QED
  BY <1>1, IdentityInitInv, IdentityStepInv, PTL DEF Spec

(* queryHeight never passes an identity by: below the cursor of the next   *)
(* run everybody created is in the collection, about to be inserted, or    *)
(* was lost with a run that broke off, although the cursor is moved by     *)
(* updates nobody waits for, in any order, and batches may end anywhere.   *)
THEOREM NoIdentityIsPassed == Spec => []NoCreationSkipped
<1>1. ASSUME IdentityInv
      PROVE  NoCreationSkipped
  <2>1. SafeBelow(Cursor)
    BY <1>1, CursorIs
  <2>2. ASSUME NEW t \in ToSet(txs), t.op = "create", t.height < Cursor
        PROVE  Covered(t.id)
    <3>1. PICK k \in 1..Len(txs) : t = txs[k]
      BY <1>1, LenProperties DEF ToSet, IdentityInv, TypeOK
    <3>2. QED
      BY <2>1, <2>2, <3>1 DEF SafeBelow
  <2>3. QED
    BY <2>2 DEF NoCreationSkipped
<1>2. QED
  BY <1>1, IdentityInitInv, IdentityStepInv, PTL DEF Spec

(* A public key or certificate is shown only of an identity that is shown  *)
(* or was lost: insertPubkey and insertCertificate wait for insertMany.    *)
THEOREM KeysComeAfter == Spec => []KeysFollowIdentity
<1>1. IdentityInv => KeysFollowIdentity
  BY DEF IdentityInv
<1>2. QED
  BY <1>1, IdentityInitInv, IdentityStepInv, PTL DEF Spec

(***************************************************************************)
(* TokenSync.                                                              *)
(***************************************************************************)
TokenHeights == 0..MaxTokenHeight
MintedUpTo(h) == {x \in MintTxs : 0 < minted[x] /\ minted[x] <= h}

(* A document is of the past, and its supply is that of its height. *)
Clean(s) == s \notin cutTokens \cup Tangled
DocFits(s, d) ==
    /\ \A h \in TokenHeights : (\A x \in MintTxs : minted[x] <= h) => d.height <= h
    /\ Clean(s) => d.supply = SupplyAt(s, d.height)

(* So are the documents in the collection, those of the runs, and those on *)
(* their way to the collection.                                            *)
TokenInv ==
    /\ TokenTypeOK
    /\ \A s \in Symbols : DocFits(s, tokens[s])
    /\ \A r \in Runs, s \in Symbols : DocFits(s, tokenRun[r].docs[s])
    /\ \A w \in tokenSent : DocFits(w[1], w[2])

-----------------------------------------------------------------------------
LEMMA SupplyIs ==
    ASSUME NEW s, NEW h
    PROVE  SupplyAt(s, h) = Sum([x \in MintedUpTo(h) |-> amounts[x][s]], MintedUpTo(h))
BY DEF SupplyAt, MintedUpTo, SumFunction, Sum

LEMMA AmountIs ==
    ASSUME NEW x \in MintTxs
    PROVE  AmountOf(x) = Sum(amounts[x], Symbols) /\ AmountOf(x) \in Int
<1>1. amounts[x] \in [Symbols -> Int] /\ IsFiniteSet(Symbols)
  BY TokenSettings
<1>2. AmountOf(x) = Sum(amounts[x], Symbols)
  BY <1>1 DEF AmountOf, SumFunction, Sum
<1>3. QED
  BY <1>1, <1>2, SumType

(* A transaction adds to a token what it adds to all tokens, when the      *)
(* token does not share transactions.                                      *)
LEMMA AmountOfClean ==
    ASSUME NEW x \in MintTxs, NEW s \in about[x], s \in Symbols, s \notin Tangled
    PROVE  AmountOf(x) = amounts[x][s]
<1>1. amounts[x] \in [Symbols -> Int] /\ IsFiniteSet(Symbols)
  BY TokenSettings
<1> DEFINE f == amounts[x]
           R == Symbols \ {s}
<1>2. Sum(f, Symbols) = f[s] + Sum(f, R)
  BY <1>1, SumPeels
<1>3. IsFiniteSet(R) /\ \A u \in R : f[u] = 0
  <2>1. IsFiniteSet(R)
    BY <1>1, FS_Subset
  <2>2. QED
    BY <2>1 DEF Tangled
<1>4. Sum(f, R) = 0
  <2>1. Cardinality(R) \in Nat
    BY <1>3, FS_CardinalityType
  <2>2. Sum(f, R) = 0 * Cardinality(R)
    BY <1>3, SumOfEqual
  <2>3. QED
    BY <2>1, <2>2
<1>5. f[s] \in Int
  BY <1>1
<1> HIDE DEF f, R
<1>6. QED
  BY <1>2, <1>4, <1>5, AmountIs DEF f

(* The supply grows by what is minted between two heights. *)
LEMMA SupplyGrows ==
    ASSUME NEW s \in Symbols, minted \in [MintTxs -> TokenHeights],
           NEW low \in TokenHeights, NEW high \in TokenHeights, low <= high,
           NEW B \in SUBSET MintTxs,
           \A x \in MintTxs : x \in B <=> s \in about[x] /\ low < minted[x] /\ minted[x] <= high,
           s \notin Tangled
    PROVE  SupplyAt(s, high) = SupplyAt(s, low) + SumFunction([x \in B |-> AmountOf(x)])
<1> DEFINE L == MintedUpTo(low)
           H == MintedUpTo(high)
           O == H \ (L \cup B)
           f == [x \in MintTxs |-> amounts[x][s]]
           b == [x \in B |-> AmountOf(x)]
<1>1. \A x \in MintTxs : f[x] \in Int
  BY TokenSettings
<1>2. /\ IsFiniteSet(MintTxs) /\ L \in SUBSET MintTxs /\ H \in SUBSET MintTxs
      /\ O \in SUBSET MintTxs
  BY TokenSettings DEF MintedUpTo
<1>3. IsFiniteSet(L) /\ IsFiniteSet(H) /\ IsFiniteSet(O) /\ IsFiniteSet(B)
  BY <1>2, FS_Subset
<1>4. \A x \in MintTxs : minted[x] \in Nat
  BY DEF TokenHeights
<1>5. /\ H = (L \cup B) \cup O /\ (L \cup B) \cap O = {} /\ L \cap B = {}
      /\ \A x \in O : s \notin about[x]
  BY <1>4 DEF MintedUpTo, TokenHeights
<1>6. SupplyAt(s, low) = Sum(f, L) /\ SupplyAt(s, high) = Sum(f, H)
  <2>1. ASSUME NEW h \in TokenHeights
        PROVE  SupplyAt(s, h) = Sum(f, MintedUpTo(h))
    <3> DEFINE S == MintedUpTo(h)
               g == [x \in S |-> amounts[x][s]]
    <3>1. S \in SUBSET MintTxs /\ IsFiniteSet(S)
      <4>1. S \in SUBSET MintTxs
        BY DEF MintedUpTo
      <4>2. QED
        BY <1>2, <4>1, FS_Subset
    <3>2. \A x \in S : f[x] \in Int /\ g[x] = f[x]
      BY <1>1, <3>1
    <3>3. SupplyAt(s, h) = Sum(g, S)
      BY SupplyIs
    <3> HIDE DEF S, g
    <3>4. Sum(f, S) = Sum(g, S)
      BY <1>1, <3>1, <3>2, SumsEqual
    <3>5. QED
      BY <3>3, <3>4 DEF S
  <2>2. QED
    BY <2>1
<1>7. \A x \in O : f[x] = 0
  <2>1. \A x \in MintTxs : s \notin about[x] => amounts[x][s] = 0
    BY TokenSettings
  <2>2. QED
    BY <1>2, <1>5, <2>1
<1>8. SumFunction(b) = Sum(b, B)
  BY DEF SumFunction, Sum
<1>9. \A x \in B : b[x] = f[x] /\ b[x] \in Int
  BY <1>1, AmountOfClean
<1> HIDE DEF f, b, L, H, O
<1>10. Sum(b, B) = Sum(f, B)
  BY <1>3, <1>9, SumsEqual
<1>11. Sum(f, O) = 0
  <2>1. Cardinality(O) \in Nat
    BY <1>3, FS_CardinalityType
  <2>2. Sum(f, O) = 0 * Cardinality(O)
    BY <1>3, <1>7, SumOfEqual
  <2>3. QED
    BY <2>1, <2>2
<1>12. Sum(f, L \cup B) = Sum(f, L) + Sum(f, B)
  BY <1>1, <1>2, <1>3, <1>5, SumOfUnion
<1>13. IsFiniteSet(L \cup B)
  BY <1>3, FS_Union
<1>14. Sum(f, H) = Sum(f, L \cup B) + Sum(f, O)
  <2>1. PICK U : U = L \cup B /\ IsFiniteSet(U) /\ U \in SUBSET MintTxs
    BY <1>2, <1>13
  <2>2. \A x \in U \cup O : f[x] \in Int
    BY <1>1, <1>2, <2>1
  <2>3. U \cap O = {} /\ H = U \cup O
    BY <1>5, <2>1
  <2>4. Sum(f, U \cup O) = Sum(f, U) + Sum(f, O)
    BY <1>3, <2>1, <2>2, <2>3, SumOfUnion
  <2>5. QED
    BY <2>1, <2>3, <2>4
<1>15. Sum(f, L) \in Int /\ Sum(f, B) \in Int
  BY <1>1, <1>2, <1>3, SumType
<1>16. QED
  BY <1>6, <1>8, <1>10, <1>11, <1>12, <1>14, <1>15 DEF b

-----------------------------------------------------------------------------
(* Documents keep fitting. *)
LEMMA DocFitsKept ==
    ASSUME minted' = minted, cutTokens \subseteq cutTokens',
           NEW s, NEW d, DocFits(s, d)
    PROVE  DocFits(s, d)'
BY DEF DocFits, Clean, SupplyAt, Tangled

(* The new block is above all documents. *)
LEMMA DocFitsBelow ==
    ASSUME NEW S \in SUBSET MintTxs, TokenTypeOK, MintBlock(S),
           NEW s, NEW d \in TokenDoc, DocFits(s, d)
    PROVE  DocFits(s, d)'
<1> DEFINE MintHeights == {minted[x] : x \in MintTxs}
<1>1. PICK top : top = Max(MintHeights)
  OBVIOUS
<1>2. /\ MaxTokenHeight \in Nat /\ minted \in [MintTxs -> TokenHeights]
      /\ MintHeights \in SUBSET TokenHeights /\ MintHeights # {}
  BY TokenSettings DEF TokenTypeOK, MintBlock, TokenHeights
<1>3. top \in TokenHeights /\ \A x \in MintTxs : minted[x] <= top
  <2> HIDE DEF MintHeights
  <2>1. top \in MintHeights /\ \A y \in MintHeights : y <= top
    BY <1>1, <1>2, MaxIsGreatest DEF TokenHeights
  <2>2. QED
    BY <1>2, <2>1 DEF MintHeights
<1>4. /\ minted' = [x \in MintTxs |-> IF x \in S THEN top + 1 ELSE minted[x]]
      /\ top < MaxTokenHeight /\ cutTokens' = cutTokens
      /\ \A x \in S : minted[x] = 0
  BY <1>1 DEF MintBlock
<1> HIDE DEF MintHeights
<1>5. \A x \in MintTxs : minted'[x] = IF x \in S THEN top + 1 ELSE minted[x]
  BY <1>4
<1>6. d.height \in TokenHeights /\ d.height <= top
  BY <1>3 DEF DocFits, TokenDoc, TokenHeights
<1>7. PICK k \in TokenHeights : k = d.height /\ k <= top
  BY <1>6
<1>8. MintedUpTo(k)' = MintedUpTo(k)
  <2>1. ASSUME NEW x \in MintTxs
        PROVE  (0 < minted'[x] /\ minted'[x] <= k) <=> (0 < minted[x] /\ minted[x] <= k)
    <3>1. CASE x \in S
      <4>1. minted'[x] = top + 1 /\ minted[x] = 0
        BY <1>4, <1>5, <3>1
      <4>2. QED
        BY <1>2, <1>3, <1>7, <4>1 DEF TokenHeights
    <3>2. CASE x \notin S
      BY <1>5, <3>2
    <3>3. QED
      BY <3>1, <3>2
  <2>2. QED
    BY <2>1 DEF MintedUpTo
<1>9. SupplyAt(s, k)' = SupplyAt(s, k)
  BY <1>8 DEF SupplyAt, MintedUpTo
<1>10. ASSUME Clean(s)'
       PROVE  d.supply = SupplyAt(s, d.height)'
  <2>1. Clean(s)
    BY <1>4, <1>10 DEF Clean, Tangled
  <2>2. d.supply = SupplyAt(s, k)
    BY <1>7, <2>1 DEF DocFits
  <2>3. QED
    BY <1>7, <1>9, <2>2
<1>11. ASSUME NEW h \in TokenHeights, \A x \in MintTxs : minted'[x] <= h
       PROVE  d.height <= h
  <2>1. \A x \in MintTxs : minted[x] <= h
    <3>1. ASSUME NEW x \in MintTxs
          PROVE  minted[x] <= h
      <4>1. CASE x \in S
        BY <1>4, <1>2, <1>11, <4>1 DEF TokenHeights
      <4>2. CASE x \notin S
        BY <1>5, <1>11, <4>2
      <4>3. QED
        BY <4>1, <4>2
    <3>2. QED
      BY <3>1
  <2>2. QED
    BY <1>11, <2>1 DEF DocFits
<1>12. QED
  BY <1>10, <1>11 DEF DocFits, TokenHeights

(* What a read folds in. *)
LEMMA FoldFits ==
    ASSUME NEW s \in Symbols, TokenTypeOK,
           NEW d \in TokenDoc, DocFits(s, d),
           NEW B \in Smallest(TxBySymbol(s, d.height), minted, TokenLimit)
    PROVE  /\ FoldedToken(d, B) \in TokenDoc
           /\ (Clean(s) /\ CutOff(TxBySymbol(s, d.height), B, minted) = {})
                  => FoldedToken(d, B).supply = SupplyAt(s, FoldedToken(d, B).height)
           /\ \A h \in TokenHeights :
                  (\A x \in MintTxs : minted[x] <= h) => FoldedToken(d, B).height <= h
<1>1. CASE B = {}
  BY <1>1 DEF FoldedToken, DocFits
<1>2. CASE B # {}
  <2> DEFINE MintHeights == {minted[x] : x \in B}
             added == SumFunction([x \in B |-> AmountOf(x)])
  <2>1. PICK low \in TokenHeights : low = d.height
    BY DEF TokenDoc, TokenHeights
  <2>2. B \in SUBSET MintTxs /\ \A x \in B : s \in about[x] /\ minted[x] > low
    BY <2>1 DEF Smallest, TxBySymbol
  <2>3. /\ MaxTokenHeight \in Nat /\ minted \in [MintTxs -> TokenHeights]
        /\ MintHeights \in SUBSET TokenHeights /\ MintHeights # {}
    BY <1>2, <2>2, TokenSettings DEF TokenTypeOK, TokenHeights
  <2>4. PICK high : high = Max(MintHeights)
    OBVIOUS
  <2> HIDE DEF MintHeights
  <2>5. high \in MintHeights /\ \A y \in MintHeights : y <= high
    BY <2>3, <2>4, MaxIsGreatest DEF TokenHeights
  <2>6. /\ high \in TokenHeights
        /\ \A x \in B : minted[x] <= high
        /\ \E x \in B : minted[x] = high
    BY <2>3, <2>5 DEF MintHeights
  <2>7. PICK last \in B : minted[last] = high
    BY <2>6
  <2>8. low < high
    BY <2>1, <2>2, <2>3, <2>7 DEF TokenHeights
  <2>9. added \in Int
    <3> DEFINE b == [x \in B |-> AmountOf(x)]
    <3>1. IsFiniteSet(B)
      BY <2>2, TokenSettings, FS_Subset
    <3>2. \A x \in B : b[x] \in Int
      BY <2>2, AmountIs
    <3>3. SumFunction(b) = Sum(b, B)
      BY DEF SumFunction, Sum
    <3> HIDE DEF b
    <3>4. Sum(b, B) \in Int
      BY <3>1, <3>2, SumType
    <3>5. QED
      BY <3>3, <3>4 DEF b
  <2>10. PICK m \in Int : m = added
    BY <2>9
  <2>11. FoldedToken(d, B) = [supply |-> d.supply + m, height |-> high]
    BY <1>2, <2>4, <2>10 DEF FoldedToken, MintHeights
  <2>12. d.supply \in Int
    BY DEF TokenDoc
  <2> HIDE DEF added
  <2>13. FoldedToken(d, B) \in TokenDoc
    BY <2>6, <2>11, <2>12 DEF TokenDoc, TokenHeights
  <2>14. ASSUME Clean(s), CutOff(TxBySymbol(s, d.height), B, minted) = {}
         PROVE  d.supply + m = SupplyAt(s, high)
    <3>1. ASSUME NEW x \in MintTxs, s \in about[x], low < minted[x], minted[x] <= high
          PROVE  x \in B
      <4>1. x \in TxBySymbol(s, d.height)
        BY <2>1, <2>3, <3>1 DEF TxBySymbol, TokenHeights
      <4>2. SUFFICES ASSUME x \notin B
                     PROVE  FALSE
        OBVIOUS
      <4>3. high <= minted[x]
        BY <2>7, <4>1, <4>2 DEF Smallest
      <4>4. minted[x] = high
        BY <2>3, <2>6, <3>1, <4>3 DEF TokenHeights
      <4>5. x \in CutOff(TxBySymbol(s, d.height), B, minted)
        BY <2>7, <4>1, <4>2, <4>4 DEF CutOff
      <4>6. QED
        BY <2>14, <4>5
    <3>2. \A x \in MintTxs : x \in B <=> s \in about[x] /\ low < minted[x] /\ minted[x] <= high
      BY <2>2, <2>6, <3>1
    <3>3. s \notin Tangled /\ d.supply = SupplyAt(s, low)
      BY <2>1, <2>14 DEF Clean, DocFits
    <3>4. low <= high
      BY <2>1, <2>3, <2>6, <2>8 DEF TokenHeights
    <3>5. SupplyAt(s, high) = SupplyAt(s, low) + added
      BY <2>2, <2>3, <2>6, <3>2, <3>3, <3>4, SupplyGrows DEF added
    <3>6. QED
      BY <2>10, <3>3, <3>5
  <2>15. \A h \in TokenHeights : (\A x \in MintTxs : minted[x] <= h) => high <= h
    BY <2>2, <2>7
  <2>16. QED
    BY <2>11, <2>13, <2>14, <2>15
<1>3. QED
  BY <1>1, <1>2

-----------------------------------------------------------------------------
(* The document of a token that has none is right. *)
LEMMA NoMintFits ==
    ASSUME minted \in [MintTxs -> TokenHeights], NEW s
    PROVE  NoMint \in TokenDoc /\ DocFits(s, NoMint)
<1>1. MaxTokenHeight \in Nat
  BY TokenSettings
<1>2. MintedUpTo(0) = {}
  BY <1>1 DEF MintedUpTo, TokenHeights
<1>3. SupplyAt(s, 0) = 0
  BY <1>2, SupplyIs, SumOfNone
<1>4. QED
  BY <1>1, <1>3 DEF DocFits, NoMint, TokenDoc, TokenHeights

LEMMA TokenStarts == TokenInit => TokenInv
<1>1. SUFFICES ASSUME TokenInit
               PROVE  TokenInv
  OBVIOUS
<1>2. MaxTokenHeight \in Nat /\ minted \in [MintTxs -> TokenHeights] /\ NoMint \in TokenDoc
  BY <1>1, TokenSettings DEF TokenInit, TokenHeights, TokenDoc, NoMint
<1>3. TokenTypeOK
  BY <1>1, <1>2 DEF TokenInit, TokenTypeOK, TokenIdle
<1>4. QED
  BY <1>1, <1>2, <1>3, NoMintFits DEF TokenInv, TokenInit, TokenIdle

LEMMA MintBlockKeeps ==
    ASSUME NEW S \in SUBSET MintTxs, TokenInv, MintBlock(S)
    PROVE  TokenInv'
<1>1. TokenTypeOK
  BY DEF TokenInv
<1>2. MaxTokenHeight \in Nat
  BY TokenSettings
<1> DEFINE MintHeights == {minted[x] : x \in MintTxs}
<1>3. PICK top : top = Max(MintHeights)
  OBVIOUS
<1>4. top \in 0..MaxTokenHeight
  <2>1. MintHeights \in SUBSET (0..MaxTokenHeight) /\ MintHeights # {}
    BY <1>1 DEF TokenTypeOK, MintBlock
  <2> HIDE DEF MintHeights
  <2>2. top \in MintHeights
    BY <1>2, <1>3, <2>1, MaxIsGreatest
  <2>3. QED
    BY <2>1, <2>2
<1>5. /\ minted' = [x \in MintTxs |-> IF x \in S THEN top + 1 ELSE minted[x]]
      /\ top < MaxTokenHeight
      /\ UNCHANGED <<tokens, tokenRun, tokenSent, cutTokens>>
  BY <1>3 DEF MintBlock
<1> HIDE DEF MintHeights
<1>6. TokenTypeOK'
  <2>1. top + 1 \in 0..MaxTokenHeight
    BY <1>2, <1>4, <1>5
  <2>2. minted' \in [MintTxs -> 0..MaxTokenHeight]
    BY <1>1, <1>5, <2>1 DEF TokenTypeOK
  <2>3. QED
    BY <1>1, <1>5, <2>2 DEF TokenTypeOK
<1>7. \A s \in Symbols : DocFits(s, tokens[s])'
  <2>1. ASSUME NEW s \in Symbols
        PROVE  DocFits(s, tokens[s])'
    <3>1. PICK d \in TokenDoc : d = tokens[s]
      BY <1>1 DEF TokenTypeOK
    <3>2. DocFits(s, d)'
      BY <1>1, <3>1, DocFitsBelow DEF TokenInv
    <3>3. QED
      BY <1>5, <3>1, <3>2 DEF DocFits
  <2>2. QED
    BY <2>1
<1>8. \A r \in Runs, s \in Symbols : DocFits(s, tokenRun[r].docs[s])'
  <2>1. ASSUME NEW r \in Runs, NEW s \in Symbols
        PROVE  DocFits(s, tokenRun[r].docs[s])'
    <3>1. PICK d \in TokenDoc : d = tokenRun[r].docs[s]
      BY <1>1 DEF TokenTypeOK
    <3>2. DocFits(s, d)
      BY <1>5, <2>1, <3>1 DEF TokenInv
    <3>3. DocFits(s, d)'
      BY <1>1, <3>2, DocFitsBelow
    <3>4. QED
      BY <1>5, <3>1, <3>3 DEF DocFits
  <2>2. QED
    BY <2>1
<1>9. \A w \in tokenSent : DocFits(w[1], w[2])'
  <2>1. ASSUME NEW w \in tokenSent
        PROVE  DocFits(w[1], w[2])'
    <3>1. w[2] \in TokenDoc
      BY <1>1 DEF TokenTypeOK
    <3>2. QED
      BY <1>1, <3>1, DocFitsBelow DEF TokenInv
  <2>2. QED
    BY <2>1
<1>10. QED
  BY <1>5, <1>6, <1>7, <1>8, <1>9 DEF TokenInv

(* The steps that leave the chain alone: what is written fits already. *)
LEMMA TokenStepKeeps ==
    ASSUME TokenInv, TokenTypeOK', minted' = minted, cutTokens \subseteq cutTokens',
           \A s \in Symbols : tokens'[s] # tokens[s] => DocFits(s, tokens'[s]),
           \A r \in Runs, s \in Symbols :
               DocFits(s, tokenRun[r].docs[s])' \/ DocFits(s, tokenRun'[r].docs[s]),
           \A w \in tokenSent' : DocFits(w[1], w[2])
    PROVE  TokenInv'
<1>1. ASSUME NEW s \in Symbols
      PROVE  DocFits(s, tokens[s])'
  <2>1. PICK d : d = tokens'[s]
    OBVIOUS
  <2>2. DocFits(s, d)
    BY <2>1 DEF TokenInv
  <2>3. DocFits(s, d)'
    BY <2>2, DocFitsKept
  <2>4. QED
    BY <2>1, <2>3 DEF DocFits
<1>2. ASSUME NEW r \in Runs, NEW s \in Symbols
      PROVE  DocFits(s, tokenRun[r].docs[s])'
  <2>1. PICK d : d = tokenRun'[r].docs[s]
    OBVIOUS
  <2>2. CASE DocFits(s, d)
    <3>1. DocFits(s, d)'
      BY <2>2, DocFitsKept
    <3>2. QED
      BY <2>1, <3>1 DEF DocFits
  <2>3. QED
    BY <2>1, <2>2
<1>3. ASSUME NEW w \in tokenSent'
      PROVE  DocFits(w[1], w[2])'
  BY DocFitsKept
<1>4. QED
  BY <1>1, <1>2, <1>3 DEF TokenInv

LEMMA QueryAllTokensKeeps ==
    ASSUME NEW r \in Runs, TokenInv, QueryAllTokens(r)
    PROVE  TokenInv'
<1>1. UNCHANGED <<minted, tokens, tokenSent, cutTokens>>
  BY DEF QueryAllTokens
<1>2. PICK run : run = [at |-> "fold", todo |-> Symbols, docs |-> tokens]
  OBVIOUS
<1>3. tokenRun' = [tokenRun EXCEPT ![r] = run]
  BY <1>2 DEF QueryAllTokens
<1>4. TokenTypeOK'
  BY <1>1, <1>2, <1>3 DEF TokenInv, TokenTypeOK
<1>5. \A q \in Runs, s \in Symbols : DocFits(s, tokenRun'[q].docs[s])
  BY <1>2, <1>3 DEF TokenInv, TokenTypeOK
<1>6. QED
  BY <1>1, <1>4, <1>5, TokenStepKeeps DEF TokenInv

LEMMA QueryTxBySymbolKeeps ==
    ASSUME NEW r \in Runs, NEW s \in Symbols, TokenInv, QueryTxBySymbol(r, s)
    PROVE  TokenInv'
<1>1. TokenTypeOK
  BY DEF TokenInv
<1>2. PICK d \in TokenDoc : d = tokenRun[r].docs[s]
  BY <1>1 DEF TokenTypeOK
<1>3. PICK found : found = TxBySymbol(s, d.height)
  OBVIOUS
<1>4. PICK B \in Smallest(found, minted, TokenLimit) :
          /\ tokenRun' = [tokenRun EXCEPT ![r] =
                 [at |-> "fold", todo |-> tokenRun[r].todo \ {s},
                  docs |-> [tokenRun[r].docs EXCEPT ![s] = FoldedToken(d, B)]]]
          /\ cutTokens' = IF CutOff(found, B, minted) = {} THEN cutTokens
                          ELSE cutTokens \cup {s}
  BY <1>2, <1>3 DEF QueryTxBySymbol
<1>5. UNCHANGED <<minted, tokens, tokenSent>> /\ cutTokens \subseteq cutTokens'
  BY <1>4 DEF QueryTxBySymbol
<1>6. PICK e : e = FoldedToken(d, B)
  OBVIOUS
<1>7. e \in TokenDoc /\ DocFits(s, e)'
  <2>1. DocFits(s, d)
    BY <1>2 DEF TokenInv
  <2>2. /\ e \in TokenDoc
        /\ Clean(s) /\ CutOff(found, B, minted) = {} => e.supply = SupplyAt(s, e.height)
        /\ \A h \in TokenHeights : (\A x \in MintTxs : minted[x] <= h) => e.height <= h
    BY <1>1, <1>3, <1>4, <1>6, <2>1, FoldFits
  <2>3. Clean(s)' => Clean(s) /\ CutOff(found, B, minted) = {}
    BY <1>4 DEF Clean, Tangled
  <2>4. SupplyAt(s, e.height)' = SupplyAt(s, e.height)
    BY <1>5 DEF SupplyAt
  <2>5. QED
    BY <1>5, <2>2, <2>3, <2>4 DEF DocFits
<1>8. PICK docs \in [Symbols -> TokenDoc] : docs = [tokenRun[r].docs EXCEPT ![s] = e]
  BY <1>1, <1>7 DEF TokenTypeOK
<1>9. PICK left \in SUBSET Symbols : left = tokenRun[r].todo \ {s}
  BY <1>1 DEF TokenTypeOK
<1>10. tokenRun' = [tokenRun EXCEPT ![r] = [at |-> "fold", todo |-> left, docs |-> docs]]
  BY <1>4, <1>6, <1>8, <1>9
<1>11. TokenTypeOK'
  <2>1. tokenRun' \in [Runs -> [at : {"idle", "fold"}, todo : SUBSET Symbols,
                                docs : [Symbols -> TokenDoc]]]
    BY <1>1, <1>8, <1>9, <1>10 DEF TokenTypeOK
  <2>2. cutTokens' \subseteq Symbols
    BY <1>1, <1>4 DEF TokenTypeOK
  <2>3. QED
    BY <1>1, <1>5, <2>1, <2>2 DEF TokenTypeOK
<1>12. ASSUME NEW q \in Runs, NEW u \in Symbols
       PROVE  DocFits(u, tokenRun[q].docs[u])' \/ DocFits(u, tokenRun'[q].docs[u])
  <2>1. CASE q = r /\ u = s
    <3>1. tokenRun'[q].docs[u] = e
      BY <1>1, <1>8, <1>10, <2>1 DEF TokenTypeOK
    <3>2. QED
      BY <1>7, <2>1, <3>1 DEF DocFits
  <2>2. CASE ~(q = r /\ u = s)
    <3>1. tokenRun'[q].docs[u] = tokenRun[q].docs[u]
      BY <1>1, <1>8, <1>10, <2>2 DEF TokenTypeOK
    <3>2. QED
      BY <3>1 DEF TokenInv
  <2>3. QED
    BY <2>1, <2>2
<1>13. QED
  BY <1>5, <1>11, <1>12, TokenStepKeeps DEF TokenInv

LEMMA InsertTokensKeeps ==
    ASSUME NEW r \in Runs, TokenInv, InsertTokens(r)
    PROVE  TokenInv'
<1>1. UNCHANGED <<minted, tokens, cutTokens>> /\ TokenTypeOK
  BY DEF InsertTokens, TokenInv
<1>2. /\ tokenSent' = tokenSent \cup {<<s, tokenRun[r].docs[s]>> : s \in Symbols}
      /\ tokenRun' = [tokenRun EXCEPT ![r] = TokenIdle]
  BY DEF InsertTokens
<1>3. TokenIdle \in [at : {"idle", "fold"}, todo : SUBSET Symbols, docs : [Symbols -> TokenDoc]]
  BY <1>1, NoMintFits DEF TokenIdle, TokenTypeOK, TokenHeights
<1>4. \A w \in tokenSent' : DocFits(w[1], w[2]) /\ w \in Symbols \X TokenDoc
  <2>1. ASSUME NEW s \in Symbols
        PROVE  DocFits(s, tokenRun[r].docs[s]) /\ tokenRun[r].docs[s] \in TokenDoc
    BY <1>1 DEF TokenInv, TokenTypeOK
  <2>2. ASSUME NEW w \in tokenSent
        PROVE  DocFits(w[1], w[2]) /\ w \in Symbols \X TokenDoc
    BY <1>1 DEF TokenInv, TokenTypeOK
  <2>3. QED
    BY <1>2, <2>1, <2>2
<1>5. TokenTypeOK'
  BY <1>1, <1>2, <1>3, <1>4 DEF TokenTypeOK
<1>6. ASSUME NEW q \in Runs, NEW s \in Symbols
      PROVE  DocFits(s, tokenRun'[q].docs[s])
  BY <1>1, <1>2, NoMintFits DEF TokenInv, TokenTypeOK, TokenIdle, TokenHeights
<1>7. QED
  BY <1>1, <1>4, <1>5, <1>6, TokenStepKeeps

LEMMA TokenRunThrowsKeeps ==
    ASSUME NEW r \in Runs, TokenInv, TokenRunThrows(r)
    PROVE  TokenInv'
<1>1. /\ UNCHANGED <<minted, tokens, tokenSent, cutTokens>>
      /\ tokenRun' = [tokenRun EXCEPT ![r] = TokenIdle]
      /\ TokenTypeOK
  BY DEF TokenRunThrows, TokenInv
<1>2. TokenIdle \in [at : {"idle", "fold"}, todo : SUBSET Symbols, docs : [Symbols -> TokenDoc]]
  BY <1>1, NoMintFits DEF TokenIdle, TokenTypeOK, TokenHeights
<1>3. TokenTypeOK'
  BY <1>1, <1>2 DEF TokenTypeOK
<1>4. ASSUME NEW q \in Runs, NEW s \in Symbols
      PROVE  DocFits(s, tokenRun'[q].docs[s])
  BY <1>1, NoMintFits DEF TokenInv, TokenTypeOK, TokenIdle, TokenHeights
<1>5. QED
  BY <1>1, <1>3, <1>4, TokenStepKeeps DEF TokenInv

LEMMA TokenWriteKeeps ==
    ASSUME NEW w \in tokenSent, TokenInv, TokenLands(w) \/ TokenLost(w)
    PROVE  TokenInv'
<1>1. TokenTypeOK /\ w[1] \in Symbols /\ w[2] \in TokenDoc /\ DocFits(w[1], w[2])
  BY DEF TokenInv, TokenTypeOK
<1>2. UNCHANGED <<minted, tokenRun, cutTokens>> /\ tokenSent' \subseteq tokenSent
  BY DEF TokenLands, TokenLost
<1>3. tokens' = tokens \/ tokens' = [tokens EXCEPT ![w[1]] = w[2]]
  BY DEF TokenLands, TokenLost
<1>4. TokenTypeOK'
  BY <1>1, <1>2, <1>3 DEF TokenTypeOK
<1>5. ASSUME NEW s \in Symbols, tokens'[s] # tokens[s]
      PROVE  DocFits(s, tokens'[s])
  <2>1. s = w[1] /\ tokens'[s] = w[2]
    BY <1>1, <1>3, <1>5 DEF TokenTypeOK
  <2>2. QED
    BY <1>1, <2>1
<1>6. \A q \in Runs, s \in Symbols : DocFits(s, tokenRun'[q].docs[s])
  BY <1>2 DEF TokenInv
<1>7. \A v \in tokenSent' : DocFits(v[1], v[2])
  BY <1>2 DEF TokenInv
<1>8. QED
  BY <1>2, <1>4, <1>5, <1>6, <1>7, TokenStepKeeps

-----------------------------------------------------------------------------
LEMMA TokenStepInv == TokenInv /\ [TokenNext]_tokenVars => TokenInv'
<1>1. SUFFICES ASSUME TokenInv, [TokenNext]_tokenVars
               PROVE  TokenInv'
  OBVIOUS
<1>2. CASE \E S \in SUBSET MintTxs : MintBlock(S)
  BY <1>1, <1>2, MintBlockKeeps
<1>3. ASSUME NEW r \in Runs, TokenRunStep(r) \/ TokenRunThrows(r)
      PROVE  TokenInv'
  BY <1>1, <1>3, QueryAllTokensKeeps, QueryTxBySymbolKeeps, InsertTokensKeeps,
     TokenRunThrowsKeeps DEF TokenRunStep
<1>4. CASE \E w \in tokenSent : TokenLands(w) \/ TokenLost(w)
  BY <1>1, <1>4, TokenWriteKeeps
<1>5. CASE UNCHANGED tokenVars
  <2>1. UNCHANGED tokenVars /\ TokenTypeOK'
    BY <1>1, <1>5 DEF tokenVars, TokenInv, TokenTypeOK
  <2>2. QED
    BY <1>1, <2>1, TokenStepKeeps DEF tokenVars, TokenInv
<1>6. QED
  BY <1>1, <1>2, <1>3, <1>4, <1>5 DEF TokenNext

(* The documents of the tokens: a supply is what all the mints and burns   *)
(* up to the height beside it make of it, whatever runs overlap and in     *)
(* whatever order their documents land (TokensTaskService.doTask).         *)
THEOREM SuppliesAreRight == TokenSpec => [](TokenTypeOK /\ SupplyMatchesHeight)
<1>1. TokenInit /\ faults = 0 => TokenInv
  BY TokenStarts
<1>2. [TokenNext]_<<tokenVars, faults>> => [TokenNext]_tokenVars
  OBVIOUS
<1>3. TokenInv => TokenTypeOK /\ SupplyMatchesHeight
  BY DEF TokenInv, DocFits, Clean, SupplyMatchesHeight
<1>4. QED
  BY <1>1, <1>2, <1>3, TokenStepInv, PTL DEF TokenSpec

(***************************************************************************)
(* AccountInfo.                                                            *)
(***************************************************************************)
InfoRuns == [at : {"idle", "next"} \cup Accounts, todo : SUBSET Accounts,
             kept : SUBSET Operators, sum : Int, page : Nat \ {0},
             open : SUBSET Paged, moved : BOOLEAN]

(* All places of an account. *)
AllOf(h) == h["balance"] + h["rewards"] + h["commission"] + h["delegations"]
            + h["unbondings"] + h["more"]

(* What a run has counted of a list: an open one up to the present page. *)
SeenOf(run, h, p) == IF p \in run.open THEN run.page - 1 ELSE h[p]

(* A run that nothing disturbed has counted the balance, the rewards, the  *)
(* commission, and the pages of both lists it has seen.                    *)
CountsFor(run, h, a) ==
    /\ a \notin Operators \ run.kept
    /\ \A p \in run.open : h[p] >= run.page - 1
    /\ run.sum = h["balance"] + h["rewards"] + h["commission"]
                 + SeenOf(run, h, "delegations") + SeenOf(run, h, "unbondings")

InfoInv ==
    /\ holds \in [Accounts -> [Places -> Nat]]
    /\ totals \in [Accounts -> Int] /\ listed \subseteq Operators
    /\ \A a \in Accounts : /\ AllOf(holds[a]) = Worth
                           /\ a \notin Operators => holds[a]["commission"] = 0
    /\ infoRun \in InfoRuns
    /\ infoRun.at \in Accounts /\ ~infoRun.moved =>
           CountsFor(infoRun, holds[infoRun.at], infoRun.at)
    /\ TotalIsTrue

-----------------------------------------------------------------------------
LEMMA InfoStarts == InfoInit => InfoInv
<1>1. SUFFICES ASSUME InfoInit
               PROVE  InfoInv
  OBVIOUS
<1>2. Worth \in Nat /\ Worth >= 2
  BY AccountInfoSettings
<1>3. PICK first : first = [a \in Accounts |-> [p \in Places |->
           CASE p = "rewards" -> 1
             [] p = "commission" -> IF a \in Operators THEN 1 ELSE 0
             [] p = "balance" -> IF a \in Operators THEN Worth - 2 ELSE Worth - 1
             [] OTHER -> 0]]
  OBVIOUS
<1>4. ASSUME NEW a \in Accounts
      PROVE  /\ first[a] \in [Places -> Nat]
             /\ AllOf(first[a]) = Worth
             /\ a \notin Operators => first[a]["commission"] = 0
  <2>1. ASSUME NEW p \in Places
        PROVE  first[a][p] \in Nat
    BY <1>2, <1>3 DEF Places
  <2>2. first[a] = [p \in Places |-> first[a][p]]
    BY <1>3
  <2>3. /\ first[a]["rewards"] = 1
        /\ first[a]["commission"] = IF a \in Operators THEN 1 ELSE 0
        /\ first[a]["balance"] = IF a \in Operators THEN Worth - 2 ELSE Worth - 1
        /\ first[a]["delegations"] = 0
        /\ first[a]["unbondings"] = 0
        /\ first[a]["more"] = 0
    BY <1>3 DEF Places
  <2>4. AllOf(first[a]) = Worth
    BY <1>2, <2>3 DEF AllOf
  <2>5. QED
    BY <2>1, <2>2, <2>3, <2>4
<1>5. holds = first
  BY <1>1, <1>3 DEF InfoInit
<1>6. first \in [Accounts -> [Places -> Nat]]
  BY <1>3, <1>4
<1>7. infoRun \in InfoRuns /\ infoRun.at \notin Accounts
  BY <1>1, AccountInfoSettings DEF InfoInit, InfoIdle, InfoRuns
<1>8. totals \in [Accounts -> Int] /\ listed \subseteq Operators /\ TotalIsTrue
  BY <1>1 DEF InfoInit, TotalIsTrue, NoTotal
<1>9. QED
  BY <1>4, <1>5, <1>6, <1>7, <1>8 DEF InfoInv

(* What moves does not change what an account is worth. *)
LEMMA TransferKeeps ==
    ASSUME NEW a \in Accounts, NEW src \in Places, NEW dst \in Places,
           InfoInv, Transfer(a, src, dst)
    PROVE  InfoInv'
<1>1. PICK h \in [Places -> Nat] : h = holds[a]
  BY DEF InfoInv
<1>2. /\ src # dst /\ dst # "commission" /\ h[src] > 0
      /\ <<src, dst>> \in Moves
  BY <1>1 DEF Transfer, Moves
<1>3. PICK g : g = [h EXCEPT ![src] = @ - 1, ![dst] = @ + 1]
  OBVIOUS
<1>4. \A p \in Places : g[p] = IF p = src THEN h[p] - 1 ELSE IF p = dst THEN h[p] + 1 ELSE h[p]
  BY <1>2, <1>3
<1>5. g \in [Places -> Nat]
  BY <1>2, <1>3
<1>6. AllOf(g) = AllOf(h)
  <2>1. {"balance", "rewards", "commission", "delegations", "unbondings", "more"} \subseteq Places
    BY DEF Places
  <2>2. CASE src = "balance" /\ dst = "delegations"
    BY <1>4, <2>1, <2>2 DEF AllOf
  <2>3. CASE src = "delegations" /\ dst = "unbondings"
    BY <1>4, <2>1, <2>3 DEF AllOf
  <2>4. CASE src = "delegations" /\ dst = "more"
    BY <1>4, <2>1, <2>4 DEF AllOf
  <2>5. CASE src = "unbondings" /\ dst = "balance"
    BY <1>4, <2>1, <2>5 DEF AllOf
  <2>6. CASE src = "rewards" /\ dst = "balance"
    BY <1>4, <2>1, <2>6 DEF AllOf
  <2>7. CASE src = "commission" /\ dst = "balance"
    BY <1>4, <2>1, <2>7 DEF AllOf
  <2>8. QED
    BY <1>2, <2>2, <2>3, <2>4, <2>5, <2>6, <2>7 DEF Moves
<1>7. holds' = [holds EXCEPT ![a] = g]
  BY <1>1, <1>3 DEF Transfer, InfoInv
<1>8. holds' \in [Accounts -> [Places -> Nat]]
  BY <1>5, <1>7 DEF InfoInv
<1>9. ASSUME NEW b \in Accounts
      PROVE  AllOf(holds'[b]) = Worth /\ (b \notin Operators => holds'[b]["commission"] = 0)
  <2>1. CASE b = a
    <3>1. holds'[b] = g
      BY <1>7, <2>1 DEF InfoInv
    <3>2. AllOf(h) = Worth /\ (a \notin Operators => h["commission"] = 0)
      BY <1>1 DEF InfoInv
    <3>3. a \notin Operators => g["commission"] = 0
      <4>1. "commission" \in Places
        BY DEF Places
      <4>2. QED
        BY <1>2, <1>4, <3>2, <4>1
    <3>4. QED
      BY <1>6, <2>1, <3>1, <3>2, <3>3
  <2>2. CASE b # a
    BY <1>7, <2>2 DEF InfoInv
  <2>3. QED
    BY <2>1, <2>2
<1>10. infoRun' \in InfoRuns /\ infoRun'.at = infoRun.at
  BY DEF Transfer, InfoInv, InfoRuns
<1>11. ASSUME infoRun'.at \in Accounts, ~infoRun'.moved
       PROVE  CountsFor(infoRun', holds'[infoRun'.at], infoRun'.at)
  <2>1. infoRun.at # a /\ infoRun' = infoRun
    BY <1>11 DEF Transfer, InfoInv, InfoRuns
  <2>2. holds'[infoRun.at] = holds[infoRun.at]
    BY <1>7, <1>11, <2>1 DEF InfoInv
  <2>3. QED
    BY <1>11, <2>1, <2>2 DEF InfoInv
<1>12. TotalIsTrue' /\ totals' = totals /\ listed' = listed
  BY DEF Transfer, InfoInv, TotalIsTrue
<1>13. QED
  BY <1>8, <1>9, <1>10, <1>11, <1>12 DEF InfoInv

(* What the first answers add up to. *)
LEMMA BalancesAre ==
    ASSUME NEW a \in Accounts, InfoInv, a \notin Operators \ infoRun.kept
    PROVE  SumOver(a, Counted(a)) =
               holds[a]["balance"] + holds[a]["rewards"] + holds[a]["commission"]
<1>1. PICK h \in [Places -> Nat] : h = holds[a]
  BY DEF InfoInv
<1>2. {"balance", "rewards", "commission"} \subseteq Places
  BY DEF Places
<1> DEFINE two == {"balance", "rewards"}
<1>3. Sum(h, {"balance", "rewards"}) = h["balance"] + h["rewards"]
  BY <1>2, SumOfTwo
<1>4. CASE a \in infoRun.kept
  <2>1. Counted(a) = {"balance", "rewards"} \cup {"commission"}
    BY <1>4 DEF Counted
  <2>2. Sum(h, {"balance", "rewards"} \cup {"commission"}) =
            Sum(h, {"balance", "rewards"}) + h["commission"]
    BY <1>2, SumOfThree
  <2>3. QED
    BY <1>1, <1>3, <2>1, <2>2 DEF SumOver, Sum
<1>5. CASE a \notin infoRun.kept
  <2>1. Counted(a) = {"balance", "rewards"} /\ h["commission"] = 0
    BY <1>1, <1>5 DEF Counted, InfoInv
  <2>2. h["balance"] \in Int /\ h["rewards"] \in Int
    BY <1>2
  <2>3. QED
    BY <1>1, <1>3, <2>1, <2>2 DEF SumOver, Sum
<1>6. QED
  BY <1>4, <1>5

(* Steps of the run: it is a run still, and counts right if undisturbed.   *)
LEMMA InfoRunKeeps ==
    ASSUME InfoInv, infoRun' \in InfoRuns, UNCHANGED <<holds, totals, doubtful>>,
           listed' \subseteq Operators,
           infoRun'.at \in Accounts /\ ~infoRun'.moved =>
               CountsFor(infoRun', holds[infoRun'.at], infoRun'.at)
    PROVE  InfoInv'
BY DEF InfoInv, TotalIsTrue, NoTotal

LEMMA QueryBalancesKeeps ==
    ASSUME NEW a \in Accounts, InfoInv, QueryBalances(a)
    PROVE  InfoInv'
<1>1. PICK h \in [Places -> Nat] : h = holds[a]
  BY DEF InfoInv
<1>2. infoRun \in InfoRuns
  BY DEF InfoInv
<1>3. PICK sum : sum = SumOver(a, Counted(a))
  OBVIOUS
<1>4. sum \in Int
  <2>1. Counted(a) \in SUBSET {"balance", "rewards", "commission"}
    BY DEF Counted
  <2>2. PICK S : S = Counted(a)
    OBVIOUS
  <2>3. IsFiniteSet({"balance", "rewards", "commission"})
    <3>1. IsFiniteSet({"balance"}) /\ IsFiniteSet({"rewards"}) /\ IsFiniteSet({"commission"})
      BY FS_Singleton
    <3>2. IsFiniteSet(({"balance"} \cup {"rewards"}) \cup {"commission"})
      BY <3>1, FS_Union
    <3>3. ({"balance"} \cup {"rewards"}) \cup {"commission"} = {"balance", "rewards", "commission"}
      OBVIOUS
    <3>4. QED
      BY <3>2, <3>3
  <2>4. IsFiniteSet(S) /\ S \in SUBSET Places
    BY <2>1, <2>2, <2>3, FS_Subset DEF Places
  <2>5. Sum(h, S) \in Int
    BY <2>4, SumType
  <2>6. QED
    BY <1>1, <1>3, <2>2, <2>5 DEF SumOver, Sum
<1>5. PICK run : run = [infoRun EXCEPT
           !.at = a, !.todo = @ \ {a}, !.page = 1, !.open = Paged,
           !.moved = a \in Operators \ infoRun.kept, !.sum = sum]
  OBVIOUS
<1>6. infoRun' = run /\ UNCHANGED <<holds, totals, doubtful>> /\ listed' \subseteq Operators
  BY <1>3, <1>5 DEF QueryBalances, InfoInv
<1>7. run = [at |-> a, todo |-> infoRun.todo \ {a}, kept |-> infoRun.kept, sum |-> sum,
             page |-> 1, open |-> Paged, moved |-> (a \in Operators \ infoRun.kept)]
  BY <1>2, <1>5 DEF InfoRuns
<1>8. run \in InfoRuns
  <2>1. (a \in Operators \ infoRun.kept) \in BOOLEAN
    OBVIOUS
  <2>2. QED
    BY <1>2, <1>4, <1>7, <2>1 DEF InfoRuns
<1>9. ASSUME ~run.moved
      PROVE  CountsFor(run, h, a)
  <2>1. a \notin Operators \ infoRun.kept
    BY <1>7, <1>9
  <2>2. sum = h["balance"] + h["rewards"] + h["commission"]
    BY <1>1, <1>3, <2>1, BalancesAre
  <2>3. SeenOf(run, h, "delegations") = 0 /\ SeenOf(run, h, "unbondings") = 0
    BY <1>7 DEF SeenOf, Paged
  <2>4. \A p \in run.open : h[p] >= run.page - 1
    BY <1>7 DEF Paged, Places
  <2>5. h["balance"] \in Nat /\ h["rewards"] \in Nat /\ h["commission"] \in Nat
    BY DEF Places
  <2>6. QED
    BY <1>7, <2>1, <2>2, <2>3, <2>4, <2>5 DEF CountsFor
<1>10. run.at = a
  BY <1>7
<1>11. QED
  BY <1>1, <1>6, <1>8, <1>9, <1>10, InfoRunKeeps

(* A page has a row of each list that is open and long enough. *)
LEMMA RowsOfPages ==
    ASSUME NEW rows \in SUBSET Paged
    PROVE  Cardinality(rows) = (IF "delegations" \in rows THEN 1 ELSE 0)
                               + (IF "unbondings" \in rows THEN 1 ELSE 0)
<1>1. rows \in SUBSET {"delegations", "unbondings"}
  BY DEF Paged
<1>2. CASE rows = {}
  BY <1>2, FS_EmptySet
<1>3. CASE rows = {"delegations"}
  <2>1. Cardinality(rows) = 1
    BY <1>3, FS_Singleton
  <2>2. QED
    BY <1>3, <2>1
<1>4. CASE rows = {"unbondings"}
  <2>1. Cardinality(rows) = 1
    BY <1>4, FS_Singleton
  <2>2. QED
    BY <1>4, <2>1
<1>5. CASE rows = {"delegations", "unbondings"}
  <2>1. IsFiniteSet({"delegations"}) /\ Cardinality({"delegations"}) = 1
    BY FS_Singleton
  <2>2. Cardinality({"delegations"} \cup {"unbondings"}) = 2
    BY <2>1, FS_AddElement
  <2>3. {"delegations"} \cup {"unbondings"} = rows
    BY <1>5
  <2>4. QED
    BY <1>5, <2>2, <2>3
<1>6. QED
  BY <1>1, <1>2, <1>3, <1>4, <1>5

(* A page of each open list. *)
LEMMA QueryPagesKeeps ==
    ASSUME NEW a \in Accounts, InfoInv, QueryPages(a)
    PROVE  InfoInv'
<1>1. PICK h \in [Places -> Nat] : h = holds[a]
  BY DEF InfoInv
<1>2. infoRun \in InfoRuns /\ infoRun.at = a
  BY DEF InfoInv, QueryPages
<1>3. PICK rows : rows = {p \in infoRun.open : h[p] >= infoRun.page}
  OBVIOUS
<1>4. PICK more : more = {p \in infoRun.open : h[p] > infoRun.page}
  OBVIOUS
<1> DEFINE One(p) == IF p \in rows THEN 1 ELSE 0
<1>5. Cardinality(rows) = One("delegations") + One("unbondings")
  <2>1. rows \in SUBSET Paged
    BY <1>2, <1>3 DEF InfoRuns
  <2>2. QED
    BY <2>1, RowsOfPages
<1>6. PICK k \in Int : k = Cardinality(rows)
  BY <1>5
<1>7. PICK run : run = [infoRun EXCEPT !.page = @ + 1, !.open = more, !.sum = @ + k]
  OBVIOUS
<1>8. infoRun' = run /\ UNCHANGED <<holds, totals, doubtful>> /\ listed' \subseteq Operators
  BY <1>1, <1>3, <1>4, <1>6, <1>7 DEF QueryPages, StillOpen, InfoInv
<1>9. /\ run.at = a /\ run.kept = infoRun.kept /\ run.moved = infoRun.moved
      /\ run.page = infoRun.page + 1 /\ run.open = more /\ run.sum = infoRun.sum + k
  BY <1>2, <1>7 DEF InfoRuns
<1>10. run \in InfoRuns
  <2>1. run = [at |-> infoRun.at, todo |-> infoRun.todo, kept |-> infoRun.kept,
               sum |-> infoRun.sum + k, page |-> infoRun.page + 1, open |-> more,
               moved |-> infoRun.moved]
    BY <1>2, <1>7 DEF InfoRuns
  <2>2. /\ infoRun.sum + k \in Int /\ infoRun.page + 1 \in Nat \ {0}
        /\ more \in SUBSET Paged
    BY <1>2, <1>4, <1>6 DEF InfoRuns
  <2>3. QED
    BY <1>2, <2>1, <2>2 DEF InfoRuns
<1>11. ASSUME ~run.moved
       PROVE  CountsFor(run, h, a)
  <2>1. CountsFor(infoRun, h, a)
    BY <1>1, <1>2, <1>9, <1>11 DEF InfoInv
  <2>2. PICK n \in Nat \ {0} : n = infoRun.page
    BY <1>2 DEF InfoRuns
  <2>3. ASSUME NEW p \in Paged
        PROVE  /\ SeenOf(run, h, p) = SeenOf(infoRun, h, p) + One(p)
               /\ SeenOf(infoRun, h, p) \in Int
    <3>1. h[p] \in Nat
      BY <2>3 DEF Paged, Places
    <3>2. CASE p \notin infoRun.open
      BY <1>3, <1>4, <1>9, <3>1, <3>2 DEF SeenOf
    <3>3. CASE p \in infoRun.open /\ h[p] > n
      <4>1. p \in rows /\ p \in more
        BY <1>3, <1>4, <2>2, <3>1, <3>3
      <4>2. QED
        BY <1>9, <2>2, <3>3, <4>1 DEF SeenOf
    <3>4. CASE p \in infoRun.open /\ ~(h[p] > n)
      <4>1. p \notin more /\ h[p] >= n - 1
        BY <1>4, <2>1, <2>2, <3>4 DEF CountsFor
      <4>2. p \in rows <=> h[p] >= n
        BY <1>3, <2>2, <3>4
      <4>3. h[p] = n - 1 \/ h[p] = n
        BY <3>1, <3>4, <4>1
      <4>4. SeenOf(run, h, p) = h[p] /\ SeenOf(infoRun, h, p) = n - 1
        BY <1>9, <2>2, <3>4, <4>1 DEF SeenOf
      <4>5. QED
        BY <4>2, <4>3, <4>4
    <3>5. QED
      BY <3>2, <3>3, <3>4
  <2>4. \A p \in run.open : h[p] >= run.page - 1
    <3>1. ASSUME NEW p \in more
          PROVE  h[p] >= (n + 1) - 1
      <4>1. h[p] \in Nat /\ h[p] > n
        BY <1>2, <1>4, <2>2 DEF InfoRuns, Paged, Places
      <4>2. QED
        BY <4>1
    <3>2. QED
      BY <1>9, <2>2, <3>1
  <2>5. "delegations" \in Paged /\ "unbondings" \in Paged
    BY DEF Paged
  <2>6. PICK d \in Int, u \in Int : /\ d = SeenOf(infoRun, h, "delegations")
                                    /\ u = SeenOf(infoRun, h, "unbondings")
    BY <2>3, <2>5
  <2>7. /\ SeenOf(run, h, "delegations") = d + One("delegations")
        /\ SeenOf(run, h, "unbondings") = u + One("unbondings")
    BY <2>3, <2>5, <2>6
  <2>8. PICK base \in Int : base = h["balance"] + h["rewards"] + h["commission"]
    BY DEF Places
  <2>9. infoRun.sum = base + d + u
    BY <2>1, <2>6, <2>8 DEF CountsFor
  <2>10. One("delegations") \in Int /\ One("unbondings") \in Int
    OBVIOUS
  <2> HIDE DEF One
  <2>11. run.sum = base + (d + One("delegations")) + (u + One("unbondings"))
    BY <1>5, <1>6, <1>9, <2>9, <2>10
  <2>12. QED
    BY <1>9, <2>1, <2>4, <2>7, <2>8, <2>11 DEF CountsFor
<1>12. QED
  BY <1>1, <1>8, <1>9, <1>10, <1>11, InfoRunKeeps

LEMMA UpdateAccountKeeps ==
    ASSUME NEW a \in Accounts, InfoInv, UpdateAccount(a)
    PROVE  InfoInv'
<1>1. PICK h \in [Places -> Nat] : h = holds[a]
  BY DEF InfoInv
<1>2. infoRun \in InfoRuns /\ infoRun.at = a /\ infoRun.open = {}
  BY DEF InfoInv, UpdateAccount
<1>3. /\ totals' = [totals EXCEPT ![a] = infoRun.sum]
      /\ doubtful' = IF infoRun.moved \/ h["more"] > 0
                     THEN doubtful \cup {a} ELSE doubtful \ {a}
      /\ holds' = holds
  BY <1>1 DEF UpdateAccount
<1>4. totals \in [Accounts -> Int] /\ totals' \in [Accounts -> Int]
  BY <1>2, <1>3 DEF InfoInv, InfoRuns
<1>5. ASSUME ~infoRun.moved, ~(h["more"] > 0)
      PROVE  infoRun.sum = Worth
  <2>1. /\ SeenOf(infoRun, h, "delegations") = h["delegations"]
        /\ SeenOf(infoRun, h, "unbondings") = h["unbondings"]
    BY <1>2 DEF SeenOf
  <2>2. CountsFor(infoRun, h, a) /\ AllOf(h) = Worth
    BY <1>1, <1>2, <1>5 DEF InfoInv
  <2>3. \A p \in Places : h[p] \in Nat
    OBVIOUS
  <2>4. h["more"] = 0
    BY <1>5, <2>3 DEF Places
  <2>5. QED
    BY <2>1, <2>2, <2>3, <2>4 DEF CountsFor, AllOf, Places
<1>6. TotalIsTrue'
  <2>1. ASSUME NEW b \in Accounts \ doubtful'
        PROVE  totals'[b] \in {NoTotal, Worth}
    <3>1. CASE b = a
      <4>1. ~infoRun.moved /\ ~(h["more"] > 0)
        BY <1>3, <2>1, <3>1
      <4>2. QED
        BY <1>3, <1>4, <1>5, <3>1, <4>1
    <3>2. CASE b # a
      <4>1. b \notin doubtful
        BY <1>3, <2>1, <3>2
      <4>2. QED
        BY <1>3, <1>4, <3>2, <4>1 DEF InfoInv, TotalIsTrue
    <3>3. QED
      BY <3>1, <3>2
  <2>2. QED
    BY <2>1 DEF TotalIsTrue, NoTotal
<1>7. infoRun' \in InfoRuns /\ infoRun'.at \notin Accounts /\ listed' \subseteq Operators
  <2>1. infoRun' = [at |-> "next", todo |-> infoRun.todo, kept |-> infoRun.kept, sum |-> 0,
                    page |-> 1, open |-> infoRun.open, moved |-> FALSE]
    BY <1>2 DEF UpdateAccount, InfoRuns
  <2>2. listed' \subseteq Operators
    BY DEF UpdateAccount, InfoInv
  <2>3. infoRun' \in InfoRuns
    BY <1>2, <2>1 DEF InfoRuns
  <2>4. QED
    BY <2>1, <2>2, <2>3, AccountInfoSettings
<1>8. QED
  BY <1>3, <1>4, <1>6, <1>7 DEF InfoInv

LEMMA OtherInfoSteps ==
    ASSUME InfoInv, QueryAllAddress \/ InfoEnds \/ InfoThrows
                    \/ \E a \in Accounts : BalancesFail(a) \/ PagesFail(a) \/ ListOperator(a)
    PROVE  InfoInv'
<1>1. infoRun \in InfoRuns
  BY DEF InfoInv
<1>2. CASE QueryAllAddress
  <2>1. infoRun' = [at |-> "next", todo |-> Accounts, kept |-> listed, sum |-> 0,
                    page |-> 1, open |-> {}, moved |-> FALSE]
    BY <1>2 DEF QueryAllAddress, InfoIdle
  <2>2. infoRun' \in InfoRuns /\ infoRun'.at \notin Accounts
    BY <2>1, AccountInfoSettings DEF InfoRuns, InfoInv
  <2>3. QED
    BY <1>2, <2>2, InfoRunKeeps DEF QueryAllAddress, InfoInv
<1>3. CASE InfoEnds \/ InfoThrows
  <2>1. infoRun' = InfoIdle /\ InfoIdle \in InfoRuns /\ InfoIdle.at \notin Accounts
    BY <1>3, AccountInfoSettings DEF InfoEnds, InfoThrows, InfoIdle, InfoRuns
  <2>2. QED
    BY <1>3, <2>1, InfoRunKeeps DEF InfoEnds, InfoThrows, InfoInv
<1>4. ASSUME NEW a \in Accounts, BalancesFail(a)
      PROVE  InfoInv'
  <2>1. infoRun' \in InfoRuns /\ infoRun'.at \notin Accounts
    BY <1>1, <1>4, AccountInfoSettings DEF BalancesFail, InfoRuns
  <2>2. QED
    BY <1>4, <2>1, InfoRunKeeps DEF BalancesFail, InfoInv
<1>5. ASSUME NEW a \in Accounts, PagesFail(a)
      PROVE  InfoInv'
  <2>1. infoRun' \in InfoRuns /\ infoRun'.moved
    BY <1>1, <1>5 DEF PagesFail, InfoRuns
  <2>2. QED
    BY <1>5, <2>1, InfoRunKeeps DEF PagesFail, InfoInv
<1>6. ASSUME NEW a \in Accounts, ListOperator(a)
      PROVE  InfoInv'
  BY <1>6, InfoRunKeeps DEF ListOperator, InfoInv
<1>7. QED
  BY <1>2, <1>3, <1>4, <1>5, <1>6

-----------------------------------------------------------------------------
LEMMA InfoStepInv == InfoInv /\ [InfoNext]_infoVars => InfoInv'
<1>1. SUFFICES ASSUME InfoInv, [InfoNext]_infoVars
               PROVE  InfoInv'
  OBVIOUS
<1>2. ASSUME NEW a \in Accounts, NEW src \in Places, NEW dst \in Places,
             Transfer(a, src, dst)
      PROVE  InfoInv'
  BY <1>1, <1>2, TransferKeeps
<1>3. CASE InfoStep
  BY <1>1, <1>3, QueryBalancesKeeps, QueryPagesKeeps, UpdateAccountKeeps, OtherInfoSteps
     DEF InfoStep
<1>4. CASE InfoThrows \/ \E a \in Accounts : BalancesFail(a) \/ PagesFail(a) \/ ListOperator(a)
  BY <1>1, <1>4, OtherInfoSteps
<1>5. CASE UNCHANGED infoVars
  BY <1>1, <1>5 DEF infoVars, InfoInv, TotalIsTrue, NoTotal
<1>6. QED
  BY <1>1, <1>2, <1>3, <1>4, <1>5 DEF InfoNext

(* The total of an account is all it is worth (AccountInfoTaskService):    *)
(* what the pages of a run count that nothing disturbs is what the account *)
(* has in its places.                                                      *)
THEOREM TotalsAreTrue == InfoSpec => []TotalIsTrue
<1>1. InfoInit /\ faults = 0 => InfoInv
  BY InfoStarts
<1>2. [InfoNext]_<<infoVars, faults>> => [InfoNext]_infoVars
  OBVIOUS
<1>3. InfoInv => TotalIsTrue
  BY DEF InfoInv
<1>4. QED
  BY <1>1, <1>2, <1>3, InfoStepInv, PTL DEF InfoSpec

(***************************************************************************)
(* GovTally.                                                               *)
(***************************************************************************)
FirstOf(x) == votersOf[x][1]
Entries == [option : Options \cup {"none"}, own : Int, other : Int, isValidator : BOOLEAN]
TallyRuns == [at : {"idle", "votes", "voters"}, shares : [Vals -> Int],
              todo : SUBSET VoteTxs, info : [Delegators -> Entries],
              deducted : [Vals -> Int], total : Int, disturbed : BOOLEAN]

(* What a run knows of a voter it has counted, *)
EntryOf(x) == [option |-> optionOf[x], own |-> Power(FirstOf(x), Own(FirstOf(x))),
               other |-> Power(FirstOf(x), Vals \ Own(FirstOf(x))),
               isValidator |-> Own(FirstOf(x)) # {}]
(* and the voters it has counted. *)
CountedVoters(due) == {FirstOf(x) : x \in CastTxs \ due}

(* Each account leads one group of votes at most. *)
NoClash == \A g, h \in Groups : g[1] = h[1] => g = h

(* Then each of them is counted once. *)
EachOnce(run) ==
    /\ \A x, y \in run.todo : FirstOf(x) = FirstOf(y) => x = y
    /\ \A x \in run.todo : run.info[FirstOf(x)] = NoInfo
    /\ run.total = SumFunction([w \in Delegators |-> run.info[w].own + run.info[w].other])

(* What a run that nothing disturbs has counted of plain votes. *)
CountsRight(run) ==
    /\ \A x \in CastTxs \ run.todo : run.info[FirstOf(x)] = EntryOf(x)
    /\ \A w \in Delegators \ CountedVoters(run.todo) : run.info[w] = NoInfo
    /\ \A v \in Vals : run.deducted[v] = Delegated(stake, v, CountedVoters(run.todo))

Empty(run) ==
    /\ run.todo = {} /\ run.total = 0
    /\ \A w \in Delegators : run.info[w] = NoInfo
    /\ \A v \in Vals : run.deducted[v] = 0

RunIsRight(run) ==
    /\ run \in TallyRuns
    /\ \A w \in Delegators : run.info[w].option = "none" => run.info[w] = NoInfo
    /\ run.at # "voters" => Empty(run)
    /\ run.todo \subseteq CastTxs
    /\ NoClash => EachOnce(run)
    /\ run.at # "idle" /\ ~run.disturbed => run.shares = SharesOf(stake)
    /\ run.at = "voters" /\ ~run.disturbed /\ Plain => CountsRight(run)

TallyInv ==
    /\ stake \in [Delegators -> [Vals -> Nat]]
    /\ kept \in [Vals -> Int]
    /\ castAt \in [VoteTxs -> Nat]
    /\ RunIsRight(tally)

-----------------------------------------------------------------------------
LEMMA FirstIsDelegator ==
    ASSUME NEW x \in VoteTxs
    PROVE  FirstOf(x) \in Delegators /\ optionOf[x] \in Options
<1>1. votersOf[x] \in Seq(Delegators) /\ votersOf[x] # <<>> /\ optionOf[x] \in Options
  BY TallySettings
<1>2. QED
  BY <1>1 DEF FirstOf

LEMMA PowerType ==
    ASSUME stake \in [Delegators -> [Vals -> Nat]], NEW w \in Delegators, NEW S \in SUBSET Vals
    PROVE  /\ Power(w, S) \in Int
           /\ Power(w, Vals) = Power(w, S) + Power(w, Vals \ S)
<1>1. PICK s \in [Vals -> Nat] : s = stake[w]
  OBVIOUS
<1>2. PICK R : R = Vals \ S
  OBVIOUS
<1>3. IsFiniteSet(S) /\ IsFiniteSet(R) /\ S \cap R = {} /\ S \cup R = Vals
  BY <1>2, TallySettings, FS_Subset
<1>4. Sum(s, S \cup R) = Sum(s, S) + Sum(s, R) /\ Sum(s, S) \in Int
  BY <1>2, <1>3, SumOfUnion, SumType
<1>5. QED
  BY <1>1, <1>2, <1>3, <1>4 DEF Power, Sum

LEMMA DelegatedType ==
    ASSUME NEW s \in [Delegators -> [Vals -> Nat]], NEW v \in Vals, NEW W \in SUBSET Delegators
    PROVE  /\ Delegated(s, v, W) \in Int
           /\ Delegated(s, v, Delegators) = Delegated(s, v, W) + Delegated(s, v, Delegators \ W)
           /\ Delegated(s, v, {}) = 0
           /\ \A w \in Delegators \ W :
                  Delegated(s, v, W \cup {w}) = Delegated(s, v, W) + s[w][v]
<1>1. PICK d \in [Delegators -> Nat] : d = [w \in Delegators |-> s[w][v]]
  OBVIOUS
<1>2. PICK R : R = Delegators \ W
  OBVIOUS
<1>3. IsFiniteSet(W) /\ IsFiniteSet(R) /\ IsFiniteSet(Delegators)
      /\ W \cap R = {} /\ W \cup R = Delegators
  BY <1>2, TallySettings, FS_Subset
<1>4. Sum(d, W \cup R) = Sum(d, W) + Sum(d, R) /\ Sum(d, W) \in Int
  BY <1>2, <1>3, SumOfUnion, SumType
<1>5. Sum(d, {}) = 0
  BY SumOfNone
<1>6. ASSUME NEW w \in Delegators \ W
      PROVE  Sum(d, W \cup {w}) = Sum(d, W) + s[w][v]
  <2>1. Sum(d, W \cup {w}) = d[w] + Sum(d, W)
    BY <1>3, SumGrows
  <2>2. PICK m \in Int, n \in Int : m = d[w] /\ n = Sum(d, W) /\ m = s[w][v]
    BY <1>1, <1>4
  <2>3. m + n = n + m
    OBVIOUS
  <2>4. QED
    BY <2>1, <2>2, <2>3
<1>7. QED
  BY <1>1, <1>2, <1>3, <1>4, <1>5, <1>6 DEF Delegated, Sum

LEMMA SharesType ==
    ASSUME NEW s \in [Delegators -> [Vals -> Nat]]
    PROVE  SharesOf(s) \in [Vals -> Int]
<1>1. ASSUME NEW v \in Vals
      PROVE  Delegated(s, v, Delegators) \in Int
  BY DelegatedType
<1>2. QED
  BY <1>1 DEF SharesOf

(* With plain votes an account has one transaction. *)
LEMMA PlainFirsts ==
    ASSUME Plain
    PROVE  \A x, y \in CastTxs : FirstOf(x) = FirstOf(y) => x = y
<1>1. ASSUME NEW x \in CastTxs, NEW y \in CastTxs, FirstOf(x) = FirstOf(y)
      PROVE  x = y
  <2>1. /\ votersOf[x] \in Seq(Delegators) /\ votersOf[y] \in Seq(Delegators)
        /\ Len(votersOf[x]) = 1 /\ Len(votersOf[y]) = 1
    BY TallySettings DEF Plain, CastTxs
  <2>2. votersOf[x] = votersOf[y]
    BY <1>1, <2>1 DEF FirstOf
  <2>3. QED
    BY <2>2 DEF Plain
<1>2. QED
  BY <1>1

(* An empty run has counted nobody. *)
LEMMA EmptyOnce ==
    ASSUME NEW run \in TallyRuns, Empty(run)
    PROVE  EachOnce(run)
<1>1. PICK f : f = [w \in Delegators |-> run.info[w].own + run.info[w].other]
  OBVIOUS
<1>2. \A w \in Delegators : f[w] = 0
  BY <1>1 DEF Empty, NoInfo
<1>3. Sum(f, Delegators) = 0
  <2>1. {} \in SUBSET Delegators /\ \A w \in Delegators : f[w] \in Int
    BY <1>2
  <2>2. Sum(f, Delegators) = Sum(f, {})
    <3>1. IsFiniteSet(Delegators)
      BY TallySettings
    <3>2. \A w \in Delegators \ {} : f[w] = 0
      BY <1>2
    <3>3. QED
      BY <2>1, <3>1, <3>2, SumSkipsZeros
  <2>3. QED
    BY <2>2, SumOfNone
<1>4. SumFunction(f) = Sum(f, Delegators)
  BY <1>1 DEF SumFunction, Sum
<1>5. QED
  BY <1>1, <1>3, <1>4 DEF EachOnce, Empty

LEMMA TallyStarts == TallyInit => TallyInv
<1>1. SUFFICES ASSUME TallyInit
               PROVE  TallyInv
  OBVIOUS
<1>2. stake \in [Delegators -> [Vals -> Nat]] /\ castAt \in [VoteTxs -> Nat]
  BY <1>1, TallySettings DEF TallyInit
<1>3. kept \in [Vals -> Int]
  BY <1>1, <1>2, SharesType DEF TallyInit
<1>4. tally = TallyIdle
  BY <1>1 DEF TallyInit
<1>5. TallyIdle \in TallyRuns /\ Empty(TallyIdle)
  BY DEF TallyIdle, TallyRuns, Empty, Entries, NoInfo
<1>6. EachOnce(TallyIdle)
  BY <1>5, EmptyOnce
<1>7. QED
  BY <1>2, <1>3, <1>4, <1>5, <1>6 DEF TallyInv, RunIsRight, TallyIdle

-----------------------------------------------------------------------------
(* A run stays right while votes and delegations stay. *)
LEMMA RunStays ==
    ASSUME NEW run, run = tally', RunIsRight(run), UNCHANGED <<stake, castAt>>
    PROVE  RunIsRight(tally)'
<1>1. CastTxs' = CastTxs /\ Groups' = Groups
  BY DEF CastTxs, Groups
<1>2. NoClash' = NoClash
  BY <1>1 DEF NoClash
<1>3. SharesOf(stake)' = SharesOf(stake)
  BY DEF SharesOf, Delegated
<1>4. Plain' = Plain
  BY <1>1 DEF Plain, ShownVoters, VotesBy
<1>5. EachOnce(tally)' = EachOnce(run)
  BY DEF EachOnce
<1>6. CountedVoters(tally.todo)' = CountedVoters(run.todo)
  BY <1>1 DEF CountedVoters
<1>7. \A x : EntryOf(x)' = EntryOf(x)
  BY DEF EntryOf, Power, Own
<1>8. \A v : Delegated(stake, v, CountedVoters(tally.todo))'
                = Delegated(stake, v, CountedVoters(run.todo))
  BY <1>6 DEF Delegated
<1>9. CountsRight(run) => CountsRight(tally)'
  BY <1>1, <1>6, <1>7, <1>8 DEF CountsRight
<1>10. Empty(run) => Empty(tally)'
  BY DEF Empty
<1>11. QED
  BY <1>1, <1>2, <1>3, <1>4, <1>5, <1>9, <1>10 DEF RunIsRight

(* Steps of the chain: whatever they move disturbs the run, if there is one. *)
LEMMA DisturbedStays ==
    ASSUME TallyInv, Disturbs, castAt' \in [VoteTxs -> Nat],
           \A x \in VoteTxs : castAt[x] > 0 => castAt'[x] > 0,
           stake' \in [Delegators -> [Vals -> Nat]], kept' = kept
    PROVE  TallyInv'
<1>1. RunIsRight(tally)
  BY DEF TallyInv
<1>2. CastTxs \subseteq CastTxs' /\ Groups \subseteq Groups'
  BY DEF CastTxs, Groups
<1>3. NoClash' => NoClash
  BY <1>2 DEF NoClash
<1>4. PICK run : run = tally'
  OBVIOUS
<1>5. run \in TallyRuns /\ (run.at = "idle" \/ run.disturbed)
  BY <1>1, <1>4 DEF Disturbs, RunIsRight, TallyRuns
<1>6. /\ run.at = tally.at /\ run.todo = tally.todo /\ run.info = tally.info
      /\ run.total = tally.total /\ run.deducted = tally.deducted
  BY <1>1, <1>4 DEF Disturbs, RunIsRight, TallyRuns
<1>7. NoClash' => EachOnce(tally)'
  <2>1. EachOnce(tally) => EachOnce(run)
    BY <1>6 DEF EachOnce
  <2>2. EachOnce(tally)' = EachOnce(run)
    BY <1>4 DEF EachOnce
  <2>3. QED
    BY <1>1, <1>3, <2>1, <2>2 DEF RunIsRight
<1>8. tally'.at # "voters" => Empty(tally)'
  BY <1>1, <1>4, <1>6 DEF RunIsRight, Empty
<1>9. tally'.todo \subseteq CastTxs'
  BY <1>1, <1>2, <1>4, <1>6 DEF RunIsRight
<1>10. \A w \in Delegators : tally'.info[w].option = "none" => tally'.info[w] = NoInfo
  BY <1>1, <1>4, <1>6 DEF RunIsRight
<1>11. tally' \in TallyRuns /\ (tally'.at = "idle" \/ tally'.disturbed)
  BY <1>4, <1>5
<1>12. RunIsRight(tally)'
  BY <1>7, <1>8, <1>9, <1>10, <1>11 DEF RunIsRight, TallyRuns
<1>13. QED
  BY <1>12 DEF TallyInv

LEMMA RedelegateKeeps ==
    ASSUME NEW w \in Delegators, NEW src \in Vals, NEW dst \in Vals,
           TallyInv, Redelegate(w, src, dst)
    PROVE  TallyInv'
<1>1. stake' \in [Delegators -> [Vals -> Nat]]
  <2>1. PICK s \in [Vals -> Nat] : s = stake[w] /\ s[src] > 0
    BY DEF TallyInv, Redelegate
  <2>2. PICK t : t = [s EXCEPT ![src] = @ - 1, ![dst] = @ + 1]
    OBVIOUS
  <2>3. t \in [Vals -> Nat]
    BY <2>1, <2>2 DEF Redelegate
  <2>4. stake' = [stake EXCEPT ![w] = t]
    BY <2>1, <2>2 DEF TallyInv, Redelegate
  <2>5. QED
    BY <2>3, <2>4 DEF TallyInv
<1>2. Disturbs /\ UNCHANGED <<kept, castAt>>
  BY DEF Redelegate
<1>3. QED
  BY <1>1, <1>2, DisturbedStays DEF TallyInv

LEMMA CastKeeps ==
    ASSUME NEW x \in VoteTxs, TallyInv, Cast(x)
    PROVE  TallyInv'
<1> DEFINE Orders == {castAt[y] : y \in VoteTxs}
<1>1. castAt \in [VoteTxs -> Nat]
  BY DEF TallyInv
<1>2. castAt \in Surjection(VoteTxs, Orders)
  BY <1>1 DEF Surjection
<1>3. Orders \in SUBSET Nat /\ IsFiniteSet(Orders) /\ Orders # {}
  BY <1>1, <1>2, TallySettings, FS_Surjection
<1>4. PICK top : top = Max(Orders)
  OBVIOUS
<1>5. castAt' = [castAt EXCEPT ![x] = 1 + top]
  BY <1>4 DEF Cast
<1> HIDE DEF Orders
<1>6. top \in Nat
  BY <1>3, <1>4, FiniteMax
<1>7. castAt' \in [VoteTxs -> Nat] /\ \A y \in VoteTxs : castAt[y] > 0 => castAt'[y] > 0
  BY <1>1, <1>5, <1>6
<1>8. Disturbs /\ UNCHANGED <<kept, stake>>
  BY DEF Cast
<1>9. QED
  BY <1>7, <1>8, DisturbedStays DEF TallyInv

LEMMA KeepSharesKeeps ==
    ASSUME TallyInv, KeepShares
    PROVE  TallyInv'
<1>1. kept' \in [Vals -> Int]
  BY SharesType DEF TallyInv, KeepShares
<1>2. UNCHANGED <<stake, castAt, tally>>
  BY DEF KeepShares
<1>3. PICK run : run = tally'
  OBVIOUS
<1>4. RunIsRight(run)
  BY <1>2, <1>3 DEF TallyInv
<1>5. RunIsRight(tally)'
  BY <1>2, <1>3, <1>4, RunStays
<1>6. QED
  BY <1>1, <1>2, <1>5 DEF TallyInv

(* A run begins with the shares of the collection. *)
LEMMA QueryActiveValKeeps ==
    ASSUME TallyInv, QueryActiveVal
    PROVE  TallyInv'
<1>1. PICK run : run = [at |-> "votes", shares |-> kept, todo |-> {},
                        info |-> [w \in Delegators |-> NoInfo],
                        deducted |-> [v \in Vals |-> 0], total |-> 0,
                        disturbed |-> (kept # SharesOf(stake))]
  OBVIOUS
<1>2. UNCHANGED <<stake, kept, castAt>> /\ run = tally'
  <2>1. UNCHANGED <<stake, kept, castAt>>
    BY DEF QueryActiveVal
  <2>2. tally' = [TallyIdle EXCEPT !.at = "votes", !.shares = kept,
                                   !.disturbed = (kept # SharesOf(stake))]
    BY DEF QueryActiveVal
  <2>3. QED
    BY <1>1, <2>1, <2>2 DEF TallyIdle
<1>3. run \in TallyRuns
  <2>1. (kept # SharesOf(stake)) \in BOOLEAN
    OBVIOUS
  <2>2. NoInfo \in Entries
    BY DEF NoInfo, Entries
  <2>3. QED
    BY <1>1, <2>1, <2>2 DEF TallyRuns, TallyInv
<1>4. Empty(run)
  BY <1>1 DEF Empty
<1>5. EachOnce(run)
  BY <1>3, <1>4, EmptyOnce
<1>6. ~run.disturbed => run.shares = SharesOf(stake)
  BY <1>1
<1>7. run.at = "votes" /\ run.todo = {}
  BY <1>1
<1>8. RunIsRight(run)
  BY <1>3, <1>4, <1>5, <1>6, <1>7 DEF RunIsRight, Empty
<1>9. QED
  BY <1>2, <1>8, RunStays DEF TallyInv

(* One transaction of each group of votes. *)
LEMMA FirstsAre ==
    ASSUME NEW S \in SUBSET CastTxs, FirstsOf(S)
    PROVE  /\ \A x, y \in S : votersOf[x] = votersOf[y] => x = y
           /\ \A x \in CastTxs : \E y \in S : votersOf[x] = votersOf[y]
<1>1. CastTxs \in SUBSET VoteTxs /\ Groups = {votersOf[x] : x \in CastTxs}
  BY DEF CastTxs, Groups
<1>2. Cardinality(S) = Cardinality(Groups) /\ {votersOf[x] : x \in S} = Groups
  BY DEF FirstsOf
<1>3. IsFiniteSet(S)
  BY <1>1, TallySettings, FS_Subset
<1>4. PICK f : f = [x \in S |-> votersOf[x]]
  OBVIOUS
<1>5. f \in Surjection(S, Groups)
  BY <1>2, <1>4 DEF Surjection
<1>6. f \in Injection(S, Groups)
  BY <1>2, <1>3, <1>5, FS_Surjection
<1>7. \A x, y \in S : f[x] = f[y] => x = y
  BY <1>6 DEF Injection, IsInjective
<1>8. QED
  BY <1>1, <1>2, <1>4, <1>7

LEMMA QueryVoteByProposalIdKeeps ==
    ASSUME TallyInv, QueryVoteByProposalId
    PROVE  TallyInv'
<1>1. RunIsRight(tally) /\ tally \in TallyRuns /\ tally.at = "votes" /\ Empty(tally)
  BY DEF TallyInv, RunIsRight, QueryVoteByProposalId
<1>2. PICK S \in SUBSET CastTxs : /\ FirstsOf(S)
                                  /\ tally' = [tally EXCEPT !.at = "voters", !.todo = S]
  BY DEF QueryVoteByProposalId, CastTxs
<1>3. UNCHANGED <<stake, kept, castAt>>
  BY DEF QueryVoteByProposalId
<1>4. PICK run : run = tally'
  OBVIOUS
<1>5. /\ run.at = "voters" /\ run.todo = S /\ run.info = tally.info
      /\ run.total = tally.total /\ run.deducted = tally.deducted
      /\ run.shares = tally.shares /\ run.disturbed = tally.disturbed
  BY <1>1, <1>2, <1>4 DEF TallyRuns
<1>6. CastTxs \in SUBSET VoteTxs
  BY DEF CastTxs
<1>7. run \in TallyRuns
  BY <1>1, <1>2, <1>4, <1>6 DEF TallyRuns
<1>8. ASSUME NoClash
      PROVE  EachOnce(run)
  <2>1. ASSUME NEW x \in S, NEW y \in S, FirstOf(x) = FirstOf(y)
        PROVE  x = y
    <3>1. votersOf[x] \in Groups /\ votersOf[y] \in Groups
      BY DEF Groups, CastTxs
    <3>2. votersOf[x] = votersOf[y]
      BY <1>8, <2>1, <3>1 DEF NoClash, FirstOf
    <3>3. QED
      BY <1>2, <3>2, FirstsAre
  <2>2. EachOnce(tally)
    BY <1>1, EmptyOnce
  <2>3. \A x \in S : run.info[FirstOf(x)] = NoInfo
    BY <1>1, <1>5, <1>6, FirstIsDelegator DEF Empty
  <2>4. QED
    BY <1>5, <2>1, <2>2, <2>3 DEF EachOnce
<1>9. ASSUME Plain
      PROVE  CountsRight(run)
  <2>1. S = CastTxs
    <3>1. ASSUME NEW x \in CastTxs
          PROVE  x \in S
      <4>1. PICK y \in S : votersOf[x] = votersOf[y]
        BY <1>2, FirstsAre
      <4>2. QED
        BY <1>9, <4>1 DEF Plain
    <3>2. QED
      BY <3>1
  <2>2. CountedVoters(run.todo) = {}
    BY <1>5, <2>1 DEF CountedVoters
  <2>3. \A v \in Vals : Delegated(stake, v, {}) = 0
    BY DelegatedType DEF TallyInv
  <2>4. QED
    BY <1>1, <1>5, <2>1, <2>2, <2>3 DEF CountsRight, Empty
<1>10. RunIsRight(run)
  BY <1>1, <1>5, <1>7, <1>8, <1>9 DEF RunIsRight
<1>11. QED
  BY <1>3, <1>4, <1>10, RunStays DEF TallyInv

(* What is added up of each voter when one is counted. *)
LEMMA TotalGrows ==
    ASSUME NEW old \in [Delegators -> Entries], NEW w \in Delegators, NEW e \in Entries,
           old[w] = NoInfo, NEW new, new = [old EXCEPT ![w] = e]
    PROVE  SumFunction([u \in Delegators |-> new[u].own + new[u].other])
               = SumFunction([u \in Delegators |-> old[u].own + old[u].other]) + (e.own + e.other)
<1>1. PICK f, g : /\ f = [u \in Delegators |-> old[u].own + old[u].other]
                  /\ g = [u \in Delegators |-> new[u].own + new[u].other]
  OBVIOUS
<1>2. PICK R : R = Delegators \ {w}
  OBVIOUS
<1>3. /\ \A u \in Delegators : f[u] \in Int
      /\ \A u \in Delegators : g[u] \in Int
      /\ \A u \in R : f[u] = g[u]
      /\ f[w] = 0 /\ g[w] = e.own + e.other
  BY <1>1, <1>2 DEF Entries, NoInfo
<1>4. IsFiniteSet(Delegators) /\ IsFiniteSet(R) /\ R \in SUBSET Delegators
  BY <1>2, TallySettings, FS_Subset
<1>5. Sum(f, Delegators) = f[w] + Sum(f, R) /\ Sum(g, Delegators) = g[w] + Sum(g, R)
  BY <1>2, <1>3, <1>4, SumPeels
<1>6. Sum(f, R) = Sum(g, R)
  BY <1>3, <1>4, SumsEqual
<1>7. PICK s \in Int, m \in Int : s = Sum(f, R) /\ m = e.own + e.other
  BY <1>3, <1>4, SumType
<1>8. Sum(f, Delegators) = 0 + s /\ Sum(g, Delegators) = m + s
  BY <1>3, <1>5, <1>6, <1>7
<1>9. m + s = (0 + s) + m
  OBVIOUS
<1>10. SumFunction(f) = Sum(f, Delegators) /\ SumFunction(g) = Sum(g, Delegators)
  BY <1>1 DEF SumFunction, Sum
<1>11. QED
  BY <1>1, <1>7, <1>8, <1>9, <1>10

(* The next voter is counted, with its delegations or without. *)
LEMMA VoterKeepsOnce ==
    ASSUME NEW x \in tally.todo, RunIsRight(tally), NoClash,
           NEW e \in Entries, NEW run,
           run.todo = tally.todo \ {x},
           run.info = [tally.info EXCEPT ![FirstOf(x)] = e],
           run.total = tally.total + (e.own + e.other)
    PROVE  EachOnce(run)
<1>1. tally \in TallyRuns /\ EachOnce(tally)
  BY DEF RunIsRight
<1>2. /\ x \in VoteTxs /\ FirstOf(x) \in Delegators
      /\ \A y \in tally.todo : FirstOf(y) \in Delegators
  BY <1>1, FirstIsDelegator DEF TallyRuns
<1>3. \A y \in run.todo : FirstOf(y) # FirstOf(x)
  BY <1>1 DEF EachOnce
<1>4. \A y \in run.todo : run.info[FirstOf(y)] = NoInfo
  BY <1>1, <1>2, <1>3 DEF EachOnce, TallyRuns
<1>5. run.total = SumFunction([u \in Delegators |-> run.info[u].own + run.info[u].other])
  <2>1. tally.info \in [Delegators -> Entries] /\ tally.info[FirstOf(x)] = NoInfo
    BY <1>1 DEF EachOnce, TallyRuns
  <2>2. PICK new : new = run.info
    OBVIOUS
  <2>3. SumFunction([u \in Delegators |-> new[u].own + new[u].other])
          = SumFunction([u \in Delegators |-> tally.info[u].own + tally.info[u].other])
            + (e.own + e.other)
    BY <1>2, <2>1, <2>2, TotalGrows
  <2>4. QED
    BY <1>1, <2>2, <2>3 DEF EachOnce
<1>6. QED
  BY <1>1, <1>4, <1>5 DEF EachOnce

LEMMA CountVoterKeeps ==
    ASSUME NEW x \in VoteTxs, TallyInv, CountVoter(x)
    PROVE  TallyInv'
<1>1. /\ RunIsRight(tally) /\ tally \in TallyRuns
      /\ tally.at = "voters" /\ x \in tally.todo
      /\ stake \in [Delegators -> [Vals -> Nat]]
  BY DEF TallyInv, RunIsRight, CountVoter
<1>2. PICK w \in Delegators : w = FirstOf(x)
  BY FirstIsDelegator
<1>3. Own(w) \in SUBSET Vals
  BY DEF Own
<1>4. PICK all \in Int : /\ all = Power(w, Vals)
                         /\ all = Power(w, Own(w)) + Power(w, Vals \ Own(w))
                         /\ Power(w, Own(w)) \in Int /\ Power(w, Vals \ Own(w)) \in Int
  <2>1. Vals \in SUBSET Vals /\ Vals \ Own(w) \in SUBSET Vals
    OBVIOUS
  <2>2. QED
    BY <1>1, <1>3, <2>1, PowerType
<1>5. PICK e : e = EntryOf(x)
  OBVIOUS
<1>6. /\ e \in Entries /\ e.own + e.other = all /\ e.option = optionOf[x]
      /\ e.option # "none"
  <2>1. (Own(w) # {}) \in BOOLEAN
    OBVIOUS
  <2>2. e = [option |-> optionOf[x], own |-> Power(w, Own(w)),
             other |-> Power(w, Vals \ Own(w)), isValidator |-> Own(w) # {}]
    BY <1>2, <1>5 DEF EntryOf
  <2>3. optionOf[x] \in Options /\ "none" \notin Options
    BY FirstIsDelegator, TallySettings
  <2>4. QED
    BY <1>4, <2>1, <2>2, <2>3 DEF Entries
<1>7. PICK deducted : deducted = [v \in Vals |-> tally.deducted[v] + stake[w][v]]
  OBVIOUS
<1>8. deducted \in [Vals -> Int]
  BY <1>1, <1>7 DEF TallyRuns
<1>9. PICK run : run = [at |-> "voters", shares |-> tally.shares, todo |-> tally.todo \ {x},
                        info |-> [tally.info EXCEPT ![w] = e], deducted |-> deducted,
                        total |-> tally.total + all, disturbed |-> tally.disturbed]
  OBVIOUS
<1>10. tally' = run /\ UNCHANGED <<stake, kept, castAt>>
  <2>1. /\ tally' = [tally EXCEPT
                !.todo = @ \ {x},
                !.info[w] = [option |-> optionOf[x], own |-> Power(w, Own(w)),
                             other |-> Power(w, Vals \ Own(w)), isValidator |-> Own(w) # {}],
                !.deducted = Deducted(w),
                !.total = @ + Power(w, Vals)]
        /\ UNCHANGED <<stake, kept, castAt>>
    BY <1>2 DEF CountVoter, FirstOf
  <2>2. e = [option |-> optionOf[x], own |-> Power(w, Own(w)),
             other |-> Power(w, Vals \ Own(w)), isValidator |-> Own(w) # {}]
    BY <1>2, <1>5 DEF EntryOf
  <2>3. tally' = [tally EXCEPT !.todo = @ \ {x}, !.info[w] = e,
                               !.deducted = deducted, !.total = @ + all]
    BY <1>4, <1>7, <2>1, <2>2 DEF Deducted
  <2>4. QED
    BY <1>1, <1>9, <2>1, <2>3 DEF TallyRuns
<1>11. run \in TallyRuns
  <2>1. tally.total + all \in Int /\ tally.todo \ {x} \in SUBSET VoteTxs
    BY <1>1, <1>4 DEF TallyRuns
  <2>2. [tally.info EXCEPT ![w] = e] \in [Delegators -> Entries]
    BY <1>1, <1>6 DEF TallyRuns
  <2>3. QED
    BY <1>1, <1>8, <1>9, <2>1, <2>2 DEF TallyRuns
<1>12. /\ run.at = "voters" /\ run.shares = tally.shares /\ run.todo = tally.todo \ {x}
       /\ run.info = [tally.info EXCEPT ![w] = e] /\ run.deducted = deducted
       /\ run.total = tally.total + all /\ run.disturbed = tally.disturbed
  BY <1>9
<1>13. NoClash => EachOnce(run)
  BY <1>1, <1>2, <1>6, <1>12, VoterKeepsOnce
<1>14. ASSUME ~tally.disturbed, Plain
       PROVE  CountsRight(run)
  <2>1. CountsRight(tally)
    BY <1>1, <1>14 DEF RunIsRight
  <2>2. x \in CastTxs /\ CastTxs \ run.todo = (CastTxs \ tally.todo) \cup {x}
        /\ CastTxs \in SUBSET VoteTxs
    BY <1>1, <1>12 DEF RunIsRight, CastTxs
  <2>3. \A y \in CastTxs \ tally.todo : FirstOf(y) # w
    BY <1>1, <1>2, <1>14, <2>2, PlainFirsts
  <2>4. PICK voted \in SUBSET Delegators : voted = CountedVoters(tally.todo)
    BY <2>2, FirstIsDelegator DEF CountedVoters
  <2>5. w \notin voted /\ CountedVoters(run.todo) = voted \cup {w}
    BY <1>2, <2>2, <2>3, <2>4 DEF CountedVoters
  <2>6. \A y \in CastTxs \ run.todo : run.info[FirstOf(y)] = EntryOf(y)
    <3>1. run.info[w] = e
      BY <1>1, <1>12 DEF TallyRuns
    <3>2. ASSUME NEW y \in CastTxs \ tally.todo
          PROVE  run.info[FirstOf(y)] = EntryOf(y)
      BY <1>1, <1>12, <2>1, <2>2, <2>3, FirstIsDelegator DEF CountsRight, TallyRuns
    <3>3. QED
      BY <1>2, <1>5, <2>2, <3>1, <3>2
  <2>7. \A u \in Delegators \ CountedVoters(run.todo) : run.info[u] = NoInfo
    BY <1>1, <1>12, <2>1, <2>4, <2>5 DEF CountsRight, TallyRuns
  <2>8. ASSUME NEW v \in Vals
        PROVE  run.deducted[v] = Delegated(stake, v, CountedVoters(run.todo))
    <3>1. Delegated(stake, v, voted \cup {w}) = Delegated(stake, v, voted) + stake[w][v]
      <4>1. PICK s \in [Delegators -> [Vals -> Nat]] : s = stake
        BY <1>1
      <4>2. w \in Delegators \ voted
        BY <2>5
      <4>3. Delegated(s, v, voted \cup {w}) = Delegated(s, v, voted) + s[w][v]
        BY <4>2, DelegatedType
      <4>4. QED
        BY <4>1, <4>3
    <3>2. QED
      BY <1>7, <1>12, <2>1, <2>4, <2>5, <3>1 DEF CountsRight
  <2>9. QED
    BY <2>6, <2>7, <2>8 DEF CountsRight
<1>15. \A u \in Delegators : run.info[u].option = "none" => run.info[u] = NoInfo
  BY <1>1, <1>6, <1>12 DEF RunIsRight, TallyRuns
<1>16. RunIsRight(run)
  BY <1>1, <1>11, <1>12, <1>13, <1>14, <1>15 DEF RunIsRight
<1>17. QED
  BY <1>10, <1>16, RunStays DEF TallyInv

LEMMA DelegationsFailKeeps ==
    ASSUME NEW x \in VoteTxs, TallyInv, DelegationsFail(x)
    PROVE  TallyInv'
<1>1. /\ RunIsRight(tally) /\ tally \in TallyRuns
      /\ tally.at = "voters" /\ x \in tally.todo
  BY DEF TallyInv, RunIsRight, DelegationsFail
<1>2. PICK w \in Delegators : w = FirstOf(x)
  BY FirstIsDelegator
<1>3. PICK e : e = [option |-> optionOf[x], own |-> 0, other |-> 0, isValidator |-> FALSE]
  OBVIOUS
<1>4. /\ e \in Entries /\ e.own + e.other = 0
      /\ e.option # "none"
  BY <1>3, FirstIsDelegator, TallySettings DEF Entries
<1>5. PICK run : run = [at |-> "voters", shares |-> tally.shares, todo |-> tally.todo \ {x},
                        info |-> [tally.info EXCEPT ![w] = e], deducted |-> tally.deducted,
                        total |-> tally.total, disturbed |-> TRUE]
  OBVIOUS
<1>6. tally' = run /\ UNCHANGED <<stake, kept, castAt>>
  <2>1. /\ tally' = [tally EXCEPT !.todo = @ \ {x}, !.disturbed = TRUE,
                                  !.info[w] = [NoInfo EXCEPT !.option = optionOf[x]]]
        /\ UNCHANGED <<stake, kept, castAt>>
    BY <1>2 DEF DelegationsFail, FirstOf
  <2>2. e = [NoInfo EXCEPT !.option = optionOf[x]]
    <3>1. PICK f \in BOOLEAN : f = FALSE
      OBVIOUS
    <3>2. NoInfo = [option |-> "none", own |-> 0, other |-> 0, isValidator |-> f]
      BY <3>1 DEF NoInfo
    <3>3. e = [option |-> optionOf[x], own |-> 0, other |-> 0, isValidator |-> f]
      BY <1>3, <3>1
    <3>4. QED
      BY <3>2, <3>3
  <2>3. tally' = [tally EXCEPT !.todo = @ \ {x}, !.disturbed = TRUE, !.info[w] = e]
    BY <2>1, <2>2
  <2>4. QED
    BY <1>1, <1>5, <2>1, <2>3 DEF TallyRuns
<1>7. run \in TallyRuns
  BY <1>1, <1>4, <1>5 DEF TallyRuns
<1>8. /\ run.at = "voters" /\ run.todo = tally.todo \ {x} /\ run.disturbed
      /\ run.info = [tally.info EXCEPT ![w] = e] /\ run.total = tally.total
  BY <1>5
<1>9. run.total = tally.total + (e.own + e.other)
  BY <1>1, <1>4, <1>8 DEF TallyRuns
<1>10. NoClash => EachOnce(run)
  BY <1>1, <1>2, <1>4, <1>8, <1>9, VoterKeepsOnce
<1>11. \A u \in Delegators : run.info[u].option = "none" => run.info[u] = NoInfo
  BY <1>1, <1>4, <1>8 DEF RunIsRight, TallyRuns
<1>12. RunIsRight(run)
  BY <1>1, <1>7, <1>8, <1>10, <1>11 DEF RunIsRight
<1>13. QED
  BY <1>6, <1>12, RunStays DEF TallyInv

LEMMA TallyEndsKeeps ==
    ASSUME TallyInv, TallyEnds
    PROVE  TallyInv'
<1>1. tally' = TallyIdle /\ UNCHANGED <<stake, kept, castAt>>
  BY DEF TallyEnds
<1>2. TallyIdle \in TallyRuns /\ Empty(TallyIdle)
  BY DEF TallyIdle, TallyRuns, Empty, Entries, NoInfo
<1>3. EachOnce(TallyIdle)
  BY <1>2, EmptyOnce
<1>4. RunIsRight(TallyIdle)
  BY <1>2, <1>3 DEF RunIsRight, TallyIdle, Empty
<1>5. QED
  BY <1>1, <1>4, RunStays DEF TallyInv

-----------------------------------------------------------------------------
(* What is left of the validators of an account. *)
LEMMA NotVotedIs ==
    ASSUME RunIsRight(tally), NEW w \in Delegators
    PROVE  /\ NotVoted(w) \in Int
           /\ tally.info[w].option = "none" =>
                  NotVoted(w) = 0 /\ tally.info[w].own = 0 /\ tally.info[w].other = 0
<1>1. tally \in TallyRuns
  BY DEF RunIsRight
<1>2. PICK f, S : /\ f = [v \in Vals |-> tally.shares[v] - tally.deducted[v]]
                  /\ S = {v \in Vals : operator[v] = w}
  OBVIOUS
<1>3. IsFiniteSet(S) /\ S \in SUBSET Vals
  BY <1>2, TallySettings, FS_Subset
<1>4. \A v \in Vals : f[v] \in Int
  BY <1>1, <1>2 DEF TallyRuns
<1>5. Sum(f, S) \in Int
  BY <1>3, <1>4, SumType
<1>6. NotVoted(w) = IF tally.info[w].isValidator THEN Sum(f, S) ELSE 0
  BY <1>2 DEF NotVoted, Sum
<1>7. NotVoted(w) \in Int
  <2>1. CASE tally.info[w].isValidator
    BY <1>5, <1>6, <2>1
  <2>2. CASE ~tally.info[w].isValidator
    BY <1>6, <2>2
  <2>3. QED
    BY <2>1, <2>2
<1>8. ASSUME tally.info[w].option = "none"
      PROVE  NotVoted(w) = 0 /\ tally.info[w].own = 0 /\ tally.info[w].other = 0
  <2>1. tally.info[w] = NoInfo
    BY <1>8 DEF RunIsRight
  <2>2. ~tally.info[w].isValidator /\ tally.info[w].own = 0 /\ tally.info[w].other = 0
    BY <2>1 DEF NoInfo
  <2>3. QED
    BY <1>6, <2>2
<1>9. QED
  BY <1>7, <1>8

(* The options of a tally add up to its total. *)
LEMMA OptionsDoAddUp ==
    ASSUME RunIsRight(tally), NoClash, tally.todo = {}
    PROVE  Total = SumFunction([o \in Options |-> OptionPower(o)])
<1>1. tally \in TallyRuns /\ EachOnce(tally)
  BY DEF RunIsRight
<1>2. PICK i \in [Delegators -> Entries] : i = tally.info
  BY <1>1 DEF TallyRuns
<1>3. PICK N, P, G, label :
          /\ N = [w \in Delegators |-> NotVoted(w)]
          /\ P = [w \in Delegators |-> i[w].own + i[w].other]
          /\ G = [w \in Delegators |-> i[w].own + i[w].other + NotVoted(w)]
          /\ label = [w \in Delegators |-> i[w].option]
  OBVIOUS
<1>4. ASSUME NEW w \in Delegators
      PROVE  /\ N[w] \in Int /\ P[w] \in Int /\ G[w] \in Int /\ G[w] = P[w] + N[w]
             /\ label[w] \in Options \cup {"none"}
             /\ label[w] = "none" => G[w] = 0
  <2>1. /\ NotVoted(w) \in Int
        /\ i[w].option = "none" => NotVoted(w) = 0 /\ i[w].own = 0 /\ i[w].other = 0
    BY <1>2, NotVotedIs
  <2>2. i[w].own \in Int /\ i[w].other \in Int /\ i[w].option \in Options \cup {"none"}
    BY DEF Entries
  <2>3. QED
    BY <1>3, <2>1, <2>2
<1>5. PICK W \in SUBSET Delegators : W = {w \in Delegators : label[w] \in Options}
  OBVIOUS
<1>6. IsFiniteSet(Delegators) /\ IsFiniteSet(Options)
  BY TallySettings
<1>7. Sum(G, Delegators) = Sum(G, W)
  <2>1. \A w \in Delegators \ W : G[w] = 0
    BY <1>4, <1>5
  <2>2. QED
    BY <1>4, <1>6, <2>1, SumSkipsZeros
<1>8. PICK h : h = [o \in Options |-> OptionPower(o)]
  OBVIOUS
<1>9. \A o \in Options : h[o] = Sum(G, {w \in Delegators : label[w] = o})
  <2>1. ASSUME NEW o \in Options
        PROVE  OptionPower(o) = Sum(G, {w \in Delegators : label[w] = o})
    <3>1. {w \in Delegators : label[w] = o} = {w \in Delegators : tally.info[w].option = o}
      BY <1>2, <1>3
    <3>2. G = [w \in Delegators |-> tally.info[w].own + tally.info[w].other + NotVoted(w)]
      BY <1>2, <1>3
    <3>3. QED
      BY <3>1, <3>2 DEF OptionPower, Sum
  <2>2. QED
    BY <1>8, <2>1
<1>10. Sum(h, Options) = Sum(G, W)
  <2>1. \A w \in Delegators : G[w] \in Int
    BY <1>4
  <2>2. PICK part : part = [o \in Options |-> {w \in Delegators : label[w] = o}]
    OBVIOUS
  <2>3. \A o \in Options : h[o] = Sum(G, part[o]) /\ part[o] \in SUBSET Delegators
    BY <1>9, <2>2
  <2>4. \A o \in Options : \A w \in Delegators : w \in part[o] <=> label[w] = o
    BY <2>2
  <2>5. \A w \in Delegators : w \in W <=> label[w] \in Options
    BY <1>5
  <2>6. QED
    BY ONLY <1>6, <2>1, <2>3, <2>4, <2>5, W \in SUBSET Delegators, SumOfParts
<1>11. Sum(G, Delegators) = Sum(P, Delegators) + Sum(N, Delegators)
  BY <1>4, <1>6, SumsAdd
<1>12. tally.total = Sum(P, Delegators)
  <2>1. P = [w \in Delegators |-> tally.info[w].own + tally.info[w].other]
    BY <1>2, <1>3
  <2>2. QED
    BY <1>1, <2>1 DEF EachOnce, SumFunction, Sum
<1>13. SumFunction(N) = Sum(N, Delegators) /\ SumFunction(h) = Sum(h, Options)
  BY <1>3, <1>8 DEF SumFunction, Sum
<1>14. QED
  BY <1>3, <1>7, <1>8, <1>10, <1>11, <1>12, <1>13 DEF Total

(* A plain vote that nothing disturbed gives each option its power. *)
LEMMA VotesOf ==
    ASSUME TallyInv, Plain, CountsRight(tally), tally.todo = {}, NEW w \in Delegators
    PROVE  \/ /\ w \notin ShownVoters
              /\ tally.info[w] = NoInfo
           \/ /\ w \in ShownVoters
              /\ \E x \in CastTxs : /\ FirstOf(x) = w /\ ShownVote(w) = x
                                    /\ tally.info[w] = EntryOf(x)
<1>1. CastTxs \in SUBSET VoteTxs /\ CastTxs \subseteq okVotes /\ castAt \in [VoteTxs -> Nat]
  BY DEF CastTxs, Plain, TallyInv
<1>2. VotesBy(w) = {x \in CastTxs : FirstOf(x) = w}
  BY <1>1, TallySettings DEF VotesBy, CastTxs, FirstOf
<1>3. CASE VotesBy(w) = {}
  <2>1. w \notin CountedVoters(tally.todo)
    BY <1>2, <1>3 DEF CountedVoters
  <2>2. QED
    BY <1>3, <2>1 DEF ShownVoters, CountsRight
<1>4. ASSUME NEW x \in VotesBy(w)
      PROVE  /\ w \in ShownVoters /\ FirstOf(x) = w /\ ShownVote(w) = x
             /\ tally.info[w] = EntryOf(x) /\ x \in CastTxs
  <2>1. x \in CastTxs /\ FirstOf(x) = w
    BY <1>2
  <2>2. VotesBy(w) = {x}
    BY <1>2, <2>1, PlainFirsts
  <2>3. castAt[x] <= castAt[x]
    BY <1>1, <2>1
  <2>4. ShownVote(w) = x
    BY <2>2, <2>3 DEF ShownVote
  <2>5. QED
    BY <2>1, <2>2, <2>4 DEF ShownVoters, CountsRight
<1>5. QED
  BY <1>3, <1>4

(* The voters the page shows are those the run has counted. *)
LEMMA ShownAreCounted ==
    ASSUME TallyInv, Plain, tally.todo = {}
    PROVE  ShownVoters = CountedVoters(tally.todo)
<1>1. CastTxs \in SUBSET VoteTxs /\ CastTxs \subseteq okVotes
  BY DEF CastTxs, Plain
<1>2. \A w \in Delegators : VotesBy(w) = {x \in CastTxs : FirstOf(x) = w}
  BY <1>1, TallySettings DEF VotesBy, CastTxs, FirstOf
<1>3. CountedVoters(tally.todo) = {FirstOf(x) : x \in CastTxs}
  BY DEF CountedVoters
<1>4. \A x \in CastTxs : FirstOf(x) \in Delegators
  BY <1>1, FirstIsDelegator
<1>5. QED
  BY <1>2, <1>3, <1>4 DEF ShownVoters

(* The power of one of them. *)
LEMMA VoterPower ==
    ASSUME TallyInv, Plain, CountsRight(tally), tally.todo = {},
           tally.shares = SharesOf(stake), NEW w \in ShownVoters
    PROVE  /\ tally.info[w].own + tally.info[w].other + NotVoted(w) = VotingPower(w)
           /\ tally.info[w].option = optionOf[ShownVote(w)]
<1>1. stake \in [Delegators -> [Vals -> Nat]] /\ w \in Delegators
  BY DEF TallyInv, ShownVoters
<1>2. PICK x \in CastTxs : FirstOf(x) = w /\ ShownVote(w) = x /\ tally.info[w] = EntryOf(x)
  BY <1>1, VotesOf
<1>3. /\ tally.info[w].option = optionOf[x]
      /\ tally.info[w].own = Power(w, Own(w)) /\ tally.info[w].other = Power(w, Vals \ Own(w))
      /\ tally.info[w].isValidator <=> Own(w) # {}
  <2>1. PICK b \in BOOLEAN : b = (Own(w) # {})
    OBVIOUS
  <2>2. tally.info[w] = [option |-> optionOf[x], own |-> Power(w, Own(w)),
                         other |-> Power(w, Vals \ Own(w)), isValidator |-> b]
    BY <1>2, <2>1 DEF EntryOf
  <2>3. tally.info[w].isValidator = b
    BY <2>2
  <2>4. /\ tally.info[w].option = optionOf[x]
        /\ tally.info[w].own = Power(w, Own(w)) /\ tally.info[w].other = Power(w, Vals \ Own(w))
    BY <2>2
  <2>5. tally.info[w].isValidator <=> Own(w) # {}
    BY <2>1, <2>3
  <2>6. QED
    BY <2>4, <2>5
<1>4. tally.info[w].own + tally.info[w].other = Power(w, Vals) /\ Power(w, Vals) \in Int
  <2>1. Own(w) \in SUBSET Vals /\ Vals \in SUBSET Vals
    BY DEF Own
  <2>2. QED
    BY <1>1, <1>3, <2>1, PowerType
<1>5. PICK f, g, S : /\ f = [v \in Vals |-> tally.shares[v] - tally.deducted[v]]
                     /\ g = [v \in Vals |-> Delegated(stake, v, Delegators \ ShownVoters)]
                     /\ S = {v \in Vals : operator[v] = w}
  OBVIOUS
<1>6. f = g
  <2>1. ASSUME NEW v \in Vals
        PROVE  f[v] = g[v]
    <3>1. PICK voted \in SUBSET Delegators : voted = ShownVoters
      BY DEF ShownVoters
    <3>2. /\ tally.shares[v] = Delegated(stake, v, Delegators)
          /\ tally.deducted[v] = Delegated(stake, v, voted)
      BY <3>1, ShownAreCounted DEF SharesOf, CountsRight
    <3>3. PICK s \in [Delegators -> [Vals -> Nat]] : s = stake
      BY <1>1
    <3>4. Delegators \ voted \in SUBSET Delegators
      OBVIOUS
    <3>5. /\ Delegated(s, v, voted) \in Int /\ Delegated(s, v, Delegators \ voted) \in Int
          /\ Delegated(s, v, Delegators) =
                 Delegated(s, v, voted) + Delegated(s, v, Delegators \ voted)
      BY <3>4, DelegatedType
    <3>6. QED
      BY <1>5, <3>1, <3>2, <3>3, <3>5
  <2>2. QED
    BY <1>5, <2>1
<1>7. NotVoted(w) = IF tally.info[w].isValidator THEN Sum(g, S) ELSE 0
  BY <1>5, <1>6 DEF NotVoted, Sum
<1>8. VotingPower(w) = Power(w, Vals) + Sum(g, S)
  BY <1>5 DEF VotingPower, Sum
<1>9. ~tally.info[w].isValidator => Sum(g, S) = 0
  <2>1. ASSUME Own(w) = {}
        PROVE  S = {}
    BY <1>5, <2>1 DEF Own, Plain
  <2>2. QED
    BY <1>3, <2>1, SumOfNone
<1>10. NotVoted(w) = Sum(g, S)
  BY <1>7, <1>9
<1>11. QED
  BY <1>2, <1>3, <1>4, <1>8, <1>10

(* The power of an option is that of the voters the page shows with it. *)
LEMMA PlainPower ==
    ASSUME TallyInv, Plain, CountsRight(tally), tally.todo = {},
           tally.shares = SharesOf(stake), NEW o \in Options
    PROVE  OptionPower(o) = PowerOf(o)
<1>1. RunIsRight(tally) /\ tally \in TallyRuns
  BY DEF TallyInv, RunIsRight
<1>2. PICK G, H : /\ G = [w \in Delegators |-> tally.info[w].own + tally.info[w].other + NotVoted(w)]
                  /\ H = [w \in Delegators |-> VotingPower(w)]
  OBVIOUS
<1>3. PICK W : W = {w \in Delegators : tally.info[w].option = o}
  OBVIOUS
<1>4. ASSUME NEW w \in Delegators
      PROVE  w \in W <=> w \in ShownVoters /\ optionOf[ShownVote(w)] = o
  <2>1. CASE w \in ShownVoters
    BY <1>3, <2>1, VoterPower
  <2>2. CASE w \notin ShownVoters
    <3>1. tally.info[w] = NoInfo
      BY <2>2, VotesOf
    <3>2. QED
      BY <1>3, <2>2, <3>1, TallySettings DEF NoInfo
  <2>3. QED
    BY <2>1, <2>2
<1>5. W = {w \in ShownVoters : optionOf[ShownVote(w)] = o}
  BY <1>3, <1>4 DEF ShownVoters
<1>6. \A w \in W : G[w] \in Int /\ G[w] = H[w]
  <2>1. ASSUME NEW w \in W
        PROVE  G[w] \in Int /\ G[w] = H[w]
    <3>1. w \in Delegators /\ w \in ShownVoters
      BY <1>3, <1>5
    <3>2. NotVoted(w) \in Int /\ tally.info[w].own \in Int /\ tally.info[w].other \in Int
      BY <1>1, <3>1, NotVotedIs DEF TallyRuns, Entries
    <3>3. QED
      BY <1>2, <3>1, <3>2, VoterPower
  <2>2. QED
    BY <2>1
<1>7. IsFiniteSet(W)
  BY <1>3, TallySettings, FS_Subset
<1>8. Sum(G, W) = Sum(H, W)
  BY <1>6, <1>7, SumsEqual
<1>9. QED
  BY <1>2, <1>3, <1>5, <1>8 DEF OptionPower, PowerOf, Sum

LEMMA TallyStepRight ==
    ASSUME TallyInv, TallyEnds
    PROVE  /\ OptionsAddUp
           /\ ~tally.disturbed /\ Plain => \A o \in Options : result'.power[o] = PowerOf(o)
<1>1. RunIsRight(tally) /\ tally.todo = {} /\ tally.at = "voters"
  BY DEF TallyInv, TallyEnds
<1>2. result' = [total |-> Total, power |-> [o \in Options |-> OptionPower(o)]]
  BY DEF TallyEnds
<1>3. NoClash => OptionsAddUp
  BY <1>1, <1>2, OptionsDoAddUp DEF OptionsAddUp
<1>4. ~NoClash => OptionsAddUp
  BY DEF NoClash, OptionsAddUp
<1>5. ASSUME ~tally.disturbed, Plain
      PROVE  \A o \in Options : result'.power[o] = PowerOf(o)
  <2>1. CountsRight(tally) /\ tally.shares = SharesOf(stake)
    BY <1>1, <1>5 DEF RunIsRight
  <2>2. \A o \in Options : OptionPower(o) = PowerOf(o)
    BY <1>1, <1>5, <2>1, PlainPower
  <2>3. QED
    BY <1>2, <2>2
<1>6. QED
  BY <1>3, <1>4, <1>5

-----------------------------------------------------------------------------
LEMMA TallyStepInv == TallyInv /\ [TallyNext]_tallyVars => TallyInv'
<1>1. SUFFICES ASSUME TallyInv, [TallyNext]_tallyVars
               PROVE  TallyInv'
  OBVIOUS
<1>2. ASSUME NEW w \in Delegators, NEW src \in Vals, NEW dst \in Vals,
             Redelegate(w, src, dst)
      PROVE  TallyInv'
  BY <1>1, <1>2, RedelegateKeeps
<1>3. ASSUME NEW x \in VoteTxs, Cast(x) \/ CountVoter(x) \/ DelegationsFail(x)
      PROVE  TallyInv'
  BY <1>1, <1>3, CastKeeps, CountVoterKeeps, DelegationsFailKeeps
<1>4. CASE KeepShares \/ QueryActiveVal \/ QueryVoteByProposalId \/ TallyEnds
  BY <1>1, <1>4, KeepSharesKeeps, QueryActiveValKeeps, QueryVoteByProposalIdKeeps,
     TallyEndsKeeps
<1>5. CASE UNCHANGED tallyVars
  <2>1. UNCHANGED <<stake, kept, castAt, tally>>
    BY <1>5 DEF tallyVars
  <2>2. PICK run : run = tally'
    OBVIOUS
  <2>3. RunIsRight(run)
    BY <1>1, <2>1, <2>2 DEF TallyInv
  <2>4. RunIsRight(tally)'
    BY <2>1, <2>2, <2>3, RunStays
  <2>5. QED
    BY <1>1, <2>1, <2>4 DEF TallyInv
<1>6. QED
  BY <1>1, <1>2, <1>3, <1>4, <1>5 DEF TallyNext

(* The tally the task stores (ProposalTaskService.tallyDetails): its       *)
(* options add up to its total unless an account leads two groups of       *)
(* votes; and each option has the power of the voters the page shows with  *)
(* it when nothing moved and the votes are plain.                          *)
THEOREM TalliesAreExact == TallySpec => TallyIsExact
<1>1. TallyInit /\ faults = 0 => TallyInv
  BY TallyStarts
<1>2. [TallyNext]_<<tallyVars, faults>> => [TallyNext]_tallyVars
  OBVIOUS
<1>3. TallyInv /\ [TallyNext]_tallyVars => [TallyStep]_tallyVars
  BY TallyStepRight DEF TallyStep
<1>4. QED
  BY <1>1, <1>2, <1>3, TallyStepInv, PTL DEF TallySpec, TallyIsExact

(***************************************************************************)
(* The types of the validators, the account information and the tally.     *)
(***************************************************************************)
LEMMA ValTypeInit == ValInit => ValTypeOK
<1> SUFFICES ASSUME ValInit
             PROVE  ValTypeOK
  OBVIOUS
<1>1. Nobody \in [Names -> Infos \cup {Gone}]
  BY DEF Nobody
<1>2. ASSUME NEW r \in Runs
      PROVE  valRun[r] = ValIdle
  BY DEF ValInit
<1>3. /\ ValIdle.at = "idle" /\ ValIdle.found = Nobody /\ ValIdle.updates = {}
      /\ ValIdle.deletes = {}
  BY DEF ValIdle
<1>4. node \in [Names -> Infos \cup {Gone}] /\ moves \in 0..MaxMoves /\ table = Nobody
      /\ dropped = {}
  BY ValidatorSettings DEF ValInit
<1> QED
  BY <1>1, <1>2, <1>3, <1>4 DEF ValTypeOK

(* What the run of r is due to write. *)
DueFits(R) == R.updates \subseteq Known(R.found) /\ R.deletes \cap Known(R.found) = {}

LEMMA ValTypeStep == ValInv /\ ValInv' /\ ValTypeOK /\ [ValNext]_valVars => ValTypeOK'
<1> SUFFICES ASSUME ValInv, ValInv', ValTypeOK, [ValNext]_valVars
             PROVE  ValTypeOK'
  OBVIOUS
<1>0. /\ \A r \in Runs : valRun[r] \in ValStates /\ DueFits(valRun[r])
      /\ valRun \in [Runs -> ValStates]
      /\ dropped \subseteq Names /\ moves \in 0..MaxMoves
  BY DEF ValInv, ValTypeOK, DueFits
<1>1. /\ node' \in [Names -> Infos \cup {Gone}] /\ table' \in [Names -> Infos \cup {Gone}]
      /\ \A r \in Runs : valRun'[r] \in ValStates
  BY DEF ValInv, Lists
<1>2. SUFFICES /\ \A r \in Runs : DueFits(valRun'[r])
               /\ dropped' \subseteq Names /\ moves' \in 0..MaxMoves
  BY <1>1 DEF ValTypeOK, DueFits, ValStates, Lists, Known
<1>3. DueFits(ValIdle)
  BY DEF DueFits, ValIdle
<1>4. ASSUME NEW r \in Runs, NEW R, DueFits(R), valRun' = [valRun EXCEPT ![r] = R]
      PROVE  \A s \in Runs : DueFits(valRun'[s])
  BY <1>0, <1>4
<1>5. CASE \E v \in Names, i \in Infos \cup {Gone} : NodeMoves(v, i)
  <2>1. PICK v \in Names, i \in Infos \cup {Gone} : NodeMoves(v, i)
    BY <1>5
  <2>2. moves' \in 0..MaxMoves /\ dropped' = dropped
    BY <2>1, <1>0, ValidatorSettings DEF NodeMoves
  <2>3. ASSUME NEW r \in Runs
        PROVE  DueFits(valRun'[r])
    <3>1. /\ valRun'[r].found = valRun[r].found /\ valRun'[r].updates = valRun[r].updates
          /\ valRun'[r].deletes = valRun[r].deletes
      BY <1>0, <2>1 DEF NodeMoves, ValStates
    <3> QED
      BY <1>0, <3>1 DEF DueFits
  <2> QED
    BY <1>0, <2>2, <2>3
<1>6. ASSUME NEW r \in Runs, ValRunStep(r) \/ PageFails(r) \/ ValRunFails(r)
      PROVE  /\ \A s \in Runs : DueFits(valRun'[s])
             /\ dropped' \subseteq Names /\ moves' \in 0..MaxMoves
  <2> DEFINE R == valRun[r]
  <2>0. R \in ValStates /\ DueFits(R)
    BY <1>0
  <2>1. CASE BeginPages(r)
    <3> DEFINE Q == [R EXCEPT !.at = "pages", !.shaky = Names \ Known(node)]
    <3>1. valRun' = [valRun EXCEPT ![r] = Q] /\ UNCHANGED <<dropped, moves>>
      BY <2>1, <1>0 DEF BeginPages
    <3>2. DueFits(Q)
      BY <2>0 DEF DueFits, ValStates
    <3> HIDE DEF Q
    <3> QED
      BY <1>0, <1>4, <3>1, <3>2
  <2>2. CASE ReadPage(r)
    <3>1. PICK found : found = [v \in Names |-> IF v \in Page(R.page) THEN node[v]
                                                ELSE R.found[v]]
      OBVIOUS
    <3>2. PICK at : at = IF More(R.page, Page(R.page)) THEN "pages" ELSE "compare"
      OBVIOUS
    <3> DEFINE Q == [R EXCEPT !.found = found, !.page = R.page + 1, !.at = at]
    <3>3. valRun' = [valRun EXCEPT ![r] = Q] /\ UNCHANGED <<dropped, moves>>
      BY <2>2, <1>0, <3>1, <3>2 DEF ReadPage
    <3>4. Known(R.found) \subseteq Known(found)
      BY <3>1 DEF Known, Page
    <3>5. R.deletes = {} /\ R.updates \subseteq Known(R.found)
      BY <2>2, <2>0 DEF ReadPage, ValInv, RunKnows, DueFits
    <3>6. Q.found = found /\ Q.updates = R.updates /\ Q.deletes = R.deletes
      BY <2>0 DEF ValStates
    <3> HIDE DEF Q
    <3>7. DueFits(Q)
      BY <3>4, <3>5, <3>6 DEF DueFits
    <3> QED
      BY <1>0, <1>4, <3>3, <3>7
  <2>3. CASE Compare(r)
    <3> DEFINE Q == [R EXCEPT !.at = "insert", !.inserts = ShouldInsert(R.found),
                              !.updates = ShouldUpdate(R.found),
                              !.deletes = ShouldDelete(R.found)]
    <3>1. valRun' = [valRun EXCEPT ![r] = Q] /\ UNCHANGED <<dropped, moves>>
      BY <2>3, <1>0 DEF Compare
    <3>2. /\ Q.found = R.found /\ Q.updates = ShouldUpdate(R.found)
          /\ Q.deletes = ShouldDelete(R.found)
      BY <2>0 DEF ValStates
    <3> HIDE DEF Q
    <3>3. DueFits(Q)
      BY <3>2 DEF DueFits, ShouldUpdate, ShouldDelete
    <3> QED
      BY <1>0, <1>4, <3>1, <3>3
  <2>4. CASE SaveValidators(r)
    <3> DEFINE Q == [R EXCEPT !.at = "update"]
    <3>1. /\ \/ valRun' = [valRun EXCEPT ![r] = Q]
             \/ valRun' = [valRun EXCEPT ![r] = ValIdle]
          /\ UNCHANGED <<dropped, moves>>
      BY <2>4, <1>0 DEF SaveValidators
    <3>2. DueFits(Q)
      BY <2>0 DEF DueFits, ValStates
    <3> HIDE DEF Q
    <3> QED
      BY <1>0, <1>3, <1>4, <3>1, <3>2
  <2>5. ASSUME NEW v \in Names, UpdateValidator(r, v)
        PROVE  /\ \A s \in Runs : DueFits(valRun'[s])
               /\ dropped' \subseteq Names /\ moves' \in 0..MaxMoves
    <3> DEFINE Q == [R EXCEPT !.updates = @ \ {v}]
    <3>1. valRun' = [valRun EXCEPT ![r] = Q] /\ UNCHANGED <<dropped, moves>>
      BY <2>5, <1>0 DEF UpdateValidator
    <3>2. DueFits(Q)
      BY <2>0 DEF DueFits, ValStates
    <3> HIDE DEF Q
    <3> QED
      BY <1>0, <1>4, <3>1, <3>2
  <2>6. CASE DeleteValidators(r)
    <3>1. dropped' \subseteq Names /\ moves' = moves
      BY <2>6, <2>0, <1>0 DEF DeleteValidators, ValStates
    <3>2. valRun' = [valRun EXCEPT ![r] = ValIdle]
      BY <2>6 DEF DeleteValidators
    <3> QED
      BY <1>0, <1>3, <1>4, <3>1, <3>2
  <2>7. CASE PageFails(r) \/ ValRunFails(r)
    <3>1. valRun' = [valRun EXCEPT ![r] = ValIdle] /\ UNCHANGED <<dropped, moves>>
      BY <2>7 DEF PageFails, ValRunFails
    <3> QED
      BY <1>0, <1>3, <1>4, <3>1
  <2> QED
    BY <1>6, <2>1, <2>2, <2>3, <2>4, <2>5, <2>6, <2>7 DEF ValRunStep
<1>7. CASE \E v \in Names : DeleteLands(v) \/ DeleteLost(v)
  BY <1>7, <1>0 DEF DeleteLands, DeleteLost
<1>8. CASE UNCHANGED valVars
  BY <1>8, <1>0 DEF valVars
<1> QED
  BY <1>5, <1>6, <1>7, <1>8 DEF ValNext

(* What a run may still count of an open list. *)
UnseenOf(run, h, p) ==
    IF p \in run.open /\ h[p] >= run.page THEN h[p] - (run.page - 1) ELSE 0
MayCount(run, h) ==
    run.sum + UnseenOf(run, h, "delegations") + UnseenOf(run, h, "unbondings")

(* A run counts nothing twice but what has moved: its sum and what it may  *)
(* still count are at most what the account is worth and the moves so far. *)
SumFits(run) ==
    /\ run.sum >= 0
    /\ run.at \in Accounts => MayCount(run, holds[run.at]) <= Worth + transfers

InfoBounds ==
    /\ transfers \in 0..MaxTransfers
    /\ \A a \in Accounts : totals[a] \in -1..(Worth + MaxTransfers)
    /\ doubtful \subseteq Accounts
    /\ SumFits(infoRun)

LEMMA UnseenType ==
    ASSUME NEW run \in InfoRuns, NEW h \in [Places -> Nat], NEW p \in Paged
    PROVE  /\ UnseenOf(run, h, p) \in Nat /\ UnseenOf(run, h, p) <= h[p] /\ h[p] \in Nat
           /\ run.page \in Nat \ {0}
<1>1. h[p] \in Nat /\ run.page \in Nat \ {0}
  BY DEF Places, Paged, InfoRuns
<1> QED
  BY <1>1 DEF UnseenOf

LEMMA MayCountType ==
    ASSUME NEW run \in InfoRuns, NEW h \in [Places -> Nat]
    PROVE  /\ MayCount(run, h) \in Int /\ run.sum <= MayCount(run, h) /\ run.sum \in Int
           /\ UnseenOf(run, h, "delegations") \in Nat /\ UnseenOf(run, h, "unbondings") \in Nat
<1>1. "delegations" \in Paged /\ "unbondings" \in Paged /\ run.sum \in Int
  BY DEF Paged, InfoRuns
<1>2. UnseenOf(run, h, "delegations") \in Nat /\ UnseenOf(run, h, "unbondings") \in Nat
  BY <1>1, UnseenType
<1> QED
  BY <1>1, <1>2 DEF MayCount

LEMMA InfoBoundsInit == InfoInit => InfoBounds
<1> SUFFICES ASSUME InfoInit
             PROVE  InfoBounds
  OBVIOUS
<1>1. infoRun.at = "idle" /\ infoRun.sum = 0 /\ "idle" \notin Accounts
  BY AccountInfoSettings DEF InfoInit, InfoIdle
<1>2. \A a \in Accounts : totals[a] = -1
  BY DEF InfoInit, NoTotal
<1> QED
  BY <1>1, <1>2, AccountInfoSettings DEF InfoBounds, SumFits, InfoInit

(* The first answers are at most what is in their three places. *)
LEMMA BalancesFit ==
    ASSUME NEW a \in Accounts, InfoInv
    PROVE  /\ SumOver(a, Counted(a)) \in Nat
           /\ SumOver(a, Counted(a)) <=
                  holds[a]["balance"] + holds[a]["rewards"] + holds[a]["commission"]
<1>1. PICK h \in [Places -> Nat] : h = holds[a]
  BY DEF InfoInv
<1>2. h["balance"] \in Nat /\ h["rewards"] \in Nat /\ h["commission"] \in Nat
  BY DEF Places
<1>3. CASE a \notin Operators \ infoRun.kept
  BY <1>1, <1>2, <1>3, BalancesAre
<1>4. CASE a \in Operators \ infoRun.kept
  <2>1. Counted(a) = {"balance", "rewards"}
    BY <1>4 DEF Counted
  <2>2. Sum(h, {"balance", "rewards"}) = h["balance"] + h["rewards"]
    <3>1. {"balance", "rewards"} \subseteq Places
      BY DEF Places
    <3> QED
      BY <3>1, SumOfTwo
  <2> QED
    BY <1>1, <1>2, <2>1, <2>2 DEF SumOver, Sum
<1> QED
  BY <1>3, <1>4

LEMMA InfoBoundsStep ==
    InfoInv /\ InfoInv' /\ InfoBounds /\ [InfoNext]_infoVars => InfoBounds'
<1> SUFFICES ASSUME InfoInv, InfoInv', InfoBounds, [InfoNext]_infoVars
             PROVE  InfoBounds'
  OBVIOUS
<1>0. /\ infoRun \in InfoRuns /\ infoRun' \in InfoRuns
      /\ holds \in [Accounts -> [Places -> Nat]] /\ holds' \in [Accounts -> [Places -> Nat]]
      /\ Worth \in Nat /\ MaxTransfers \in Nat /\ "idle" \notin Accounts /\ "next" \notin Accounts
      /\ transfers \in Nat /\ transfers <= MaxTransfers
  BY AccountInfoSettings DEF InfoInv, InfoBounds
<1>1. ASSUME NEW a \in Accounts, NEW src \in Places, NEW dst \in Places,
             Transfer(a, src, dst)
      PROVE  InfoBounds'
  <2>1. /\ transfers' = transfers + 1 /\ transfers' \in 0..MaxTransfers
        /\ UNCHANGED <<totals, doubtful>>
    BY <1>0, <1>1 DEF Transfer
  <2>2. PICK h \in [Places -> Nat], g \in [Places -> Nat] :
            \/ h = holds[infoRun.at] /\ g = holds'[infoRun.at]
            \/ infoRun.at \notin Accounts
    BY <1>0
  <2>3. /\ infoRun'.at = infoRun.at /\ infoRun'.sum = infoRun.sum
        /\ infoRun'.page = infoRun.page /\ infoRun'.open = infoRun.open
    BY <1>0, <1>1 DEF Transfer, InfoRuns
  <2>4. ASSUME infoRun.at \in Accounts
        PROVE  MayCount(infoRun', g) <= MayCount(infoRun, h) + 1
    <3>1. CASE infoRun.at # a
      <4>1. g = h
        BY <1>0, <1>1, <2>2, <2>4, <3>1 DEF Transfer
      <4>2. MayCount(infoRun', g) = MayCount(infoRun, h)
        BY <2>3, <4>1 DEF MayCount, UnseenOf
      <4> QED
        BY <1>0, <4>2, MayCountType
    <3>2. CASE infoRun.at = a
      <4>1. g = [h EXCEPT ![src] = @ - 1, ![dst] = @ + 1] /\ src # dst
        <5>1. holds[a] = h /\ holds'[a] = g
          BY <2>2, <2>4, <3>2
        <5>2. holds' = [holds EXCEPT ![a][src] = @ - 1, ![a][dst] = @ + 1] /\ src # dst
          BY <1>1 DEF Transfer, Moves
        <5> QED
          BY <1>0, <5>1, <5>2
      <4>2. \A p \in Places : g[p] = IF p = src THEN h[p] - 1
                                     ELSE IF p = dst THEN h[p] + 1 ELSE h[p]
        BY <4>1
      <4>3. ASSUME NEW p \in Paged
            PROVE  UnseenOf(infoRun', g, p) <= UnseenOf(infoRun, h, p)
                                               + (IF p = dst THEN 1 ELSE 0)
        <5>1. h[p] \in Nat /\ infoRun.page \in Nat \ {0}
          BY <1>0, UnseenType
        <5>2. g[p] <= h[p] + (IF p = dst THEN 1 ELSE 0) /\ g[p] \in Nat
          <6>1. p \in Places
            BY DEF Paged, Places
          <6> QED
            BY <4>1, <4>2, <5>1, <6>1
        <5> QED
          BY <2>3, <5>1, <5>2 DEF UnseenOf
      <4>4. "delegations" \in Paged /\ "unbondings" \in Paged
        BY DEF Paged
      <4>5. /\ UnseenOf(infoRun', g, "delegations") \in Nat
            /\ UnseenOf(infoRun', g, "unbondings") \in Nat
            /\ UnseenOf(infoRun, h, "delegations") \in Nat
            /\ UnseenOf(infoRun, h, "unbondings") \in Nat
            /\ infoRun.sum \in Int
        BY <1>0, MayCountType
      <4>6. UnseenOf(infoRun', g, "delegations") + UnseenOf(infoRun', g, "unbondings")
              <= UnseenOf(infoRun, h, "delegations") + UnseenOf(infoRun, h, "unbondings") + 1
        BY <4>3, <4>4, <4>5
      <4> QED
        BY <2>3, <4>5, <4>6 DEF MayCount
    <3> QED
      BY <3>1, <3>2
  <2>5. SumFits(infoRun)'
    <3>1. ASSUME infoRun.at \in Accounts
          PROVE  MayCount(infoRun', g) <= Worth + transfers'
      <4>1. MayCount(infoRun, h) <= Worth + transfers
        BY <2>2, <3>1 DEF InfoBounds, SumFits
      <4>2. MayCount(infoRun', g) \in Int /\ MayCount(infoRun, h) \in Int
        BY <1>0, MayCountType
      <4> QED
        BY <1>0, <2>1, <2>4, <3>1, <4>1, <4>2
    <3> QED
      BY <2>2, <2>3, <3>1 DEF InfoBounds, SumFits
  <2> QED
    BY <2>1, <2>5 DEF InfoBounds
<1>2. CASE QueryAllAddress \/ InfoEnds \/ InfoThrows
  <2>1. infoRun'.at \in {"idle", "next"} /\ infoRun'.sum = 0
    <3>1. CASE QueryAllAddress
      BY <3>1 DEF QueryAllAddress, InfoIdle
    <3>2. CASE InfoEnds \/ InfoThrows
      BY <3>2 DEF InfoEnds, InfoThrows, InfoIdle
    <3> QED
      BY <1>2, <3>1, <3>2
  <2>2. UNCHANGED <<transfers, totals, doubtful>>
    BY <1>2 DEF QueryAllAddress, InfoEnds, InfoThrows
  <2> QED
    BY <1>0, <2>1, <2>2 DEF InfoBounds, SumFits
<1>3. ASSUME NEW a \in Accounts, QueryBalances(a)
      PROVE  InfoBounds'
  <2>1. PICK h \in [Places -> Nat] : h = holds[a]
    BY <1>0
  <2>2. PICK sum \in Nat : /\ sum = SumOver(a, Counted(a))
                           /\ sum <= h["balance"] + h["rewards"] + h["commission"]
    BY <2>1, BalancesFit
  <2>3. /\ infoRun'.at = a /\ infoRun'.page = 1 /\ infoRun'.open = Paged /\ infoRun'.sum = sum
        /\ UNCHANGED <<transfers, totals, doubtful>> /\ holds' = holds
    BY <1>0, <1>3, <2>2 DEF QueryBalances, InfoRuns
  <2>4. /\ h["balance"] \in Nat /\ h["rewards"] \in Nat /\ h["commission"] \in Nat
        /\ h["delegations"] \in Nat /\ h["unbondings"] \in Nat /\ h["more"] \in Nat
    BY DEF Places
  <2>5. /\ UnseenOf(infoRun', h, "delegations") <= h["delegations"]
        /\ UnseenOf(infoRun', h, "unbondings") <= h["unbondings"]
        /\ UnseenOf(infoRun', h, "delegations") \in Nat
        /\ UnseenOf(infoRun', h, "unbondings") \in Nat
    <3>1. "delegations" \in Paged /\ "unbondings" \in Paged
      BY DEF Paged
    <3> QED
      BY <1>0, <3>1, UnseenType
  <2>6. AllOf(h) = Worth
    BY <2>1 DEF InfoInv
  <2>7. sum + UnseenOf(infoRun', h, "delegations") + UnseenOf(infoRun', h, "unbondings") <= Worth
    BY <1>0, <2>2, <2>4, <2>5, <2>6 DEF AllOf
  <2>8. MayCount(infoRun', h) <= Worth + transfers
    BY <1>0, <2>2, <2>3, <2>5, <2>7 DEF MayCount
  <2> QED
    BY <2>1, <2>3, <2>8 DEF InfoBounds, SumFits
<1>4. ASSUME NEW a \in Accounts, BalancesFail(a) \/ ListOperator(a)
      PROVE  InfoBounds'
  <2>1. /\ infoRun'.at = infoRun.at /\ infoRun'.sum = infoRun.sum
        /\ infoRun'.page = infoRun.page /\ infoRun'.open = infoRun.open
        /\ UNCHANGED <<transfers, totals, doubtful, holds>>
    BY <1>0, <1>4 DEF BalancesFail, ListOperator, InfoRuns
  <2>2. \A h : MayCount(infoRun', h) = MayCount(infoRun, h)
    BY <2>1 DEF MayCount, UnseenOf
  <2> QED
    BY <2>1, <2>2 DEF InfoBounds, SumFits
<1>5. ASSUME NEW a \in Accounts, QueryPages(a)
      PROVE  InfoBounds'
  <2>1. PICK h \in [Places -> Nat] : h = holds[a]
    BY <1>0
  <2>2. PICK rows : rows = {p \in infoRun.open : h[p] >= infoRun.page}
    OBVIOUS
  <2>3. rows \in SUBSET Paged
    BY <1>0, <2>2 DEF InfoRuns
  <2> DEFINE One(p) == IF p \in rows THEN 1 ELSE 0
  <2>4. Cardinality(rows) = One("delegations") + One("unbondings")
    BY <2>3, RowsOfPages
  <2>5. PICK k \in Nat : k = Cardinality(rows)
    BY <2>4
  <2>6. /\ infoRun.at = a /\ infoRun'.at = a
        /\ infoRun'.page = infoRun.page + 1
        /\ infoRun'.open = {p \in infoRun.open : h[p] > infoRun.page}
        /\ infoRun'.sum = infoRun.sum + k
        /\ UNCHANGED <<transfers, totals, doubtful, holds>>
    BY <1>0, <1>5, <2>1, <2>2, <2>5 DEF QueryPages, StillOpen, InfoRuns
  <2>7. ASSUME NEW p \in Paged
        PROVE  UnseenOf(infoRun', h, p) + One(p) <= UnseenOf(infoRun, h, p)
    <3>1. h[p] \in Nat /\ infoRun.page \in Nat \ {0}
      BY <1>0, UnseenType
    <3>2. CASE p \notin infoRun.open
      BY <2>2, <2>6, <3>2 DEF UnseenOf
    <3>3. CASE p \in infoRun.open /\ h[p] > infoRun.page
      <4>1. p \in rows /\ p \in infoRun'.open
        BY <2>2, <2>6, <3>1, <3>3
      <4> QED
        BY <2>6, <3>1, <3>3, <4>1 DEF UnseenOf
    <3>4. CASE p \in infoRun.open /\ h[p] = infoRun.page
      <4>1. p \in rows /\ p \notin infoRun'.open
        BY <2>2, <2>6, <3>1, <3>4
      <4> QED
        BY <2>6, <3>1, <3>4, <4>1 DEF UnseenOf
    <3>5. CASE p \in infoRun.open /\ h[p] < infoRun.page
      <4>1. p \notin rows /\ p \notin infoRun'.open
        BY <2>2, <2>6, <3>1, <3>5
      <4> QED
        BY <2>6, <3>1, <3>5, <4>1 DEF UnseenOf
    <3> QED
      BY <3>1, <3>2, <3>3, <3>4, <3>5
  <2>8. "delegations" \in Paged /\ "unbondings" \in Paged
    BY DEF Paged
  <2>9. /\ UnseenOf(infoRun', h, "delegations") \in Nat
        /\ UnseenOf(infoRun', h, "unbondings") \in Nat
        /\ UnseenOf(infoRun, h, "delegations") \in Nat
        /\ UnseenOf(infoRun, h, "unbondings") \in Nat
        /\ infoRun.sum \in Int
    BY <1>0, MayCountType
  <2>10. /\ UnseenOf(infoRun', h, "delegations") + One("delegations")
               <= UnseenOf(infoRun, h, "delegations")
         /\ UnseenOf(infoRun', h, "unbondings") + One("unbondings")
               <= UnseenOf(infoRun, h, "unbondings")
         /\ One("delegations") \in Nat /\ One("unbondings") \in Nat
    BY <2>7, <2>8
  <2> HIDE DEF One
  <2>11. MayCount(infoRun', h) <= MayCount(infoRun, h)
    BY <2>4, <2>5, <2>6, <2>9, <2>10 DEF MayCount
  <2>12. MayCount(infoRun, h) <= Worth + transfers /\ infoRun.sum >= 0
    BY <2>1, <2>6 DEF InfoBounds, SumFits
  <2>13. MayCount(infoRun', h) <= Worth + transfers /\ infoRun'.sum >= 0
    <3>1. MayCount(infoRun', h) \in Int /\ MayCount(infoRun, h) \in Int
      BY <1>0, MayCountType
    <3> QED
      BY <1>0, <2>5, <2>6, <2>9, <2>11, <2>12, <3>1
  <2> QED
    BY <2>1, <2>6, <2>13 DEF InfoBounds, SumFits
<1>6. ASSUME NEW a \in Accounts, PagesFail(a)
      PROVE  InfoBounds'
  <2>1. /\ infoRun'.at = infoRun.at /\ infoRun'.sum = infoRun.sum /\ infoRun.at = a
        /\ infoRun'.page = infoRun.page /\ infoRun'.open \subseteq infoRun.open
        /\ UNCHANGED <<transfers, totals, doubtful, holds>>
    BY <1>0, <1>6 DEF PagesFail, InfoRuns
  <2>2. PICK h \in [Places -> Nat] : h = holds[a]
    BY <1>0
  <2>3. ASSUME NEW p \in Paged
        PROVE  UnseenOf(infoRun', h, p) <= UnseenOf(infoRun, h, p)
    <3>1. UnseenOf(infoRun, h, p) \in Nat
      BY <1>0, UnseenType
    <3> QED
      BY <2>1, <3>1 DEF UnseenOf
  <2>4. "delegations" \in Paged /\ "unbondings" \in Paged
    BY DEF Paged
  <2>5. /\ UnseenOf(infoRun', h, "delegations") \in Nat
        /\ UnseenOf(infoRun', h, "unbondings") \in Nat
        /\ UnseenOf(infoRun, h, "delegations") \in Nat
        /\ UnseenOf(infoRun, h, "unbondings") \in Nat
        /\ infoRun.sum \in Int
    BY <1>0, MayCountType
  <2>6. MayCount(infoRun', h) <= MayCount(infoRun, h)
    <3>1. /\ UnseenOf(infoRun', h, "delegations") <= UnseenOf(infoRun, h, "delegations")
          /\ UnseenOf(infoRun', h, "unbondings") <= UnseenOf(infoRun, h, "unbondings")
      BY <2>3, <2>4
    <3> QED
      BY <2>1, <2>5, <3>1 DEF MayCount
  <2>7. MayCount(infoRun, h) <= Worth + transfers /\ infoRun.sum >= 0
    BY <2>1, <2>2 DEF InfoBounds, SumFits
  <2>8. MayCount(infoRun', h) <= Worth + transfers
    <3>1. MayCount(infoRun', h) \in Int /\ MayCount(infoRun, h) \in Int
      BY <1>0, MayCountType
    <3> QED
      BY <1>0, <2>6, <2>7, <3>1
  <2> QED
    BY <2>1, <2>2, <2>7, <2>8 DEF InfoBounds, SumFits
<1>7. ASSUME NEW a \in Accounts, UpdateAccount(a)
      PROVE  InfoBounds'
  <2>1. PICK h \in [Places -> Nat] : h = holds[a]
    BY <1>0
  <2>2. infoRun.at = a /\ infoRun.open = {}
    BY <1>7 DEF UpdateAccount
  <2>3. infoRun.sum <= Worth + transfers /\ infoRun.sum >= 0 /\ infoRun.sum \in Int
    <3>1. MayCount(infoRun, h) = infoRun.sum /\ infoRun.sum \in Int
      BY <1>0, <2>2 DEF MayCount, UnseenOf, InfoRuns
    <3> QED
      BY <2>1, <2>2, <3>1 DEF InfoBounds, SumFits
  <2>4. /\ totals' = [totals EXCEPT ![a] = infoRun.sum]
        /\ doubtful' \in {doubtful \cup {a}, doubtful \ {a}}
        /\ infoRun'.at = "next" /\ infoRun'.sum = 0 /\ transfers' = transfers
    BY <1>0, <1>7 DEF UpdateAccount, InfoRuns
  <2>5. infoRun.sum \in -1..(Worth + MaxTransfers)
    BY <1>0, <2>3
  <2>6. \A b \in Accounts : totals'[b] \in -1..(Worth + MaxTransfers)
    BY <2>4, <2>5 DEF InfoBounds, InfoInv
  <2> QED
    BY <1>0, <2>4, <2>6 DEF InfoBounds, SumFits
<1>8. CASE UNCHANGED infoVars
  BY <1>8 DEF infoVars, InfoBounds, SumFits
<1> QED
  BY <1>1, <1>2, <1>3, <1>4, <1>5, <1>6, <1>7, <1>8 DEF InfoNext, InfoStep

LEMMA InfoTypes == InfoInv /\ InfoBounds => InfoTypeOK
<1> SUFFICES ASSUME InfoInv, InfoBounds
             PROVE  InfoTypeOK
  OBVIOUS
<1>1. ASSUME NEW a \in Accounts
      PROVE  holds[a] \in [Places -> 0..Worth]
  <2>1. PICK h \in [Places -> Nat] : h = holds[a]
    BY DEF InfoInv
  <2>2. AllOf(h) = Worth /\ Worth \in Nat
    BY <2>1, AccountInfoSettings DEF InfoInv
  <2>3. /\ h["balance"] \in Nat /\ h["rewards"] \in Nat /\ h["commission"] \in Nat
        /\ h["delegations"] \in Nat /\ h["unbondings"] \in Nat /\ h["more"] \in Nat
    BY DEF Places
  <2>4. /\ h["balance"] <= Worth /\ h["rewards"] <= Worth /\ h["commission"] <= Worth
        /\ h["delegations"] <= Worth /\ h["unbondings"] <= Worth /\ h["more"] <= Worth
    BY <2>2, <2>3 DEF AllOf
  <2>5. \A p \in Places : h[p] \in 0..Worth
    BY <2>2, <2>3, <2>4 DEF Places
  <2> QED
    BY <2>1, <2>5
<1>2. /\ infoRun.at \in {"idle", "next"} \cup Accounts
      /\ infoRun.todo \subseteq Accounts /\ infoRun.kept \subseteq Operators
      /\ infoRun.open \subseteq Paged
  BY DEF InfoInv, InfoRuns
<1> QED
  BY <1>1, <1>2 DEF InfoTypeOK, InfoBounds, InfoInv

(***************************************************************************)
(* The types of a tally: votes are numbered in the order they are cast,    *)
(* and a run has added to its total what it takes from the validators, so  *)
(* what is left of them keeps the total from becoming negative.            *)
(***************************************************************************)
TallyBounds ==
    /\ restakes \in 0..MaxRestakes
    /\ kept \in [Vals -> Nat]
    /\ \A x \in VoteTxs : castAt[x] <= Cardinality(CastTxs)
    /\ tally.shares \in [Vals -> Nat] /\ tally.deducted \in [Vals -> Nat]
    /\ tally.total = Sum(tally.deducted, Vals)
    /\ result.total \in Nat

LEMMA SharesAreNat ==
    ASSUME NEW s \in [Delegators -> [Vals -> Nat]]
    PROVE  SharesOf(s) \in [Vals -> Nat]
<1>1. ASSUME NEW v \in Vals
      PROVE  Delegated(s, v, Delegators) \in Nat
  <2>1. PICK d \in [Delegators -> Nat] : d = [w \in Delegators |-> s[w][v]]
    OBVIOUS
  <2>2. Sum(d, Delegators) \in Nat
    BY TallySettings, SumsAreNat
  <2>3. QED
    BY <2>1, <2>2 DEF Delegated, Sum
<1>2. QED
  BY <1>1 DEF SharesOf

LEMMA IdleTotal == TallyIdle.total = Sum(TallyIdle.deducted, Vals)
<1>1. PICK d \in [Vals -> Int] : d = [v \in Vals |-> 0]
  <2>1. [v \in Vals |-> 0] \in [Vals -> Int]
    OBVIOUS
  <2>2. QED
    BY <2>1
<1>2. Sum(d, Vals) = Sum(d, {})
  <2>1. {} \in SUBSET Vals /\ \A v \in Vals \ {} : d[v] = 0
    BY <1>1
  <2>2. QED
    BY <2>1, TallySettings, SumSkipsZeros
<1>3. QED
  BY <1>1, <1>2, SumOfNone DEF TallyIdle

LEMMA TallyBoundsInit == TallyInit => TallyBounds
<1>1. SUFFICES ASSUME TallyInit
               PROVE  TallyBounds
  OBVIOUS
<1>2. restakes \in 0..MaxRestakes /\ result.total \in Nat
  BY <1>1, TallySettings DEF TallyInit, NoResult
<1>3. kept \in [Vals -> Nat]
  BY <1>1, TallySettings, SharesAreNat DEF TallyInit
<1>4. CastTxs = {} /\ \A x \in VoteTxs : castAt[x] = 0
  BY <1>1 DEF TallyInit, CastTxs
<1>5. /\ tally.shares \in [Vals -> Nat] /\ tally.deducted \in [Vals -> Nat]
      /\ tally.total = Sum(tally.deducted, Vals)
  <2>1. tally = TallyIdle
    BY <1>1 DEF TallyInit
  <2>2. TallyIdle.shares \in [Vals -> Nat] /\ TallyIdle.deducted \in [Vals -> Nat]
    BY DEF TallyIdle
  <2>3. QED
    BY <2>1, <2>2, IdleTotal
<1>6. QED
  BY <1>2, <1>3, <1>4, <1>5, NoMembers DEF TallyBounds

(* A disturbed run has counted what it had. *)
LEMMA DisturbedBounds ==
    ASSUME TallyInv, TallyBounds, Disturbs
    PROVE  /\ tally'.shares \in [Vals -> Nat] /\ tally'.deducted \in [Vals -> Nat]
           /\ tally'.total = Sum(tally'.deducted, Vals)
<1>1. tally \in TallyRuns
  BY DEF TallyInv, RunIsRight
<1>2. PICK run : run = tally'
  OBVIOUS
<1>3. run.shares = tally.shares /\ run.deducted = tally.deducted /\ run.total = tally.total
  BY <1>1, <1>2 DEF Disturbs, TallyRuns
<1>4. QED
  BY <1>2, <1>3 DEF TallyBounds

LEMMA RedelegateBounds ==
    ASSUME NEW w \in Delegators, NEW src \in Vals, NEW dst \in Vals,
           TallyInv, TallyBounds, Redelegate(w, src, dst)
    PROVE  TallyBounds'
<1>1. restakes' \in 0..MaxRestakes
  <2>1. restakes < MaxRestakes /\ restakes' = restakes + 1
    BY DEF Redelegate
  <2>2. restakes \in 0..MaxRestakes /\ MaxRestakes \in Nat
    BY TallySettings DEF TallyBounds
  <2>3. QED
    BY <2>1, <2>2
<1>2. Disturbs /\ UNCHANGED <<kept, castAt, result>>
  BY DEF Redelegate
<1>3. CastTxs' = CastTxs
  BY <1>2 DEF CastTxs
<1>4. \A x \in VoteTxs : castAt'[x] <= Cardinality(CastTxs')
  BY <1>2, <1>3 DEF TallyBounds
<1>5. QED
  BY <1>1, <1>2, <1>4, DisturbedBounds DEF TallyBounds

(* The next vote gets the next number. *)
LEMMA CastBounds ==
    ASSUME NEW x \in VoteTxs, TallyInv, TallyBounds, Cast(x)
    PROVE  TallyBounds'
<1> DEFINE Orders == {castAt[y] : y \in VoteTxs}
<1>1. castAt \in [VoteTxs -> Nat] /\ castAt[x] = 0
  BY DEF TallyInv, Cast
<1>2. castAt \in Surjection(VoteTxs, Orders)
  BY <1>1 DEF Surjection
<1>3. Orders \in SUBSET Nat /\ IsFiniteSet(Orders) /\ Orders # {}
  BY <1>1, <1>2, TallySettings, FS_Surjection
<1>4. PICK top : top = Max(Orders)
  OBVIOUS
<1>5. castAt' = [castAt EXCEPT ![x] = 1 + top]
  BY <1>4 DEF Cast
<1>6. PICK y \in VoteTxs : top = castAt[y]
  <2> HIDE DEF Orders
  <2>1. top \in Orders
    BY <1>3, <1>4, FiniteMax
  <2>2. QED
    BY <2>1 DEF Orders
<1> HIDE DEF Orders
<1>7. CastTxs' = CastTxs \cup {x} /\ x \notin CastTxs /\ CastTxs \in SUBSET VoteTxs
  BY <1>1, <1>5, <1>6 DEF CastTxs
<1>8. PICK n \in Nat : n = Cardinality(CastTxs) /\ Cardinality(CastTxs') = n + 1
  <2>1. IsFiniteSet(CastTxs)
    BY <1>7, TallySettings, FS_Subset
  <2>2. Cardinality(CastTxs) \in Nat
    BY <2>1, FS_CardinalityType
  <2>3. Cardinality(CastTxs \cup {x}) = Cardinality(CastTxs) + 1
    BY <1>7, <2>1, FS_AddElement
  <2>4. QED
    BY <1>7, <2>2, <2>3
<1>9. top <= n /\ top \in Nat
  BY <1>1, <1>6, <1>8 DEF TallyBounds
<1>10. \A z \in VoteTxs : castAt'[z] <= n + 1
  <2>1. \A z \in VoteTxs : castAt[z] <= n /\ castAt[z] \in Nat
    BY <1>1, <1>8 DEF TallyBounds
  <2>2. QED
    BY <1>1, <1>5, <1>9, <2>1
<1>11. Disturbs /\ UNCHANGED <<restakes, kept, result>>
  BY DEF Cast
<1>12. QED
  BY <1>8, <1>10, <1>11, DisturbedBounds DEF TallyBounds

LEMMA KeepSharesBounds ==
    ASSUME TallyInv, TallyBounds, KeepShares
    PROVE  TallyBounds'
<1>1. kept' \in [Vals -> Nat] /\ UNCHANGED <<restakes, castAt, tally, result>>
  BY SharesAreNat DEF TallyInv, KeepShares
<1>2. CastTxs' = CastTxs
  BY <1>1 DEF CastTxs
<1>3. QED
  BY <1>1, <1>2 DEF TallyBounds

(* A step of a run: what is left to show. *)
LEMMA RunBounds ==
    ASSUME TallyBounds, UNCHANGED <<restakes, kept, castAt>>,
           tally'.shares \in [Vals -> Nat], tally'.deducted \in [Vals -> Nat],
           tally'.total = Sum(tally'.deducted, Vals), result'.total \in Nat
    PROVE  TallyBounds'
<1>1. CastTxs' = CastTxs
  BY DEF CastTxs
<1>2. QED
  BY <1>1 DEF TallyBounds

LEMMA QueryActiveValBounds ==
    ASSUME TallyInv, TallyBounds, QueryActiveVal
    PROVE  TallyBounds'
<1>1. PICK run : run = tally'
  OBVIOUS
<1>2. run.shares = kept /\ run.deducted = TallyIdle.deducted /\ run.total = TallyIdle.total
  BY <1>1 DEF QueryActiveVal, TallyIdle
<1>3. run.deducted \in [Vals -> Nat] /\ run.shares \in [Vals -> Nat]
  BY <1>2 DEF TallyIdle, TallyBounds
<1>4. UNCHANGED <<restakes, kept, castAt, result>>
  BY DEF QueryActiveVal
<1>5. QED
  BY <1>1, <1>2, <1>3, <1>4, IdleTotal, RunBounds DEF TallyBounds

LEMMA QueryVoteBounds ==
    ASSUME TallyInv, TallyBounds, QueryVoteByProposalId
    PROVE  TallyBounds'
<1>1. PICK run : run = tally'
  OBVIOUS
<1>2. run.shares = tally.shares /\ run.deducted = tally.deducted /\ run.total = tally.total
  <2>1. tally \in TallyRuns
    BY DEF TallyInv, RunIsRight
  <2>2. QED
    BY <1>1, <2>1 DEF QueryVoteByProposalId, TallyRuns
<1>3. UNCHANGED <<restakes, kept, castAt, result>>
  BY DEF QueryVoteByProposalId
<1>4. QED
  BY <1>1, <1>2, <1>3, RunBounds DEF TallyBounds

(* What is added to the total is what is taken from the validators. *)
LEMMA CountVoterBounds ==
    ASSUME NEW x \in VoteTxs, TallyInv, TallyBounds, CountVoter(x)
    PROVE  TallyBounds'
<1>1. PICK w \in Delegators : w = FirstOf(x)
  BY FirstIsDelegator
<1>2. PICK s \in [Vals -> Nat] : s = stake[w]
  BY <1>1 DEF TallyInv
<1>3. tally \in TallyRuns
  BY DEF TallyInv, RunIsRight
<1>4. PICK d \in [Vals -> Nat] : d = tally.deducted
  BY DEF TallyBounds
<1>5. PICK e \in [Vals -> Nat] : e = [v \in Vals |-> d[v] + s[v]]
  <2>1. [v \in Vals |-> d[v] + s[v]] \in [Vals -> Nat]
    OBVIOUS
  <2>2. QED
    BY <2>1
<1>6. PICK run : run = tally'
  OBVIOUS
<1>7. /\ run.shares = tally.shares /\ run.deducted = e
      /\ run.total = tally.total + Power(w, Vals)
  BY <1>1, <1>2, <1>3, <1>4, <1>5, <1>6 DEF CountVoter, FirstOf, Deducted, TallyRuns
<1>8. Sum(e, Vals) = Sum(d, Vals) + Sum(s, Vals)
  BY <1>5, TallySettings, SumsAdd
<1>9. run.total = Sum(run.deducted, Vals)
  BY <1>2, <1>4, <1>7, <1>8 DEF TallyBounds, Power, Sum
<1>10. UNCHANGED <<restakes, kept, castAt, result>>
  BY DEF CountVoter
<1>11. QED
  BY <1>6, <1>7, <1>9, <1>10, RunBounds DEF TallyBounds

LEMMA DelegationsFailBounds ==
    ASSUME NEW x \in VoteTxs, TallyInv, TallyBounds, DelegationsFail(x)
    PROVE  TallyBounds'
<1>1. PICK run : run = tally'
  OBVIOUS
<1>2. run.shares = tally.shares /\ run.deducted = tally.deducted /\ run.total = tally.total
  <2>1. tally \in TallyRuns
    BY DEF TallyInv, RunIsRight
  <2>2. QED
    BY <1>1, <2>1 DEF DelegationsFail, TallyRuns
<1>3. UNCHANGED <<restakes, kept, castAt, result>>
  BY DEF DelegationsFail
<1>4. QED
  BY <1>1, <1>2, <1>3, RunBounds DEF TallyBounds

(* What is left of the validators of an account, and the account of each. *)
LEMMA LeftOf ==
    ASSUME RunIsRight(tally), NEW f \in [Vals -> Int], NEW i, i = tally.info,
           f = [v \in Vals |-> tally.shares[v] - tally.deducted[v]],
           NEW W \in SUBSET Delegators, W = {w \in Delegators : i[w].isValidator},
           NEW whole \in SUBSET Vals, whole = {v \in Vals : operator[v] \in W}
    PROVE  SumFunction([w \in Delegators |-> NotVoted(w)]) = Sum(f, whole)
<1>1. PICK N : N = [w \in Delegators |-> NotVoted(w)]
  OBVIOUS
<1>2. \A w \in Delegators : N[w] \in Int
  BY <1>1, NotVotedIs
<1>3. IsFiniteSet(Delegators) /\ IsFiniteSet(Vals) /\ IsFiniteSet(W)
  BY TallySettings, FS_Subset
<1>4. PICK part : part = [w \in W |-> {v \in Vals : operator[v] = w}]
  OBVIOUS
<1>5. \A w \in Delegators \ W : N[w] = 0
  BY <1>1 DEF NotVoted
<1>6. \A w \in W : N[w] = Sum(f, part[w])
  BY <1>1, <1>4 DEF NotVoted, Sum
<1>7. Sum(N, Delegators) = Sum(N, W)
  BY <1>2, <1>3, <1>5, SumSkipsZeros
<1>8. \A v \in Vals : f[v] \in Int
  OBVIOUS
<1>9. \A w \in W : part[w] \in SUBSET Vals
  BY <1>4
<1>10. \A w \in W : \A v \in Vals : v \in part[w] <=> operator[v] = w
  BY <1>4
<1>11. \A v \in Vals : v \in whole <=> operator[v] \in W
  OBVIOUS
<1>12. Sum(N, W) = Sum(f, whole)
  BY ONLY <1>3, <1>6, <1>8, <1>9, <1>10, <1>11, whole \in SUBSET Vals, SumOfParts
<1>13. SumFunction(N) = Sum(N, Delegators)
  BY <1>1 DEF SumFunction, Sum
<1>14. QED
  BY <1>1, <1>7, <1>12, <1>13

LEMMA TotalIsNat ==
    ASSUME TallyInv, TallyBounds
    PROVE  Total \in Nat
<1>1. RunIsRight(tally) /\ tally \in TallyRuns
  BY DEF TallyInv, RunIsRight
<1>2. PICK s \in [Vals -> Nat], d \in [Vals -> Nat] : s = tally.shares /\ d = tally.deducted
  BY DEF TallyBounds
<1>3. PICK f \in [Vals -> Int] : f = [v \in Vals |-> s[v] - d[v]]
  <2>1. [v \in Vals |-> s[v] - d[v]] \in [Vals -> Int]
    OBVIOUS
  <2>2. QED
    BY <2>1
<1>4. PICK W \in SUBSET Delegators : W = {w \in Delegators : tally.info[w].isValidator}
  OBVIOUS
<1>5. PICK whole \in SUBSET Vals : whole = {v \in Vals : operator[v] \in W}
  OBVIOUS
<1>6. SumFunction([w \in Delegators |-> NotVoted(w)]) = Sum(f, whole)
  <2>1. f = [v \in Vals |-> tally.shares[v] - tally.deducted[v]]
    BY <1>2, <1>3
  <2>2. QED
    BY <1>1, <1>4, <1>5, <2>1, LeftOf
<1>7. PICK R : R = Vals \ whole
  OBVIOUS
<1>8. IsFiniteSet(whole) /\ IsFiniteSet(R) /\ whole \cap R = {} /\ whole \cup R = Vals
  BY <1>7, TallySettings, FS_Subset
<1>9. Sum(d, Vals) = Sum(d, whole) + Sum(d, R)
  <2>1. \A v \in whole \cup R : d[v] \in Int
    BY <1>8
  <2>2. Sum(d, whole \cup R) = Sum(d, whole) + Sum(d, R)
    BY <1>8, <2>1, SumOfUnion
  <2>3. QED
    BY <1>8, <2>2
<1>10. Sum(s, whole) = Sum(f, whole) + Sum(d, whole)
  <2>1. \A v \in whole : f[v] \in Int /\ d[v] \in Int /\ s[v] = f[v] + d[v]
    BY <1>3
  <2>2. QED
    BY <1>8, <2>1, SumsAdd
<1>11. Sum(s, whole) \in Nat /\ Sum(d, R) \in Nat
  BY <1>7, <1>8, SumsAreNat
<1>12. Sum(f, whole) \in Int /\ Sum(d, whole) \in Int
  BY <1>8, SumType
<1>13. Total = Sum(d, Vals) + Sum(f, whole)
  BY <1>2, <1>6 DEF Total, TallyBounds
<1>14. PICK a \in Int, b \in Int, c \in Nat, n \in Nat :
           a = Sum(f, whole) /\ b = Sum(d, whole) /\ c = Sum(d, R) /\ n = Sum(s, whole)
  BY <1>11, <1>12
<1>15. n = a + b => (b + c) + a \in Nat
  OBVIOUS
<1>16. QED
  BY <1>9, <1>10, <1>13, <1>14, <1>15

LEMMA TallyEndsBounds ==
    ASSUME TallyInv, TallyBounds, TallyEnds
    PROVE  TallyBounds'
<1>1. result'.total \in Nat
  BY TotalIsNat DEF TallyEnds
<1>2. TallyIdle.shares \in [Vals -> Nat] /\ TallyIdle.deducted \in [Vals -> Nat]
  BY DEF TallyIdle
<1>3. tally' = TallyIdle /\ UNCHANGED <<restakes, kept, castAt>>
  BY DEF TallyEnds
<1>4. QED
  BY <1>1, <1>2, <1>3, IdleTotal, RunBounds

LEMMA TallyBoundsStep ==
    TallyInv /\ TallyBounds /\ [TallyNext]_tallyVars => TallyBounds'
<1>1. SUFFICES ASSUME TallyInv, TallyBounds, [TallyNext]_tallyVars
               PROVE  TallyBounds'
  OBVIOUS
<1>2. ASSUME NEW w \in Delegators, NEW src \in Vals, NEW dst \in Vals,
             Redelegate(w, src, dst)
      PROVE  TallyBounds'
  BY <1>1, <1>2, RedelegateBounds
<1>3. ASSUME NEW x \in VoteTxs, Cast(x) \/ CountVoter(x) \/ DelegationsFail(x)
      PROVE  TallyBounds'
  BY <1>1, <1>3, CastBounds, CountVoterBounds, DelegationsFailBounds
<1>4. CASE KeepShares \/ QueryActiveVal \/ QueryVoteByProposalId \/ TallyEnds
  BY <1>1, <1>4, KeepSharesBounds, QueryActiveValBounds, QueryVoteBounds, TallyEndsBounds
<1>5. CASE UNCHANGED tallyVars
  <2>1. UNCHANGED <<restakes, kept, castAt, tally, result>>
    BY <1>5 DEF tallyVars
  <2>2. QED
    BY <1>1, <2>1, RunBounds DEF TallyBounds
<1>6. QED
  BY <1>1, <1>2, <1>3, <1>4, <1>5 DEF TallyNext

LEMMA TallyTypes == TallyInv /\ TallyBounds => TallyTypeOK
<1>1. SUFFICES ASSUME TallyInv, TallyBounds
               PROVE  TallyTypeOK
  OBVIOUS
<1>2. tally.at \in {"idle", "votes", "voters"} /\ tally.todo \subseteq VoteTxs
  BY <1>1 DEF TallyInv, RunIsRight, TallyRuns
<1>3. tally.total \in Nat
  BY <1>1, TallySettings, SumsAreNat DEF TallyBounds
<1>4. castAt \in [VoteTxs -> 0..Cardinality(VoteTxs)]
  <2>1. CastTxs \in SUBSET VoteTxs
    BY DEF CastTxs
  <2>2. PICK n \in Nat, m \in Nat :
            n = Cardinality(CastTxs) /\ m = Cardinality(VoteTxs) /\ n <= m
    BY <2>1, TallySettings, FS_Subset, FS_CardinalityType
  <2>3. castAt \in [VoteTxs -> Nat] /\ \A x \in VoteTxs : castAt[x] <= n
    BY <1>1, <2>2 DEF TallyInv, TallyBounds
  <2>4. \A x \in VoteTxs : castAt[x] \in 0..m
    BY <2>2, <2>3
  <2>5. QED
    BY <2>2, <2>3, <2>4
<1>5. QED
  BY <1>1, <1>2, <1>3, <1>4 DEF TallyInv, TallyBounds, TallyTypeOK

(***************************************************************************)
(* Mirrors: the tasks together.                                            *)
(***************************************************************************)
MirrorsInv ==
    /\ DenomInv /\ TokenInv
    /\ ValInv /\ ValTypeOK
    /\ InfoInv /\ InfoBounds
    /\ TallyInv /\ TallyBounds

(* A step of the tasks is a step of each of them, or leaves it alone. *)
LEMMA TasksMove ==
    [MirrorsNext]_mirrorVars =>
        /\ [DenomNext]_denomVars /\ [TokenNext]_tokenVars /\ [ValNext]_valVars
        /\ [InfoNext]_infoVars /\ [TallyNext]_tallyVars
<1>1. SUFFICES ASSUME [MirrorsNext]_mirrorVars
               PROVE  /\ [DenomNext]_denomVars /\ [TokenNext]_tokenVars /\ [ValNext]_valVars
                      /\ [InfoNext]_infoVars /\ [TallyNext]_tallyVars
  OBVIOUS
<1>2. CASE DenomTask \/ TokenTask \/ ValidatorTask \/ AccountTask \/ TallyTask
  BY <1>2 DEF DenomTask, TokenTask, ValidatorTask, AccountTask, TallyTask
<1>3. CASE UNCHANGED mirrorVars
  BY <1>3 DEF mirrorVars
<1>4. QED
  BY <1>1, <1>2, <1>3 DEF MirrorsNext

LEMMA MirrorsStart == MirrorsInit => MirrorsInv
  BY DenomInitInv, TokenStarts, ValInitInv, ValTypeInit, InfoStarts, InfoBoundsInit,
     TallyStarts, TallyBoundsInit DEF MirrorsInit, MirrorsInv

LEMMA MirrorsStep == MirrorsInv /\ [MirrorsNext]_mirrorVars => MirrorsInv'
<1>1. SUFFICES ASSUME MirrorsInv, [MirrorsNext]_mirrorVars
               PROVE  MirrorsInv'
  OBVIOUS
<1>2. DenomInv' /\ TokenInv'
  BY <1>1, TasksMove, DenomStepInv, TokenStepInv DEF MirrorsInv
<1>3. ValInv' /\ ValTypeOK'
  BY <1>1, TasksMove, ValStepInv, ValTypeStep DEF MirrorsInv
<1>4. InfoInv' /\ InfoBounds'
  BY <1>1, TasksMove, InfoStepInv, InfoBoundsStep DEF MirrorsInv
<1>5. TallyInv' /\ TallyBounds'
  BY <1>1, TasksMove, TallyStepInv, TallyBoundsStep DEF MirrorsInv
<1>6. QED
  BY <1>2, <1>3, <1>4, <1>5 DEF MirrorsInv

(* Every collection and every run has its type, and every number its       *)
(* bounds: no total of an account exceeds what the account is worth and    *)
(* what has moved, no tally is negative (AccountInfoTaskService.doTask,    *)
(* ProposalTaskService.tallyDetails).                                      *)
THEOREM MirrorsAreTyped == MirrorsSpec => []MirrorsTypeOK
<1>1. MirrorsInv => MirrorsTypeOK
  <2>1. MirrorsInv => DenomTypeOK
    BY DEF MirrorsInv, DenomInv
  <2>2. MirrorsInv => TokenTypeOK
    BY DEF MirrorsInv, TokenInv
  <2>3. MirrorsInv => ValTypeOK /\ InfoTypeOK /\ TallyTypeOK
    BY InfoTypes, TallyTypes DEF MirrorsInv
  <2>4. QED
    BY <2>1, <2>2, <2>3 DEF MirrorsTypeOK
<1>2. QED
  BY <1>1, MirrorsStart, MirrorsStep, PTL DEF MirrorsSpec

(* What the tasks promise of their collections, they promise when they     *)
(* share the faults of the chain and of the database.                      *)
MirrorsAreRight ==
    NoDenomSkipped /\ SupplyMatchesHeight /\ NobodyIsDropped /\ TotalIsTrue

(* Together the tasks keep what each of them keeps alone: denoms below the *)
(* cursor, supplies at their heights, validators that stay, totals that    *)
(* are whole, and tallies that are exact.                                  *)
THEOREM TasksKeepTheirWord == MirrorsSpec => []MirrorsAreRight /\ TallyIsExact
<1>1. MirrorsInv => MirrorsAreRight
  <2>1. MirrorsInv => NoDenomSkipped
    BY DenomInvMeans DEF MirrorsInv
  <2>2. MirrorsInv => SupplyMatchesHeight
    BY DEF MirrorsInv, TokenInv, DocFits, Clean, SupplyMatchesHeight
  <2>3. MirrorsInv => NobodyIsDropped
    BY DEF MirrorsInv, ValInv, RunKnows, NobodyIsDropped
  <2>4. MirrorsInv => TotalIsTrue
    BY DEF MirrorsInv, InfoInv
  <2>5. QED
    BY <2>1, <2>2, <2>3, <2>4 DEF MirrorsAreRight
<1>2. MirrorsInv /\ [MirrorsNext]_mirrorVars => [TallyStep]_tallyVars
  <2>1. MirrorsInv /\ [TallyNext]_tallyVars => [TallyStep]_tallyVars
    BY TallyStepRight DEF TallyStep, MirrorsInv
  <2>2. QED
    BY <2>1, TasksMove
<1>3. QED
  BY <1>1, <1>2, MirrorsStart, MirrorsStep, PTL DEF MirrorsSpec, TallyIsExact
=============================================================================
