------------------------- MODULE AccountSync_proofs -------------------------
(* Proofs about AccountSync for any addresses, any number of overlapping   *)
(* runs, any window size and a chain of any length.                        *)
EXTENDS AccountSync, TLAPS

USE AccountSettings

(* What a run holds is covered: everything up to the height it starts      *)
(* from, and everything up to the height it is about to record.            *)
RunCovered(r) ==
    /\ from[r] <= top /\ CollectedUpTo(from[r])
    /\ max[r] <= top
    /\ handled[r] <= top /\ CollectedUpTo(handled[r])

(* Before the window is read there is nothing to insert. *)
NothingPendingEarly ==
    \A r \in Runs : stage[r] \in {"idle", "max", "window"} => pending[r] = {}

(* The inductive strengthening of NothingMissed and BehindTheChain. *)
IInv ==
    /\ TypeOK
    /\ \A t \in txs : t.height <= top
    /\ NothingPendingEarly
    /\ NothingMissed
    /\ BehindTheChain
    /\ \A r \in Runs : RunCovered(r)

LEMMA TypeStep ==
    ASSUME TypeOK, [Next]_vars
    PROVE  TypeOK'
<1> USE DEF TypeOK, Absent
<1>1. CASE NewBlock
  BY <1>1 DEF NewBlock, Tx
<1>2. ASSUME NEW a \in Addresses, GenesisAccount(a)
      PROVE  TypeOK'
  BY <1>2 DEF GenesisAccount
<1>3. ASSUME NEW r \in Runs, Start(r)
      PROVE  TypeOK'
  <2>1. PICK h \in Heights : IsLargest(h, Heights) /\ from' = [from EXCEPT ![r] = h]
    BY <1>3 DEF Start
  <2>2. h \in Nat
    BY <2>1 DEF Heights, IsLargest
  <2>3. QED
    BY <1>3, <2>1, <2>2 DEF Start
<1>4. ASSUME NEW r \in Runs, QueryTxMaxHeight(r)
      PROVE  TypeOK'
  BY <1>4 DEF QueryTxMaxHeight
<1>5. ASSUME NEW r \in Runs, QueryAccountTxList(r)
      PROVE  TypeOK'
  <2>1. HandledEmpty(r) \in Nat
    BY DEF HandledEmpty
  <2>2. \A t \in Window(r) : t.height \in Nat /\ t.addrs \subseteq Addresses
    BY DEF Window, Tx
  <2>3. UNION {t.addrs : t \in Window(r)} \subseteq Addresses
    BY <2>2
  <2>4. handled' \in [Runs -> Nat]
    BY <1>5, <2>1, <2>2 DEF QueryAccountTxList
  <2>5. QED
    BY <1>5, <2>3, <2>4 DEF QueryAccountTxList
<1>6. ASSUME NEW r \in Runs, NEW a \in Addresses, Insert(r, a)
      PROVE  TypeOK'
  BY <1>6 DEF Insert
<1>7. ASSUME NEW r \in Runs, UpdateSentinel(r)
      PROVE  TypeOK'
  BY <1>7 DEF UpdateSentinel, Ended
<1>8. ASSUME NEW r \in Runs, Abort(r)
      PROVE  TypeOK'
  BY <1>8 DEF Abort, Ended
<1>9. ASSUME NEW r \in Runs, Abandon(r)
      PROVE  TypeOK'
  BY <1>9 DEF Abandon, Ended
<1>10. CASE UNCHANGED vars
  BY <1>10 DEF vars
<1>11. QED
  BY <1>1, <1>2, <1>3, <1>4, <1>5, <1>6, <1>7, <1>8, <1>9, <1>10 DEF Next, RunStep

(* Every variable keeps its type: TypeOK of the runs. *)
THEOREM TypeCorrect == Spec => []TypeOK
<1>1. Init => TypeOK
  BY DEF Init, TypeOK, Absent
<1>2. TypeOK /\ [Next]_vars => TypeOK'
  BY TypeStep
<1>3. QED
  BY <1>1, <1>2, PTL DEF Spec

-----------------------------------------------------------------------------
(* An address once collected stays so: Insert takes it from pending into   *)
(* the collection, Abandon from pending into lost.                         *)
LEMMA CollectedStays ==
    ASSUME TypeOK, [Next]_vars, NEW b \in Addresses, Collected(b),
           NothingPendingEarly
    PROVE  Collected(b)'
<1> USE DEF TypeOK, Absent, Collected
<1>1. CASE NewBlock
  BY <1>1 DEF NewBlock
<1>2. ASSUME NEW a \in Addresses, GenesisAccount(a)
      PROVE  Collected(b)'
  BY <1>2 DEF GenesisAccount
<1>3. ASSUME NEW r \in Runs, Start(r) \/ QueryTxMaxHeight(r)
      PROVE  Collected(b)'
  BY <1>3 DEF Start, QueryTxMaxHeight
<1>4. ASSUME NEW r \in Runs, QueryAccountTxList(r)
      PROVE  Collected(b)'
  BY <1>4 DEF QueryAccountTxList, NothingPendingEarly
<1>5. ASSUME NEW r \in Runs, NEW a \in Addresses, Insert(r, a)
      PROVE  Collected(b)'
  BY <1>5 DEF Insert
<1>6. ASSUME NEW r \in Runs, UpdateSentinel(r)
      PROVE  Collected(b)'
  BY <1>6 DEF UpdateSentinel, Ended
<1>7. ASSUME NEW r \in Runs, Abort(r)
      PROVE  Collected(b)'
  BY <1>7 DEF Abort, Ended
<1>8. ASSUME NEW r \in Runs, Abandon(r)
      PROVE  Collected(b)'
  BY <1>8 DEF Abandon, Ended
<1>9. CASE UNCHANGED vars
  BY <1>9 DEF vars
<1>10. QED
  BY <1>1, <1>2, <1>3, <1>4, <1>5, <1>6, <1>7, <1>8, <1>9 DEF Next, RunStep

(* The chain only grows, and only above its newest transaction. *)
LEMMA ChainGrows ==
    ASSUME TypeOK, [Next]_vars
    PROVE  /\ top <= top'
           /\ \A t \in txs' : t \in txs \/ (t.height > top /\ t.height = top')
<1> USE DEF TypeOK
<1>1. CASE NewBlock
  BY <1>1 DEF NewBlock
<1>2. CASE UNCHANGED <<top, txs>>
  BY <1>2
<1>3. QED
  BY <1>1, <1>2 DEF Next, RunStep, vars, GenesisAccount, Start, QueryTxMaxHeight,
     QueryAccountTxList, Insert, UpdateSentinel, Abort, Abandon

(* What is collected up to a height of the chain stays collected. *)
LEMMA UpToStays ==
    ASSUME TypeOK, NothingPendingEarly, [Next]_vars,
           NEW h \in Int, h <= top, CollectedUpTo(h)
    PROVE  CollectedUpTo(h)'
<1> SUFFICES ASSUME NEW t \in txs', t.height <= h, NEW a \in t.addrs
             PROVE  Collected(a)'
  BY DEF CollectedUpTo
<1>1. t \in txs
  <2>1. TypeOK'
    BY TypeStep
  <2>2. t.height \in Nat /\ top \in Nat
    BY <2>1 DEF TypeOK, Tx
  <2>3. QED
    BY <2>2, ChainGrows
<1>2. a \in Addresses /\ Collected(a)
  BY <1>1 DEF CollectedUpTo, TypeOK, Tx
<1>3. QED
  BY <1>2, CollectedStays

(* What a run is about to record when it has read its window is covered.   *)
LEMMA WindowCovered ==
    ASSUME IInv, NEW r \in Runs, QueryAccountTxList(r)
    PROVE  handled'[r] <= top /\ CollectedUpTo(handled[r])'
<1> USE DEF TypeOK, IInv
<1>1. stage[r] = "window" /\ txs' = txs /\ top' = top
  BY DEF QueryAccountTxList
<1>2. \A t \in txs : t.height \in Nat /\ t.addrs \subseteq Addresses
  BY DEF Tx
<1>3. /\ from[r] \in Nat /\ from[r] <= top /\ CollectedUpTo(from[r])
      /\ max[r] \in Nat /\ max[r] <= top
  BY DEF RunCovered
<1>4. handled'[r] \in Nat /\ handled'[r] <= top /\ handled'[r] <= from[r] + IncreaseHeight
  <2>1. CASE Window(r) = {}
    <3>1. handled'[r] = HandledEmpty(r)
      BY <2>1 DEF QueryAccountTxList
    <3>2. QED
      BY <3>1, <1>3 DEF HandledEmpty
  <2>2. CASE Window(r) # {}
    <3>1. PICK t \in Window(r) : handled'[r] = t.height
      BY <2>2 DEF QueryAccountTxList
    <3>2. QED
      BY <3>1, <1>2 DEF Window
  <2>3. QED
    BY <2>1, <2>2
<1>5. ASSUME NEW t \in txs, t.height <= handled'[r], NEW a \in t.addrs
      PROVE  Collected(a)'
  <2>1. a \in Addresses /\ t.height \in Nat
    BY <1>2
  <2>2. CASE t.height <= from[r]
    <3>1. Collected(a)
      BY <2>2, <1>3 DEF CollectedUpTo
    <3>2. [Next]_vars
      BY DEF Next, RunStep
    <3>3. QED
      BY <3>1, <3>2, <2>1, CollectedStays
  <2>3. CASE t.height > from[r]
    <3>1. t \in Window(r)
      BY <2>1, <2>3, <1>3, <1>4, <1>5 DEF Window
    <3>2. a \in UNION {s.addrs : s \in Window(r)}
      BY <3>1
    <3>3. a \in pending'[r]
      BY <3>2 DEF QueryAccountTxList
    <3>4. QED
      BY <3>3 DEF Collected
  <2>4. QED
    BY <2>1, <2>2, <2>3, <1>3
<1>6. QED
  BY <1>1, <1>4, <1>5 DEF CollectedUpTo

(* Every height recorded anew was held by a run. *)
LEMMA HeightsFrom ==
    ASSUME TypeOK, [Next]_vars, NEW h \in Heights'
    PROVE  h \in Heights \/ \E r \in Runs : h = handled[r]
<1> USE DEF TypeOK, Heights
<1>1. CASE UNCHANGED <<account, sentinel>>
  BY <1>1
<1>2. ASSUME NEW a \in Addresses, GenesisAccount(a)
      PROVE  h \in Heights
  BY <1>2 DEF GenesisAccount
<1>3. ASSUME NEW r \in Runs, NEW a \in Addresses, Insert(r, a)
      PROVE  h \in Heights \/ h = handled[r]
  BY <1>3 DEF Insert
<1>4. ASSUME NEW r \in Runs, UpdateSentinel(r)
      PROVE  h \in Heights \/ h = handled[r]
  BY <1>4 DEF UpdateSentinel
<1>5. QED
  BY <1>1, <1>2, <1>3, <1>4 DEF Next, RunStep, vars, NewBlock, Start,
     QueryTxMaxHeight, QueryAccountTxList, Abort, Abandon

(* Where the variables of a run come from. *)
LEMMA RunsFrom ==
    ASSUME TypeOK, [Next]_vars, NEW r \in Runs
    PROVE  /\ from'[r] = from[r] \/ from'[r] \in Heights
           /\ max'[r] \in {max[r], top, 0}
           /\ handled'[r] \in {handled[r], 0} \/ QueryAccountTxList(r)
<1> USE DEF TypeOK
<1>0. 0 \in Heights
  BY DEF Heights
<1>1. ASSUME NEW q \in Runs, Start(q)
      PROVE  /\ from'[r] = from[r] \/ from'[r] \in Heights
             /\ UNCHANGED <<max, handled>>
  BY <1>1 DEF Start
<1>2. ASSUME NEW q \in Runs, QueryTxMaxHeight(q)
      PROVE  /\ max'[r] \in {max[r], top}
             /\ UNCHANGED <<from, handled>>
  BY <1>2 DEF QueryTxMaxHeight
<1>3. ASSUME NEW q \in Runs, QueryAccountTxList(q)
      PROVE  /\ from'[r] \in {from[r], 0} /\ max'[r] \in {max[r], 0}
             /\ q # r => handled'[r] = handled[r]
  BY <1>3 DEF QueryAccountTxList
<1>4. ASSUME NEW q \in Runs, UpdateSentinel(q) \/ Abort(q) \/ Abandon(q)
      PROVE  /\ from'[r] \in {from[r], 0} /\ max'[r] \in {max[r], 0}
             /\ handled'[r] \in {handled[r], 0}
  BY <1>4 DEF UpdateSentinel, Abort, Abandon, Ended
<1>5. CASE UNCHANGED <<from, max, handled>>
  BY <1>5
<1>6. QED
  BY <1>0, <1>1, <1>2, <1>3, <1>4, <1>5
     DEF Next, RunStep, vars, NewBlock, GenesisAccount, Insert

LEMMA PendingStep ==
    ASSUME TypeOK, NothingPendingEarly, [Next]_vars
    PROVE  NothingPendingEarly'
<1> SUFFICES ASSUME NEW r \in Runs, stage'[r] \in {"idle", "max", "window"}
             PROVE  pending'[r] = {}
  BY DEF NothingPendingEarly
<1> USE DEF TypeOK, NothingPendingEarly
<1>1. ASSUME NEW q \in Runs, Start(q) \/ QueryTxMaxHeight(q) \/ QueryAccountTxList(q)
      PROVE  pending'[r] = {}
  BY <1>1 DEF Start, QueryTxMaxHeight, QueryAccountTxList
<1>2. ASSUME NEW q \in Runs, NEW a \in Addresses, Insert(q, a)
      PROVE  pending'[r] = {}
  BY <1>2 DEF Insert
<1>3. ASSUME NEW q \in Runs, UpdateSentinel(q) \/ Abort(q) \/ Abandon(q)
      PROVE  pending'[r] = {}
  BY <1>3 DEF UpdateSentinel, Abort, Abandon, Ended
<1>4. CASE UNCHANGED <<stage, pending>>
  BY <1>4
<1>5. QED
  BY <1>1, <1>2, <1>3, <1>4 DEF Next, RunStep, vars, NewBlock, GenesisAccount

LEMMA InvariantStep ==
    ASSUME IInv, [Next]_vars
    PROVE  IInv'
<1> USE DEF IInv
<1>1. TypeOK'
  BY TypeStep
<1>2. top \in Nat /\ top' \in Nat /\ top <= top'
  BY <1>1, ChainGrows DEF TypeOK
<1>3. \A h \in Heights : h \in Int /\ h <= top /\ CollectedUpTo(h)
  BY DEF Heights, TypeOK, Absent, NothingMissed, BehindTheChain
<1>4. \A r \in Runs : /\ from[r] \in Int /\ max[r] \in Int /\ handled[r] \in Int
                     /\ RunCovered(r)
  BY DEF TypeOK
<1>5. \A h \in Int : h <= top /\ CollectedUpTo(h) => h <= top' /\ CollectedUpTo(h)'
  BY <1>2, UpToStays
<1>6. \A t \in txs' : t.height <= top'
  <2>1. \A t \in txs' : t.height \in Nat
    BY <1>1 DEF TypeOK, Tx
  <2>2. QED
    BY <2>1, <1>2, ChainGrows
<1>7. \A h \in Heights' : h <= top' /\ CollectedUpTo(h)'
  <2> TAKE h \in Heights'
  <2>1. h \in Int /\ h <= top /\ CollectedUpTo(h)
    BY <1>3, <1>4, HeightsFrom DEF RunCovered
  <2>2. QED
    BY <2>1, <1>5
<1>8. ASSUME NEW r \in Runs
      PROVE  RunCovered(r)'
  <2>1. 0 \in Heights
    BY DEF Heights
  <2>2. from'[r] \in Int /\ from'[r] <= top /\ CollectedUpTo(from'[r])
    BY <1>3, <1>4, RunsFrom DEF RunCovered
  <2>3. max'[r] \in Int /\ max'[r] <= top'
    BY <1>1, <1>2, <1>4, RunsFrom DEF RunCovered, TypeOK
  <2>4. handled'[r] <= top' /\ CollectedUpTo(handled[r])'
    <3>1. CASE QueryAccountTxList(r)
      BY <3>1, WindowCovered, <1>1, <1>2 DEF TypeOK
    <3>2. CASE handled'[r] \in {handled[r], 0}
      <4>1. handled'[r] \in Int /\ handled'[r] <= top /\ CollectedUpTo(handled'[r])
        BY <3>2, <2>1, <1>3, <1>4 DEF RunCovered
      <4>2. QED
        BY <4>1, <1>5 DEF CollectedUpTo
    <3>3. QED
      BY <3>1, <3>2, RunsFrom
  <2>5. from'[r] <= top' /\ CollectedUpTo(from[r])'
    BY <2>2, <1>5 DEF CollectedUpTo
  <2>6. QED
    BY <2>3, <2>4, <2>5 DEF RunCovered
<1>9. NothingPendingEarly'
  BY PendingStep
<1>10. NothingMissed' /\ BehindTheChain'
  BY <1>7 DEF NothingMissed, BehindTheChain
<1>11. QED
  BY <1>1, <1>6, <1>8, <1>9, <1>10

LEMMA InvariantInit == Init => IInv
<1> SUFFICES ASSUME Init
             PROVE  IInv
  OBVIOUS
<1> USE DEF Init
<1>1. TypeOK
  BY DEF TypeOK, Absent
<1>2. Heights \subseteq {0, -1}
  BY DEF Heights, Absent
<1>3. QED
  BY <1>1, <1>2 DEF IInv, NothingPendingEarly, NothingMissed, BehindTheChain,
     RunCovered, CollectedUpTo

(* Whatever runs overlap and wherever they are aborted, no address of a    *)
(* transaction at or below a recorded height is missed, and no height      *)
(* above the newest transaction is recorded.                               *)
THEOREM CursorIsSafe == Spec => [](NothingMissed /\ BehindTheChain)
<1>1. IInv => NothingMissed /\ BehindTheChain
  BY DEF IInv
<1>2. IInv /\ [Next]_vars => IInv'
  BY InvariantStep
<1>3. QED
  BY <1>1, <1>2, InvariantInit, PTL DEF Spec
=============================================================================
