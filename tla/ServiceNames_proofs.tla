------------------------- MODULE ServiceNames_proofs -------------------------
(* Theorems about ServiceNames, for any services, contexts, transactions   *)
(* and batches.                                                            *)
EXTENDS ServiceNames, FiniteSetTheorems, WellFoundedInduction, TLAPS

LEMMA FaultType == TypeOK /\ Fault => faults' \in 0..MaxFaults
BY ServiceSettings DEF TypeOK, Fault

LEMMA KnownHashes == TypeOK => Known \subseteq Hashes /\ Known = 1..Len(txs)
BY ServiceSettings DEF TypeOK, Known, Hashes

LEMMA BatchFits ==
    ASSUME TypeOK
    PROVE  NextBatch \subseteq Known /\ Cardinality(NextBatch) <= Size
<1> DEFINE Newer(i) == {j \in Unnamed : j >= i}
<1>1. Unnamed \subseteq 1..Len(txs) /\ Len(txs) \in Nat /\ IsFiniteSet(1..Len(txs))
  <2>1. Len(txs) \in Nat
    BY DEF TypeOK
  <2>2. Unnamed \subseteq 1..Len(txs)
    BY KnownHashes DEF Unnamed
  <2>3. QED
    BY <2>1, <2>2, FS_Interval
<1>2. IsFiniteSet(Unnamed) /\ NextBatch \subseteq Unnamed /\ IsFiniteSet(NextBatch)
  BY <1>1, FS_Subset DEF NextBatch
<1>3. CASE NextBatch = {}
  <2>1. Cardinality(NextBatch) = 0 /\ Size >= 0
    BY <1>3, FS_EmptySet, ServiceSettings
  <2>2. QED
    BY <1>3, <2>1
<1>4. CASE NextBatch # {}
  <2> DEFINE Less == {ss \in Nat \X Nat : ss[1] < ss[2]}
  <2>1. PICK m \in NextBatch : \A i \in NextBatch : ~(<<i, m>> \in Less)
    <3>1. NextBatch \subseteq Nat
      BY <1>1, <1>2
    <3>2. IsWellFoundedOn(Less, Nat)
      BY NatLessThanWellFounded DEF OpToRel
    <3> HIDE DEF Less
    <3>3. QED
      BY <1>4, <3>1, <3>2, WFMin
  <2>2. ASSUME NEW i \in NextBatch
        PROVE  i >= m
    <3>1. i \in Nat /\ m \in Nat
      BY <1>1, <1>2
    <3>2. i < m => <<i, m>> \in Less
      BY <3>1
    <3>3. QED
      BY <2>1, <3>1, <3>2
  <2>3. /\ NextBatch \subseteq Newer(m) /\ Newer(m) \subseteq Unnamed
        /\ Cardinality(Newer(m)) <= Size
    BY <1>2, <2>2 DEF NextBatch
  <2>4. /\ Cardinality(NextBatch) <= Cardinality(Newer(m))
        /\ Cardinality(NextBatch) \in Nat /\ Cardinality(Newer(m)) \in Nat
    BY <1>2, <2>3, FS_Subset, FS_CardinalityType
  <2>5. Size \in Int
    BY ServiceSettings
  <2>6. QED
    BY <1>2, <2>3, <2>4, <2>5 DEF Unnamed
<1>5. QED
  BY <1>2, <1>3, <1>4 DEF Unnamed
(* A new transaction changes nothing of those that are there. *)
LEMMA Grown ==
    ASSUME TypeOK, NewTx
    PROVE  /\ txs' \in Seq(Tx) /\ Len(txs') <= MaxTxs
           /\ Known \subseteq Known' /\ Known' \subseteq Hashes
           /\ \A i \in Known : txs'[i] = txs[i]
           /\ \E n \in Known' : Known' = Known \cup {n} /\ n \notin Known /\ Allowed(txs'[n])
<1>1. PICK tx \in Tx : Allowed(tx) /\ txs' = Append(txs, tx)
  BY DEF NewTx
<1>2. txs \in Seq(Tx) /\ Len(txs) < MaxTxs /\ Len(txs) \in Nat /\ MaxTxs \in Nat
  BY ServiceSettings DEF TypeOK, NewTx
<1>3. /\ txs' \in Seq(Tx) /\ Len(txs') = Len(txs) + 1
      /\ \A i \in 1..Len(txs) : txs'[i] = txs[i]
      /\ txs'[Len(txs) + 1] = tx
  BY <1>1, <1>2
<1>4. Known = 1..Len(txs) /\ Known' = 1..(Len(txs) + 1)
  BY <1>2, <1>3 DEF Known
<1>5. Known' = Known \cup {Len(txs) + 1} /\ Len(txs) + 1 \notin Known
  BY <1>2, <1>4
<1>6. Known' \subseteq Hashes
  BY <1>2, <1>4 DEF Hashes
<1>7. QED
  BY <1>1, <1>2, <1>3, <1>4, <1>5, <1>6

(* What the chain guarantees of the transactions in the collection. *)
Chain ==
    \A i \in Known :
        /\ txs[i].name = NoName <=> txs[i].type \notin OwnTypes
        /\ Binding(i) => \E d \in Known : Defines(d, i)

LEMMA ExFieldsRight ==
    ASSUME TypeOK, Chain, NEW b, NEW i \in Known, NEW w \in ExFields(b, i)
    PROVE  /\ w \in ExField /\ w.hash = i /\ ~w.bind
           /\ w.name # NoName /\ w.name \in Services(i)
           /\ w.call # 0 <=> txs[i].type = "respond_service"
           /\ w.call # 0 => w.call \in Known /\ txs[w.call].context = txs[i].context
<1>1. i \in Hashes /\ 0 \notin Hashes
  BY KnownHashes DEF Hashes
<1>2. \A c \in Known : c \in Hashes /\ txs[c] \in Tx
  BY KnownHashes DEF TypeOK
<1>3. CASE txs[i].type \in OwnTypes
  <2>1. w = [hash |-> i, name |-> txs[i].name, call |-> 0, bind |-> FALSE]
    BY <1>3 DEF ExFields
  <2>2. txs[i].name \in Names \cup {NoName} /\ txs[i].name # NoName
    BY <1>2, <1>3 DEF Chain, Tx
  <2>3. QED
    BY <1>1, <1>3, <2>1, <2>2 DEF ExField, Services, OwnTypes
<1>4. CASE txs[i].type \notin OwnTypes
  <2>1. PICK c \in CallsOf(i) :
          w = [hash |-> i, name |-> txs[c].name, bind |-> FALSE,
               call |-> IF txs[i].type = "respond_service" THEN c ELSE 0]
    BY <1>4 DEF ExFields
  <2>2. c \in Known /\ txs[c].type = "call_service" /\ txs[c].context = txs[i].context
    BY DEF CallsOf
  <2>3. txs[c].name \in Names \cup {NoName} /\ txs[c].name # NoName
    BY <1>2, <2>2 DEF Chain, Tx, OwnTypes
  <2>4. c \in Hashes
    BY <1>2, <2>2
  <2>5. txs[c].name \in Services(i)
    BY <1>4, <2>2 DEF Services
  <2>6. w \in ExField
    BY <1>1, <2>1, <2>3, <2>4 DEF ExField
  <2>7. QED
    BY <1>1, <2>1, <2>2, <2>3, <2>4, <2>5, <2>6
<1>5. QED
  BY <1>3, <1>4

LEMMA SentByRun ==
    ASSUME TypeOK, Chain, FindCallServiceTx, NEW w \in sent' \ sent
    PROVE  \E i \in batch : ~Binding(i) /\ w \in ExFields(batch, i)
BY DEF FindCallServiceTx

LEMMA SentByQuery ==
    ASSUME TypeOK, NEW i \in binds, QueryDefinition(i), NEW w \in sent' \ sent
    PROVE  \/ w \in ExFields({i}, i)
           \/ \E d \in Definitions(txs[i].name) : w = Mark(d)
BY DEF QueryDefinition

LEMMA MarkType == ASSUME TypeOK, NEW d \in Known PROVE Mark(d) \in ExField
BY KnownHashes DEF Mark, ExField

-----------------------------------------------------------------------------
LEMMA ChainInit == Init => Chain
<1> USE ServiceSettings
<1>1. SUFFICES ASSUME Init PROVE Chain
  OBVIOUS
<1>2. txs = Old /\ Known = DOMAIN Old
  BY <1>1 DEF Init, Known
<1>3. QED
  BY <1>2 DEF Chain, Binding, Defines

LEMMA BoundIsDefined ==
    ASSUME NEW tx, Allowed(tx), tx.type = "bind_service", tx.ok
    PROVE  Succeeded("define_service", tx.name)
<1>1. tx.type \in OwnTypes
  BY DEF OwnTypes
<1>2. QED
  BY <1>1 DEF Allowed

LEMMA ChainStep ==
    ASSUME TypeOK, Chain, [Next]_vars
    PROVE  Chain'
<1>1. CASE NewTx
  <2>1. PICK n \in Known' : Known' = Known \cup {n} /\ n \notin Known /\ Allowed(txs'[n])
    BY <1>1, Grown
  <2>2. \A i \in Known : txs'[i] = txs[i]
    BY <1>1, Grown
  <2>3. ASSUME NEW i \in Known
        PROVE  /\ txs'[i].name = NoName <=> txs'[i].type \notin OwnTypes
               /\ Binding(i)' => \E d \in Known' : Defines(d, i)'
    <3>1. Binding(i)' => Binding(i)
      BY <2>2 DEF Binding
    <3>2. \A d \in Known : Defines(d, i) => Defines(d, i)'
      BY <2>2 DEF Defines
    <3>3. QED
      BY <2>1, <2>2, <3>1, <3>2 DEF Chain
  <2>4. txs'[n].name = NoName <=> txs'[n].type \notin OwnTypes
    BY <2>1 DEF Allowed
  <2>5. ASSUME Binding(n)'
        PROVE  \E d \in Known' : Defines(d, n)'
    <3>1. txs'[n].type = "bind_service" /\ txs'[n].ok
      BY <2>5 DEF Binding
    <3>2. Succeeded("define_service", txs'[n].name)
      BY <2>1, <3>1, BoundIsDefined
    <3>3. QED
      BY <2>1, <2>2, <3>2 DEF Succeeded, Defines
  <2>6. QED
    BY <2>1, <2>3, <2>4, <2>5 DEF Chain
<1>2. CASE UNCHANGED txs
  BY <1>2 DEF Chain, Known, Binding, Defines
<1>3. QED
  BY <1>1, <1>2 DEF Next, RunStep, FindAllServiceTx, FindCallServiceTx, Crash,
     QueryDefinition, QueryFails, WriteLands, WriteFails, vars

LEMMA TypeStep ==
    ASSUME TypeOK, Chain, [Next]_vars
    PROVE  TypeOK'
<1> USE DEF TypeOK, tables
<1>1. CASE NewTx
  BY <1>1, Grown DEF NewTx
<1>2. CASE FindAllServiceTx
  BY <1>2, BatchFits DEF FindAllServiceTx, Known
<1>3. CASE FindCallServiceTx
  <2>1. Cardinality({}) <= Size
    BY FS_EmptySet, ServiceSettings
  <2>2. sent' \subseteq ExField
    BY <1>3, SentByRun, ExFieldsRight
  <2>3. binds' \subseteq Known
    BY <1>3 DEF FindCallServiceTx
  <2>4. QED
    BY <1>3, <2>1, <2>2, <2>3 DEF FindCallServiceTx, Known
<1>4. CASE Crash
  <2>1. Cardinality({}) <= Size
    BY FS_EmptySet, ServiceSettings
  <2>2. lost' \subseteq Hashes
    BY <1>4 DEF Crash, LostMarks, ExField
  <2>3. QED
    BY <1>4, <2>1, <2>2, FaultType DEF Crash, Known
<1>5. ASSUME NEW i \in Hashes, QueryDefinition(i)
      PROVE  TypeOK'
  <2>1. sent' \subseteq ExField
    BY <1>5, SentByQuery, ExFieldsRight, MarkType DEF QueryDefinition, Definitions
  <2>2. QED
    BY <1>5, <2>1 DEF QueryDefinition, Known
<1>6. ASSUME NEW i \in Hashes, QueryFails(i)
      PROVE  TypeOK'
  BY <1>6, FaultType DEF QueryFails, Known
<1>7. ASSUME NEW w \in sent, WriteLands(w)
      PROVE  TypeOK'
  <2>1. /\ w.hash \in Hashes /\ w.name \in Names \cup {NoName} /\ w.call \in Hashes \cup {0}
        /\ w.bind \in BOOLEAN
    BY DEF ExField
  <2>2. named' \in [Hashes -> Names \cup {NoName}] /\ callHash' \in [Hashes -> Hashes \cup {0}]
    BY <1>7, <2>1 DEF WriteLands
  <2>3. bound' \subseteq Hashes
    BY <1>7, <2>1 DEF WriteLands
  <2>4. QED
    BY <1>7, <2>2, <2>3 DEF WriteLands, Known
<1>8. ASSUME NEW w \in sent, WriteFails(w)
      PROVE  TypeOK'
  <2>1. lost' \subseteq Hashes
    BY <1>8 DEF WriteFails, LostMarks, ExField
  <2>2. QED
    BY <1>8, <2>1, FaultType DEF WriteFails, Known
<1>9. CASE UNCHANGED vars
  BY <1>9 DEF vars, Known
<1>10. QED
  BY <1>1, <1>2, <1>3, <1>4, <1>5, <1>6, <1>7, <1>8, <1>9 DEF Next, RunStep

LEMMA TypeInit == Init => TypeOK
<1>1. Cardinality({}) <= Size
  BY FS_EmptySet, ServiceSettings
<1>2. QED
  BY <1>1, ServiceSettings DEF Init, TypeOK

(* The state is always of its types: what is written are names of services *)
(* and calls the collection has, and a run never reads more than it may.   *)
THEOREM TypeCorrect == Spec => []TypeOK
<1>1. QED
  BY ChainInit, ChainStep, TypeInit, TypeStep, PTL DEF Spec

-----------------------------------------------------------------------------
(* A write under way is right about the transaction it is for. *)
WriteRight(w) ==
    /\ w.hash \in Known
    /\ w.bind => w.name = NoName /\ w.call = 0
    /\ ~w.bind =>
          /\ w.name # NoName /\ w.name \in Services(w.hash)
          /\ w.call # 0 <=> txs[w.hash].type = "respond_service"
          /\ w.call # 0 => w.call \in Known /\ txs[w.call].context = txs[w.hash].context

NameInv ==
    /\ \A w \in sent : WriteRight(w)
    /\ \A i \in Hashes \ Known : named[i] = NoName /\ callHash[i] = 0
    /\ \A i \in Known : callHash[i] \in Known \cup {0}
    /\ NamesAreRight

LEMMA ServicesGrow ==
    ASSUME TypeOK, NewTx, NEW i \in Known
    PROVE  Services(i) \subseteq Services(i)'
<1>1. txs'[i] = txs[i] /\ Known \subseteq Known' /\ \A c \in Known : txs'[c] = txs[c]
  BY Grown
<1>2. QED
  BY <1>1 DEF Services

LEMMA ServicesSame ==
    ASSUME UNCHANGED txs
    PROVE  /\ Known' = Known
           /\ \A i : Services(i)' = Services(i)
           /\ \A w : WriteRight(w) => WriteRight(w)'
<1>1. Known' = Known
  BY DEF Known
<1>2. \A i : Services(i)' = Services(i)
  BY <1>1 DEF Services
<1>3. QED
  BY <1>1, <1>2 DEF WriteRight

LEMMA NameInvGrow ==
    ASSUME TypeOK, NameInv, NewTx
    PROVE  NameInv'
<1> USE DEF NameInv
<1>1. UNCHANGED <<named, callHash, sent>>
  BY DEF NewTx, tables
<1>2. PICK n \in Known' : Known' = Known \cup {n} /\ n \notin Known
  BY Grown
<1>3. n \in Hashes /\ \A i \in Known : txs'[i] = txs[i]
  BY Grown
<1>4. ASSUME NEW w \in sent
      PROVE  WriteRight(w)'
  <2>1. WriteRight(w)
    OBVIOUS
  <2>2. Services(w.hash) \subseteq Services(w.hash)'
    BY <2>1, ServicesGrow DEF WriteRight
  <2>3. QED
    BY <1>2, <1>3, <2>1, <2>2 DEF WriteRight
<1>5. NamesAreRight'
  <2>1. ASSUME NEW i \in Known
        PROVE  /\ named'[i] # NoName => named'[i] \in Services(i)'
               /\ txs'[i].type = "respond_service" =>
                     /\ named'[i] # NoName <=> callHash'[i] # 0
                     /\ callHash'[i] # 0 => txs'[callHash'[i]].context = txs'[i].context
    <3>1. Services(i) \subseteq Services(i)'
      BY ServicesGrow
    <3>2. QED
      BY <1>1, <1>3, <3>1 DEF NamesAreRight
  <2>2. named'[n] = NoName /\ callHash'[n] = 0
    BY <1>1, <1>2, <1>3
  <2>3. QED
    BY <1>2, <2>1, <2>2 DEF NamesAreRight
<1>6. QED
  BY <1>1, <1>2, <1>3, <1>4, <1>5

LEMMA NameInvWrite ==
    ASSUME TypeOK, NameInv, NEW w \in sent, WriteLands(w)
    PROVE  NameInv'
<1> USE DEF NameInv
<1>1. UNCHANGED txs /\ sent' \subseteq sent
  BY DEF WriteLands
<1>2. WriteRight(w) /\ w.hash \in Hashes
  BY KnownHashes DEF WriteRight
<1>3. /\ \A i \in Hashes \ {w.hash} : named'[i] = named[i] /\ callHash'[i] = callHash[i]
      /\ named'[w.hash] = IF w.name = NoName THEN named[w.hash] ELSE w.name
      /\ callHash'[w.hash] = IF w.call = 0 THEN callHash[w.hash] ELSE w.call
  BY <1>2 DEF WriteLands, TypeOK
<1>4. \A x \in sent' : WriteRight(x)'
  BY <1>1, ServicesSame
<1>5. ASSUME NEW i \in Known
      PROVE  /\ callHash'[i] \in Known \cup {0}
             /\ named'[i] # NoName => named'[i] \in Services(i)
             /\ txs[i].type = "respond_service" =>
                   /\ named'[i] # NoName <=> callHash'[i] # 0
                   /\ callHash'[i] # 0 => txs[callHash'[i]].context = txs[i].context
  <2>1. CASE i # w.hash
    BY <1>3, <2>1, KnownHashes DEF NamesAreRight
  <2>2. CASE i = w.hash /\ w.bind
    BY <1>2, <1>3, <2>2 DEF NamesAreRight, WriteRight
  <2>3. CASE i = w.hash /\ ~w.bind
    BY <1>2, <1>3, <2>3 DEF NamesAreRight, WriteRight
  <2>4. QED
    BY <2>1, <2>2, <2>3
<1>6. Known' = Known /\ \A i : Services(i)' = Services(i)
  BY <1>1, ServicesSame
<1>7. NamesAreRight'
  BY <1>1, <1>5, <1>6 DEF NamesAreRight
<1>8. QED
  BY <1>2, <1>3, <1>4, <1>5, <1>6, <1>7 DEF WriteRight

LEMMA NameInvStep ==
    ASSUME TypeOK, Chain, NameInv, [Next]_vars
    PROVE  NameInv'
<1> USE DEF NameInv, tables
<1>1. ASSUME UNCHANGED <<txs, named, callHash>>, \A w \in sent' : w \in sent \/ WriteRight(w)
      PROVE  NameInv'
  <2>1. \A w \in sent' : WriteRight(w)'
    BY <1>1, ServicesSame
  <2>2. Known' = Known /\ \A i : Services(i)' = Services(i)
    BY <1>1, ServicesSame
  <2>3. NamesAreRight'
    BY <1>1, <2>2 DEF NamesAreRight
  <2>4. QED
    BY <1>1, <2>1, <2>2, <2>3
<1>2. CASE FindCallServiceTx
  <2>1. ASSUME NEW w \in sent' \ sent
        PROVE  WriteRight(w)
    <3>1. PICK i \in batch : w \in ExFields(batch, i)
      BY <1>2, SentByRun
    <3>2. i \in Known
      BY <3>1 DEF TypeOK
    <3>3. QED
      BY <3>1, <3>2, ExFieldsRight DEF WriteRight
  <2>2. QED
    BY <1>1, <1>2, <2>1 DEF FindCallServiceTx
<1>3. ASSUME NEW i \in Hashes, QueryDefinition(i)
      PROVE  NameInv'
  <2>1. ASSUME NEW w \in sent' \ sent
        PROVE  WriteRight(w)
    <3>1. i \in binds /\ i \in Known
      BY <1>3 DEF QueryDefinition, TypeOK
    <3>2. CASE w \in ExFields({i}, i)
      BY <3>1, <3>2, ExFieldsRight DEF WriteRight
    <3>3. CASE \E d \in Definitions(txs[i].name) : w = Mark(d)
      BY <3>3 DEF WriteRight, Mark, Definitions
    <3>4. QED
      BY <1>3, <3>1, <3>2, <3>3, SentByQuery
  <2>2. QED
    BY <1>1, <1>3, <2>1 DEF QueryDefinition
<1>4. CASE UNCHANGED <<txs, named, callHash>> /\ sent' \subseteq sent
  BY <1>1, <1>4
<1>5. QED
  BY <1>2, <1>3, <1>4, NameInvGrow, NameInvWrite
     DEF Next, RunStep, FindAllServiceTx, Crash, QueryFails, WriteFails, vars

(* No transaction is ever given the name of another service, and no answer *)
(* the call of another context, for any batches, faults and order of the   *)
(* writes.                                                                 *)
THEOREM NamesStayRight == Spec => []NamesAreRight
<1>1. Init => NameInv
  BY ServiceSettings DEF Init, NameInv, NamesAreRight, Known, Hashes
<1>2. NameInv => NamesAreRight
  BY DEF NameInv
<1>3. QED
  BY <1>1, <1>2, ChainInit, ChainStep, TypeInit, TypeStep, NameInvStep, PTL DEF Spec

-----------------------------------------------------------------------------
(* A definition whose mark is there, under way, or was lost on its way. *)
Marked(d) == d \in bound \cup lost \/ Mark(d) \in sent

(* A binding whose name is there or under way has its definition marked;   *)
(* what is marked, or about to be, was bound.                              *)
MarkInv ==
    /\ \A i \in binds : Binding(i)
    /\ \A w \in sent : /\ w.hash \in Known
                       /\ w.bind => w = Mark(w.hash)
    /\ \A i \in Hashes \ Known : named[i] = NoName
    /\ \A i \in Known :
          Binding(i) /\ (named[i] # NoName \/ \E w \in sent : w.hash = i /\ ~w.bind) =>
             \E d \in Known : Defines(d, i) /\ Marked(d)
    /\ \A d \in Known : d \in bound \/ Mark(d) \in sent =>
          \E i \in Known : Binding(i) /\ Defines(d, i)
    /\ bound \subseteq Known

LEMMA MarkFields == \A d : Mark(d).hash = d /\ Mark(d).bind /\ Mark(d).name = NoName
BY DEF Mark

LEMMA MarkInvGrow ==
    ASSUME TypeOK, MarkInv, NewTx
    PROVE  MarkInv'
<1> USE DEF MarkInv
<1>1. UNCHANGED <<named, bound, binds, sent, lost>>
  BY DEF NewTx, tables
<1>2. PICK n \in Known' : Known' = Known \cup {n} /\ n \notin Known
  BY Grown
<1>3. n \in Hashes /\ binds \subseteq Known /\ \A i \in Known : txs'[i] = txs[i]
  BY Grown DEF TypeOK
<1>4. /\ \A i \in Known : Binding(i)' <=> Binding(i)
      /\ \A d, i \in Known : Defines(d, i)' <=> Defines(d, i)
  BY <1>3 DEF Binding, Defines
<1>5. \A d : Marked(d)' <=> Marked(d)
  BY <1>1 DEF Marked, Mark
<1>6. named'[n] = NoName /\ n \notin bound /\ \A w \in sent : w.hash # n
  BY <1>1, <1>2, <1>3
<1>7. Mark(n) \notin sent
  BY <1>6, MarkFields
<1>8. QED
  BY <1>1, <1>2, <1>3, <1>4, <1>5, <1>6, <1>7 DEF Mark

(* The steps that leave the transactions as they are. *)
LEMMA MarkInvSame ==
    ASSUME TypeOK, MarkInv, UNCHANGED txs,
           \A i \in binds' : Binding(i),
           \A w \in sent' \ sent : w.hash \in Known /\ (w.bind => w = Mark(w.hash)),
           \A i \in Hashes \ Known : named'[i] = NoName,
           \A i \in Known : Binding(i) => named'[i] = named[i] \/ \E w \in sent : w.hash = i /\ ~w.bind,
           \A d \in Known : Marked(d) => Marked(d)',
           \A w \in sent' \ sent : ~w.bind /\ Binding(w.hash) =>
              \E d \in Known : Defines(d, w.hash) /\ Marked(d)',
           \A d \in Known : d \in bound' \/ Mark(d) \in sent' =>
              d \in bound \/ Mark(d) \in sent \/ \E i \in Known : Binding(i) /\ Defines(d, i),
           bound' \subseteq Known
    PROVE  MarkInv'
<1>1. Known' = Known
  BY DEF Known
<1>2. /\ \A i : Binding(i)' <=> Binding(i)
      /\ \A d, i : Defines(d, i)' <=> Defines(d, i)
      /\ \A d : Mark(d)' = Mark(d)
  BY DEF Binding, Defines, Mark
<1>3. ASSUME NEW i \in Known, Binding(i),
             named'[i] # NoName \/ \E w \in sent' : w.hash = i /\ ~w.bind
      PROVE  \E d \in Known : Defines(d, i) /\ Marked(d)'
  <2>1. CASE named[i] # NoName \/ \E w \in sent : w.hash = i /\ ~w.bind
    BY <1>3, <2>1 DEF MarkInv
  <2>2. CASE \E w \in sent' \ sent : w.hash = i /\ ~w.bind
    BY <1>3, <2>2
  <2>3. QED
    BY <1>3, <2>1, <2>2
<1>4. \A d \in Known : d \in bound' \/ Mark(d) \in sent' =>
         \E i \in Known : Binding(i) /\ Defines(d, i)
  BY DEF MarkInv
<1>5. \A w \in sent' : w.hash \in Known /\ (w.bind => w = Mark(w.hash))
  BY DEF MarkInv
<1>6. QED
  BY <1>1, <1>2, <1>3, <1>4, <1>5 DEF MarkInv
LEMMA MarkInvRun ==
    ASSUME TypeOK, Chain, MarkInv, FindCallServiceTx
    PROVE  MarkInv'
<1>1. UNCHANGED <<txs, named, bound, lost>>
  BY DEF FindCallServiceTx, tables
<1>2. \A i \in binds' : Binding(i)
  BY DEF FindCallServiceTx, MarkInv
<1>3. ASSUME NEW w \in sent' \ sent
      PROVE  w.hash \in Known /\ ~w.bind /\ ~Binding(w.hash)
  <2>1. PICK i \in batch : ~Binding(i) /\ w \in ExFields(batch, i)
    BY <1>3, SentByRun
  <2>2. i \in Known
    BY <2>1 DEF TypeOK
  <2>3. QED
    BY <2>1, <2>2, ExFieldsRight
<1>4. sent \subseteq sent'
  BY DEF FindCallServiceTx
<1>5. \A d \in Known : Mark(d) \in sent' => Mark(d) \in sent
  BY <1>3, MarkFields
<1>6. \A d \in Known : Marked(d) => Marked(d)'
  BY <1>1, <1>4 DEF Marked, Mark
<1>7. \A i \in Hashes \ Known : named'[i] = NoName
  BY <1>1 DEF MarkInv
<1>8. bound' \subseteq Known
  BY <1>1 DEF MarkInv
<1>9. QED
  BY <1>1, <1>2, <1>3, <1>5, <1>6, <1>7, <1>8, MarkInvSame

LEMMA MarkInvQuery ==
    ASSUME TypeOK, Chain, MarkInv, NEW i \in Hashes, QueryDefinition(i)
    PROVE  MarkInv'
<1>1. /\ UNCHANGED <<txs, named, bound, lost>> /\ sent \subseteq sent'
      /\ i \in binds /\ binds' \subseteq binds
  BY DEF QueryDefinition, tables
<1>2. i \in Known /\ Binding(i)
  BY <1>1 DEF TypeOK, MarkInv
<1>3. PICK e \in Definitions(txs[i].name) : Mark(e) \in sent'
  <2>1. PICK d \in Known : Defines(d, i)
    BY <1>2 DEF Chain
  <2>2. Definitions(txs[i].name) # {}
    BY <2>1 DEF Defines, Definitions
  <2>3. QED
    BY <2>2 DEF QueryDefinition
<1>4. \A d \in Definitions(txs[i].name) : d \in Known /\ Defines(d, i)
  BY DEF Definitions, Defines
<1>5. ASSUME NEW w \in sent' \ sent
      PROVE  \/ w.hash = i /\ ~w.bind
             \/ \E d \in Definitions(txs[i].name) : w = Mark(d)
  <2>1. \/ w \in ExFields({i}, i)
        \/ \E d \in Definitions(txs[i].name) : w = Mark(d)
    BY <1>1, <1>5, SentByQuery
  <2>2. w \in ExFields({i}, i) => w.hash = i /\ ~w.bind
    BY <1>2, ExFieldsRight
  <2>3. QED
    BY <2>1, <2>2
<1>6. \A w \in sent' \ sent : w.hash \in Known /\ (w.bind => w = Mark(w.hash))
  BY <1>2, <1>4, <1>5, MarkFields
<1>7. \A d \in Known : Marked(d) => Marked(d)'
  BY <1>1 DEF Marked, Mark
<1>8. \A w \in sent' \ sent : ~w.bind /\ Binding(w.hash) =>
         \E d \in Known : Defines(d, w.hash) /\ Marked(d)'
  <2>1. Marked(e)'
    BY <1>3 DEF Marked, Mark
  <2>2. QED
    BY <1>3, <1>4, <1>5, <2>1, MarkFields
<1>9. ASSUME NEW d \in Known, d \in bound' \/ Mark(d) \in sent'
      PROVE  d \in bound \/ Mark(d) \in sent \/ \E k \in Known : Binding(k) /\ Defines(d, k)
  <2>1. CASE Mark(d) \in sent' \ sent
    <3>1. PICK f \in Definitions(txs[i].name) : Mark(d) = Mark(f)
      BY <1>5, <2>1, MarkFields
    <3>2. d = f
      BY <3>1, MarkFields
    <3>3. QED
      BY <1>2, <1>4, <3>1, <3>2
  <2>2. QED
    BY <1>1, <1>9, <2>1
<1>10. /\ \A k \in binds' : Binding(k)
       /\ \A k \in Hashes \ Known : named'[k] = NoName
       /\ bound' \subseteq Known
  BY <1>1 DEF MarkInv
<1>11. QED
  BY <1>1, <1>6, <1>7, <1>8, <1>9, <1>10, MarkInvSame

LEMMA MarkInvWrite ==
    ASSUME TypeOK, MarkInv, NEW w \in sent, WriteLands(w)
    PROVE  MarkInv'
<1>1. UNCHANGED <<txs, binds, lost>> /\ sent' = sent \ {w}
  BY DEF WriteLands
<1>2. w.hash \in Known /\ w.hash \in Hashes /\ (w.bind => w = Mark(w.hash))
  BY KnownHashes DEF MarkInv
<1>3. /\ \A i \in Hashes \ {w.hash} : named'[i] = named[i]
      /\ w.bind => named' = named
      /\ bound' = IF w.bind THEN bound \cup {w.hash} ELSE bound
  BY <1>2, MarkFields DEF WriteLands, TypeOK
<1>4. \A i \in Hashes \ Known : named'[i] = NoName
  BY <1>2, <1>3 DEF MarkInv
<1>5. \A i \in Known : named'[i] = named[i] \/ \E x \in sent : x.hash = i /\ ~x.bind
  BY <1>3, KnownHashes
<1>6. ASSUME NEW d \in Known, Marked(d)
      PROVE  Marked(d)'
  <2>1. Mark(d) = w => d \in bound'
    BY <1>3, MarkFields
  <2>2. QED
    BY <1>1, <1>3, <1>6, <2>1 DEF Marked, Mark
<1>7. \A d \in Known : d \in bound' \/ Mark(d) \in sent' => d \in bound \/ Mark(d) \in sent
  BY <1>1, <1>2, <1>3
<1>8. bound' \subseteq Known /\ \A i \in binds' : Binding(i)
  BY <1>1, <1>2, <1>3 DEF MarkInv
<1>9. QED
  BY <1>1, <1>4, <1>5, <1>6, <1>7, <1>8, MarkInvSame

LEMMA MarkInvLoss ==
    ASSUME TypeOK, MarkInv, UNCHANGED <<txs, named, bound>>,
           binds' \subseteq binds, sent' \subseteq sent, lost \subseteq lost',
           \A x \in sent \ sent' : x.bind => x.hash \in lost'
    PROVE  MarkInv'
<1>1. ASSUME NEW d \in Known, Marked(d)
      PROVE  Marked(d)'
  BY <1>1, MarkFields DEF Marked, Mark
<1>2. /\ \A i \in binds' : Binding(i)
      /\ \A i \in Hashes \ Known : named'[i] = NoName
      /\ bound' \subseteq Known
  BY DEF MarkInv
<1>3. QED
  BY <1>1, <1>2, MarkInvSame

LEMMA MarkInvStep ==
    ASSUME TypeOK, Chain, MarkInv, [Next]_vars
    PROVE  MarkInv'
<1> USE DEF tables
<1>1. CASE FindAllServiceTx
  BY <1>1, MarkInvLoss DEF FindAllServiceTx
<1>2. CASE Crash
  BY <1>2, MarkInvLoss DEF Crash, LostMarks
<1>3. ASSUME NEW i \in Hashes, QueryFails(i)
      PROVE  MarkInv'
  BY <1>3, MarkInvLoss DEF QueryFails
<1>4. ASSUME NEW w \in sent, WriteFails(w)
      PROVE  MarkInv'
  BY <1>4, MarkInvLoss DEF WriteFails, LostMarks
<1>5. CASE UNCHANGED vars
  BY <1>5, MarkInvLoss DEF vars
<1>6. QED
  BY <1>1, <1>2, <1>3, <1>4, <1>5, MarkInvGrow, MarkInvRun, MarkInvQuery, MarkInvWrite
     DEF Next, RunStep

(* However many runs and faults there are: the definition of a binding     *)
(* that has its name is marked, unless its mark is under way or was lost,  *)
(* and nothing is marked that was not bound.                               *)
THEOREM MarksStayRight == Spec => []MarksAreRight
<1>1. Init => MarkInv
  BY ServiceSettings DEF Init, MarkInv, Known, Hashes, Binding
<1>2. MarkInv => MarksAreRight
  BY DEF MarkInv, MarksAreRight, Marked
<1>3. QED
  BY <1>1, <1>2, ChainInit, ChainStep, TypeInit, TypeStep, MarkInvStep, PTL DEF Spec
=============================================================================
