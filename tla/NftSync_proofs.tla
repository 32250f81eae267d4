---------------------------- MODULE NftSync_proofs ----------------------------
(* Theorems about NftSync, for any NFTs, messages, windows, sizes of       *)
(* batches, failures and crashes.                                          *)
EXTENDS NftSync, SetFacts, SequenceTheorems, TLAPS

-----------------------------------------------------------------------------
(* The chain.  After is the history of msgs; the lemmas speak of the       *)
(* history of any messages, so that they serve before and after a step.    *)

States == [Nfts -> Doc]
Nothing == [n \in Nfts |-> NoDoc]

History(ms) ==
    CHOOSE h : h = [i \in 0..Len(ms) |->
                      IF i = 0 THEN Nothing ELSE Applied(h[i - 1], ms[i])]

LEMMA AppliedType ==
    ASSUME NEW t \in States, NEW m \in Message
    PROVE  Applied(t, m) \in States
BY DEF Applied, States, Doc, NoDoc, Message

(* There is such a function for every sequence of messages. *)
LEMMA HistoryIs ==
    ASSUME NEW ms \in Seq(Message)
    PROVE  /\ History(ms) \in [0..Len(ms) -> States]
           /\ History(ms)[0] = Nothing
           /\ \A i \in 1..Len(ms) : History(ms)[i] = Applied(History(ms)[i - 1], ms[i])
<1> DEFINE N == Len(ms)
           IsFor(h, n) == /\ h \in [0..n -> States]
                          /\ h[0] = Nothing
                          /\ \A i \in 1..n : h[i] = Applied(h[i - 1], ms[i])
           S == {n \in 0..N : \E h \in [0..n -> States] : IsFor(h, n)}
<1>0. N \in Nat /\ \A i \in 1..N : ms[i] \in Message
  OBVIOUS
<1>1. 0 \in S
  <2>1. Nothing \in States
    BY DEF Nothing, States, Doc, NoDoc
  <2> DEFINE z == [i \in 0..0 |-> Nothing]
  <2>2. z \in [0..0 -> States] /\ z[0] = Nothing
    BY <2>1
  <2> HIDE DEF z
  <2>3. 0 \in 0..N /\ IsFor(z, 0)
    BY <1>0, <2>2
  <2>4. QED
    BY <2>2, <2>3
<1>2. ASSUME NEW n \in 1..N, n - 1 \in S
      PROVE  n \in S
  <2>1. PICK h \in [0..(n - 1) -> States] : IsFor(h, n - 1)
    BY <1>2
  <2> DEFINE g == [i \in 0..n |-> IF i < n THEN h[i] ELSE Applied(h[n - 1], ms[n])]
  <2>2. h[n - 1] \in States /\ Applied(h[n - 1], ms[n]) \in States
    BY <1>0, <2>1, AppliedType
  <2>3. g \in [0..n -> States]
    BY <2>2
  <2>4. g[0] = Nothing
    BY <2>1
  <2>5. \A i \in 1..n : g[i] = Applied(g[i - 1], ms[i])
    BY <2>1
  <2>6. IsFor(g, n)
    BY <2>3, <2>4, <2>5
  <2>7. QED
    <3>1. n \in 0..N
      BY <1>0
    <3> HIDE DEF g, IsFor
    <3>2. QED
      BY <2>3, <2>6, <3>1
<1>3. PICK h \in [0..N -> States] : IsFor(h, N)
  <2>1. N \in S
    BY <1>0, <1>1, <1>2, Climb
  <2>2. QED
    BY <2>1
<1>4. h = [i \in 0..N |-> IF i = 0 THEN Nothing ELSE Applied(h[i - 1], ms[i])]
  BY <1>3
<1> DEFINE H == History(ms)
<1>5. H = [i \in 0..N |-> IF i = 0 THEN Nothing ELSE Applied(H[i - 1], ms[i])]
  BY <1>4 DEF History
<1> HIDE DEF H
<1>6. H[0] = Nothing /\ \A i \in 1..N : H[i] = Applied(H[i - 1], ms[i])
  BY <1>0, <1>5
<1>7. \A i \in 0..N : i \in {j \in 0..N : H[j] \in States}
  <2> DEFINE T == {j \in 0..N : H[j] \in States}
  <2>1. 0 \in T
    BY <1>0, <1>6 DEF Nothing, States, Doc, NoDoc
  <2>2. \A i \in 1..N : i - 1 \in T => i \in T
    BY <1>0, <1>6, AppliedType
  <2> HIDE DEF T
  <2>3. \A i \in 0..N : i \in T
    BY <1>0, <2>1, <2>2, Climb
  <2>4. QED
    BY <2>3 DEF T
<1>8. QED
  BY <1>5, <1>6, <1>7 DEF H

(* The chains there can be: heights and numbers are positive, heights      *)
(* never decrease, and every message was accepted where it stands.         *)
Chains ==
    {ms \in Seq(Message) :
        /\ \A i \in 1..Len(ms) : /\ ms[i].height # 0 /\ ms[i].id # 0
                                 /\ Accepts(History(ms)[i - 1], ms[i])
        /\ \A i, j \in 1..Len(ms) : i <= j => ms[i].height <= ms[j].height}

TopOf(ms) == IF ms = <<>> THEN 0 ELSE Last(ms).height
UntilOf(ms, k) == Max({0} \cup {i \in 1..Len(ms) : ms[i].height <= k})
LedgerOf(ms, k) == History(ms)[UntilOf(ms, k)]

LEMMA ChainTypes ==
    ASSUME NEW ms \in Chains
    PROVE  /\ ms \in Seq(Message) /\ Len(ms) \in Nat
           /\ \A i \in 1..Len(ms) : /\ ms[i] \in Message
                                    /\ ms[i].height \in Nat \ {0} /\ ms[i].id \in Nat \ {0}
                                    /\ Accepts(History(ms)[i - 1], ms[i])
           /\ \A i \in 0..Len(ms) : History(ms)[i] \in States
           /\ History(ms)[0] = Nothing
           /\ \A i \in 1..Len(ms) : History(ms)[i] = Applied(History(ms)[i - 1], ms[i])
<1>1. ms \in Seq(Message)
  BY DEF Chains
<1>2. \A i \in 1..Len(ms) : ms[i] \in Message
  BY <1>1
<1>3. \A i \in 1..Len(ms) : ms[i].height \in Nat /\ ms[i].id \in Nat
  BY <1>2 DEF Message
<1>4. \A i \in 1..Len(ms) :
          ms[i].height # 0 /\ ms[i].id # 0 /\ Accepts(History(ms)[i - 1], ms[i])
  BY DEF Chains
<1>5. /\ History(ms) \in [0..Len(ms) -> States]
      /\ History(ms)[0] = Nothing
      /\ \A i \in 1..Len(ms) : History(ms)[i] = Applied(History(ms)[i - 1], ms[i])
  BY <1>1, HistoryIs
<1>6. QED
  BY <1>1, <1>2, <1>3, <1>4, <1>5

LEMMA UntilIs ==
    ASSUME NEW ms \in Chains, NEW k \in Nat
    PROVE  /\ UntilOf(ms, k) \in 0..Len(ms)
           /\ \A i \in 1..Len(ms) : ms[i].height <= k <=> i <= UntilOf(ms, k)
<1> DEFINE S == {0} \cup {i \in 1..Len(ms) : ms[i].height <= k}
<1>1. Len(ms) \in Nat /\ S \in SUBSET (0..Len(ms)) /\ S # {}
  BY ChainTypes
<1>2. Max(S) \in S /\ \A y \in S : y <= Max(S)
  BY <1>1, MaxIsGreatest
<1>3. UntilOf(ms, k) = Max(S)
  BY DEF UntilOf
<1>4. ASSUME NEW i \in 1..Len(ms), i <= Max(S)
      PROVE  ms[i].height <= k
  <2>1. Max(S) \in 1..Len(ms) /\ ms[Max(S)].height <= k
    BY <1>1, <1>2, <1>4
  <2>2. ms[i].height <= ms[Max(S)].height
    BY <1>4, <2>1 DEF Chains
  <2>3. ms[i].height \in Nat /\ ms[Max(S)].height \in Nat
    BY <2>1, ChainTypes
  <2>4. QED
    BY <2>1, <2>2, <2>3
<1>5. ASSUME NEW i \in 1..Len(ms), ms[i].height <= k
      PROVE  i <= Max(S)
  BY <1>2, <1>5
<1>6. QED
  BY <1>1, <1>2, <1>3, <1>4, <1>5

LEMMA UntilMonotone ==
    ASSUME NEW ms \in Chains, NEW j \in Nat, NEW k \in Nat, j <= k
    PROVE  UntilOf(ms, j) <= UntilOf(ms, k)
<1> DEFINE u == UntilOf(ms, j)
<1>1. /\ u \in 0..Len(ms) /\ UntilOf(ms, k) \in 0..Len(ms)
      /\ \A i \in 1..Len(ms) : ms[i].height <= j <=> i <= u
      /\ \A i \in 1..Len(ms) : ms[i].height <= k <=> i <= UntilOf(ms, k)
      /\ Len(ms) \in Nat /\ \A i \in 1..Len(ms) : ms[i].height \in Nat
  BY UntilIs, ChainTypes
<1> HIDE DEF u
<1>2. CASE u = 0
  BY <1>1, <1>2 DEF u
<1>3. CASE u # 0
  <2>1. u \in 1..Len(ms) /\ ms[u].height <= j /\ ms[u].height \in Nat
    BY <1>1, <1>3
  <2>2. ms[u].height <= k
    BY <2>1
  <2>3. u <= UntilOf(ms, k)
    BY <1>1, <2>1, <2>2
  <2>4. QED
    BY <2>3 DEF u
<1>4. QED
  BY <1>2, <1>3

LEMMA TopIs ==
    ASSUME NEW ms \in Chains
    PROVE  /\ TopOf(ms) \in Nat
           /\ \A i \in 1..Len(ms) : ms[i].height <= TopOf(ms)
           /\ ms # <<>> => Len(ms) \in 1..Len(ms) /\ TopOf(ms) = ms[Len(ms)].height
           /\ \A k \in Nat : TopOf(ms) <= k => UntilOf(ms, k) = Len(ms)
<1>1. ms # <<>> => Len(ms) \in 1..Len(ms) /\ TopOf(ms) = ms[Len(ms)].height
  BY ChainTypes, EmptySeq DEF TopOf, Last
<1>2. TopOf(ms) \in Nat
  BY <1>1, ChainTypes DEF TopOf
<1>3. ASSUME NEW i \in 1..Len(ms)
      PROVE  ms[i].height <= TopOf(ms)
  <2>1. ms # <<>> /\ Len(ms) \in 1..Len(ms) /\ i <= Len(ms)
    BY <1>1, ChainTypes
  <2>2. ms[i].height <= ms[Len(ms)].height
    BY <2>1 DEF Chains
  <2>3. QED
    BY <1>1, <2>1, <2>2
<1>4. ASSUME NEW k \in Nat, TopOf(ms) <= k
      PROVE  UntilOf(ms, k) = Len(ms)
  <2>1. /\ UntilOf(ms, k) \in 0..Len(ms) /\ Len(ms) \in Nat
        /\ \A i \in 1..Len(ms) : ms[i].height <= k <=> i <= UntilOf(ms, k)
    BY UntilIs, ChainTypes
  <2>2. CASE ms = <<>>
    BY <2>1, <2>2
  <2>3. CASE ms # <<>>
    BY <1>1, <1>4, <2>1, <2>3
  <2>4. QED
    BY <2>2, <2>3
<1>5. QED
  BY <1>1, <1>2, <1>3, <1>4

(* What the chain says of an NFT that exists was said by a message with    *)
(* its height, and by every state since.                                   *)
LEMMA SaidOnce ==
    ASSUME NEW ms \in Chains, NEW n \in Nfts, NEW i \in 0..Len(ms),
           History(ms)[i][n] # NoDoc
    PROVE  LET d == History(ms)[i][n] IN
           /\ d.owner # 0 /\ d.data # 0 /\ d.height # 0
           /\ \E j \in 1..i : /\ ms[j].height = d.height
                              /\ \A l \in j..i : History(ms)[l][n] = d
<1> DEFINE H(l) == History(ms)[l][n]
           Whole(d) == d.owner # 0 /\ d.data # 0 /\ d.height # 0
           Since(l) == \E j \in 1..l : /\ ms[j].height = H(l).height
                                       /\ \A k \in j..l : H(k) = H(l)
           N == Len(ms)
           S == {l \in 0..N : H(l) # NoDoc => Whole(H(l)) /\ Since(l)}
<1>1. N \in Nat /\ 0 \in S
  BY ChainTypes DEF Nothing
<1>2. ASSUME NEW l \in 1..N, l - 1 \in S
      PROVE  l \in S
  <2>1. /\ ms[l] \in Message /\ ms[l].height \in Nat \ {0} /\ ms[l].id \in Nat \ {0}
        /\ Accepts(History(ms)[l - 1], ms[l])
        /\ History(ms)[l] = Applied(History(ms)[l - 1], ms[l])
        /\ History(ms)[l - 1] \in States
    BY ChainTypes
  <2>2. H(l - 1) # NoDoc => Whole(H(l - 1)) /\ Since(l - 1)
    BY <1>2
  <2>3. CASE ms[l].nft # n
    <3>1. H(l) = H(l - 1)
      BY <2>1, <2>3 DEF Applied, States
    <3>2. ASSUME Since(l - 1)
          PROVE  Since(l)
      <4>1. PICK j \in 1..(l - 1) : /\ ms[j].height = H(l - 1).height
                                    /\ \A k \in j..(l - 1) : H(k) = H(l - 1)
        BY <3>2
      <4>2. \A k \in j..l : k = l \/ k \in j..(l - 1)
        OBVIOUS
      <4>3. j \in 1..l /\ ms[j].height = H(l).height /\ \A k \in j..l : H(k) = H(l)
        BY <3>1, <4>1, <4>2
      <4>4. QED
        BY <4>3
    <3>3. QED
      BY <2>2, <3>1, <3>2
  <2>4. CASE ms[l].nft = n
    <3>1. H(l) # NoDoc => Whole(H(l)) /\ H(l).height = ms[l].height
      <4>1. H(l - 1) \in Doc /\ ms[l].op \in Ops
        BY <2>1, <2>4 DEF States, Message
      <4>2. H(l) = CASE ms[l].op = "burn" -> NoDoc
                     [] ms[l].op = "mint" ->
                          [owner |-> ms[l].id, data |-> ms[l].id, height |-> ms[l].height]
                     [] OTHER ->
                          [owner  |-> IF ms[l].op = "transfer" THEN ms[l].id ELSE H(l - 1).owner,
                           data   |-> IF ms[l].keep THEN H(l - 1).data ELSE ms[l].id,
                           height |-> ms[l].height]
        BY <2>1, <2>4 DEF Applied, States
      <4>3. ms[l].op = "mint" \/ Whole(H(l - 1))
        BY <2>1, <2>2, <2>4 DEF Accepts
      <4>4. QED
        BY <2>1, <4>1, <4>2, <4>3 DEF Ops
    <3>2. l \in 1..l /\ \A k \in l..l : H(k) = H(l)
      OBVIOUS
    <3>3. QED
      BY <3>1, <3>2
  <2>5. QED
    BY <2>3, <2>4
<1> HIDE DEF S, N
<1>3. \A l \in 0..N : l \in S
  BY <1>1, <1>2, Climb
<1>4. QED
  BY <1>3 DEF S, N

(* A document the chain had at height k it had at every height since the   *)
(* document's own.                                                         *)
LEMMA LedgerIs ==
    ASSUME NEW ms \in Chains, NEW n \in Nfts, NEW k \in Nat
    PROVE  LET d == LedgerOf(ms, k)[n] IN
           /\ d \in Doc
           /\ d # NoDoc =>
                /\ d.owner # 0 /\ d.data # 0 /\ d.height # 0
                /\ d.height <= k /\ d.height <= TopOf(ms)
                /\ \A h \in d.height..k : LedgerOf(ms, h)[n] = d
<1> DEFINE u == UntilOf(ms, k)
           d == LedgerOf(ms, k)[n]
<1>1. u \in 0..Len(ms) /\ Len(ms) \in Nat /\ d = History(ms)[u][n]
  BY UntilIs, ChainTypes DEF LedgerOf
<1>2. d \in Doc
  BY <1>1, ChainTypes DEF States
<1> HIDE DEF u, d
<1>3. ASSUME d # NoDoc
      PROVE  /\ d.owner # 0 /\ d.data # 0 /\ d.height # 0
             /\ d.height <= k /\ d.height <= TopOf(ms)
             /\ \A h \in d.height..k : LedgerOf(ms, h)[n] = d
  <2>1. /\ d.owner # 0 /\ d.data # 0 /\ d.height # 0
        /\ \E j \in 1..u : /\ ms[j].height = d.height
                           /\ \A l \in j..u : History(ms)[l][n] = d
    BY <1>1, <1>3, SaidOnce
  <2>2. PICK j \in 1..u : /\ ms[j].height = d.height
                          /\ \A l \in j..u : History(ms)[l][n] = d
    BY <2>1
  <2>3. j \in 1..Len(ms) /\ d.height <= k /\ d.height <= TopOf(ms) /\ d.height \in Nat
    <3>1. j \in 1..Len(ms) /\ j <= u
      BY <1>1, <2>2
    <3>2. ms[j].height <= k
      BY <3>1, UntilIs DEF u
    <3>3. ms[j].height <= TopOf(ms) /\ ms[j].height \in Nat
      BY <3>1, TopIs, ChainTypes
    <3>4. QED
      BY <2>2, <3>1, <3>2, <3>3
  <2>4. ASSUME NEW h \in d.height..k
        PROVE  LedgerOf(ms, h)[n] = d
    <3>1. h \in Nat /\ h <= k /\ d.height <= h
      BY <2>3
    <3>2. UntilOf(ms, h) \in 0..Len(ms) /\ UntilOf(ms, h) <= u
      BY <3>1, UntilIs, UntilMonotone DEF u
    <3>3. j <= UntilOf(ms, h)
      BY <2>2, <2>3, <3>1, UntilIs
    <3>4. UntilOf(ms, h) \in j..u
      BY <1>1, <3>2, <3>3
    <3>5. QED
      BY <2>2, <3>4 DEF LedgerOf
  <2>5. QED
    BY <2>1, <2>3, <2>4
<1>4. QED
  BY <1>2, <1>3 DEF d

-----------------------------------------------------------------------------
(* The chain grows at its end, above all that was there. *)

Grows(ms, ns) ==
    /\ ms \in Chains /\ ns \in Chains
    /\ Len(ms) <= Len(ns)
    /\ \A i \in 1..Len(ms) : ns[i] = ms[i]
    /\ \A i \in (Len(ms) + 1)..Len(ns) : TopOf(ms) < ns[i].height

LEMMA SamePast ==
    ASSUME NEW ms \in Seq(Message), NEW ns \in Seq(Message), Len(ms) <= Len(ns),
           \A i \in 1..Len(ms) : ns[i] = ms[i]
    PROVE  \A i \in 0..Len(ms) : History(ns)[i] = History(ms)[i]
<1> DEFINE N == Len(ms)
           S == {i \in 0..N : History(ns)[i] = History(ms)[i]}
<1>1. N \in Nat /\ Len(ns) \in Nat /\ 0 \in S
  BY HistoryIs
<1>2. ASSUME NEW i \in 1..N, i - 1 \in S
      PROVE  i \in S
  BY <1>1, <1>2, HistoryIs
<1> HIDE DEF S, N
<1>3. \A i \in 0..N : i \in S
  BY <1>1, <1>2, Climb
<1>4. QED
  BY <1>3 DEF S, N

LEMMA GrownIs ==
    ASSUME NEW ms, NEW ns, Grows(ms, ns)
    PROVE  /\ TopOf(ms) <= TopOf(ns)
           /\ \A k \in 0..TopOf(ms) : /\ UntilOf(ns, k) = UntilOf(ms, k)
                                      /\ LedgerOf(ns, k) = LedgerOf(ms, k)
<1>1. /\ ms \in Chains /\ ns \in Chains
      /\ ms \in Seq(Message) /\ ns \in Seq(Message)
      /\ Len(ms) \in Nat /\ Len(ns) \in Nat /\ Len(ms) <= Len(ns)
      /\ TopOf(ms) \in Nat /\ TopOf(ns) \in Nat
  BY ChainTypes, TopIs DEF Grows
<1>2. TopOf(ms) <= TopOf(ns)
  <2>1. CASE ms = <<>>
    BY <1>1, <2>1 DEF TopOf
  <2>2. CASE ms # <<>>
    <3>1. Len(ms) \in 1..Len(ns) /\ TopOf(ms) = ns[Len(ms)].height
      BY <1>1, <2>2, TopIs DEF Grows
    <3>2. QED
      BY <1>1, <3>1, TopIs
  <2>3. QED
    BY <2>1, <2>2
<1>3. ASSUME NEW k \in 0..TopOf(ms)
      PROVE  UntilOf(ns, k) = UntilOf(ms, k) /\ LedgerOf(ns, k) = LedgerOf(ms, k)
  <2> DEFINE u == UntilOf(ms, k)
             v == UntilOf(ns, k)
  <2>1. k \in Nat /\ k <= TopOf(ms)
    BY <1>1
  <2>2. /\ u \in 0..Len(ms) /\ v \in 0..Len(ns)
        /\ \A i \in 1..Len(ms) : ms[i].height <= k <=> i <= u
        /\ \A i \in 1..Len(ns) : ns[i].height <= k <=> i <= v
    BY <1>1, <2>1, UntilIs
  <2>3. \A i \in 1..Len(ms) : ms[i].height \in Nat
    BY <1>1, ChainTypes
  <2>4. \A i \in 1..Len(ns) : ns[i].height \in Nat
    BY <1>1, ChainTypes
  <2> HIDE DEF u, v
  <2>5. v <= Len(ms)
    <3>1. SUFFICES ASSUME v > Len(ms)
                   PROVE  FALSE
      BY <1>1, <2>2
    <3>2. v \in (Len(ms) + 1)..Len(ns) /\ v \in 1..Len(ns)
      BY <1>1, <2>2, <3>1
    <3>3. TopOf(ms) < ns[v].height
      BY <3>2 DEF Grows
    <3>4. QED
      BY <1>1, <2>1, <2>2, <2>4, <3>2, <3>3
  <2>6. u = v
    <3>1. u <= v
      <4>1. CASE u = 0
        BY <2>2, <4>1
      <4>2. CASE u # 0
        <5>1. u \in 1..Len(ms) /\ u \in 1..Len(ns)
          BY <1>1, <2>2, <4>2
        <5>2. ns[u].height <= k
          BY <2>2, <5>1 DEF Grows
        <5>3. QED
          BY <2>2, <5>1, <5>2
      <4>3. QED
        BY <4>1, <4>2
    <3>2. v <= u
      <4>1. CASE v = 0
        BY <2>2, <4>1
      <4>2. CASE v # 0
        <5>1. v \in 1..Len(ms) /\ v \in 1..Len(ns)
          BY <1>1, <2>2, <2>5, <4>2
        <5>2. ms[v].height <= k
          BY <2>2, <5>1 DEF Grows
        <5>3. QED
          BY <2>2, <5>1, <5>2
      <4>3. QED
        BY <4>1, <4>2
    <3>3. QED
      BY <2>2, <3>1, <3>2
  <2>7. History(ns)[u] = History(ms)[u]
    BY <1>1, <2>2, SamePast DEF Grows
  <2>8. QED
    BY <2>6, <2>7 DEF u, v, LedgerOf
<1>4. QED
  BY <1>2, <1>3

(* One message more, accepted by what the chain says now. *)
LEMMA OneMore ==
    ASSUME NEW ms \in Chains, NEW m \in Message, m.height # 0, m.id # 0,
           TopOf(ms) <= m.height, Accepts(History(ms)[Len(ms)], m)
    PROVE  /\ Append(ms, m) \in Chains
           /\ TopOf(Append(ms, m)) = m.height
           /\ History(Append(ms, m))[Len(ms) + 1] = Applied(History(ms)[Len(ms)], m)
<1> DEFINE ns == Append(ms, m)
<1>1. /\ ms \in Seq(Message) /\ Len(ms) \in Nat
      /\ ns \in Seq(Message) /\ Len(ns) = Len(ms) + 1
      /\ ns[Len(ms) + 1] = m
      /\ \A i \in 1..Len(ms) : ns[i] = ms[i]
  BY ChainTypes
<1>2. /\ m.height \in Nat \ {0} /\ m.id \in Nat \ {0}
      /\ TopOf(ms) \in Nat /\ \A i \in 1..Len(ms) : ms[i].height \in Nat
  BY TopIs, ChainTypes DEF Message
<1> HIDE DEF ns
<1>3. \A i \in 0..Len(ms) : History(ns)[i] = History(ms)[i]
  BY <1>1, SamePast
<1>4. History(ns)[Len(ms) + 1] = Applied(History(ms)[Len(ms)], m)
  <2>1. Len(ms) + 1 \in 1..Len(ns) /\ (Len(ms) + 1) - 1 = Len(ms)
    BY <1>1
  <2>2. History(ns)[Len(ms) + 1] = Applied(History(ns)[(Len(ms) + 1) - 1], ns[Len(ms) + 1])
    BY <1>1, <2>1, HistoryIs
  <2>3. QED
    BY <1>1, <1>3, <2>1, <2>2
<1>5. ASSUME NEW i \in 1..Len(ns)
      PROVE  ns[i].height # 0 /\ ns[i].id # 0 /\ Accepts(History(ns)[i - 1], ns[i])
  <2>1. CASE i = Len(ms) + 1
    <3>1. i - 1 = Len(ms) /\ ns[i] = m
      BY <1>1, <2>1
    <3>2. QED
      BY <1>1, <1>3, <3>1
  <2>2. CASE i # Len(ms) + 1
    <3>1. i \in 1..Len(ms) /\ i - 1 \in 0..Len(ms)
      BY <1>1, <2>2
    <3>2. QED
      BY <1>1, <1>3, <3>1, ChainTypes
  <2>3. QED
    BY <2>1, <2>2
<1>6. ASSUME NEW i \in 1..Len(ns), NEW j \in 1..Len(ns), i <= j
      PROVE  ns[i].height <= ns[j].height
  <2>1. CASE j = Len(ms) + 1
    <3>1. CASE i = Len(ms) + 1
      BY <1>1, <1>2, <2>1, <3>1
    <3>2. CASE i # Len(ms) + 1
      <4>1. i \in 1..Len(ms) /\ ns[i] = ms[i] /\ ns[j] = m
        BY <1>1, <2>1, <3>2
      <4>2. QED
        BY <1>2, <4>1, TopIs
    <3>3. QED
      BY <3>1, <3>2
  <2>2. CASE j # Len(ms) + 1
    <3>1. i \in 1..Len(ms) /\ j \in 1..Len(ms)
      BY <1>1, <1>6, <2>2
    <3>2. QED
      BY <1>1, <1>6, <3>1 DEF Chains
  <2>3. QED
    BY <2>1, <2>2
<1>7. ns \in Chains
  BY <1>1, <1>5, <1>6 DEF Chains
<1>8. TopOf(ns) = m.height
  BY <1>1 DEF TopOf, Last
<1>9. QED
  BY <1>4, <1>7, <1>8 DEF ns

-----------------------------------------------------------------------------
(* The batch. *)

Writes == [Nfts -> Write]

FoldOf(read) ==
    CHOOSE w : w = [i \in 0..Len(read) |->
                      IF i = 0 THEN [n \in Nfts |-> NoWrite] ELSE Folded(w[i - 1], read[i])]

LEMMA FoldedType ==
    ASSUME NEW w \in Writes, NEW m \in Message
    PROVE  Folded(w, m) \in Writes
BY DEF Folded, Writes, Write, NoWrite, Message

LEMMA FoldIs ==
    ASSUME NEW read \in Seq(Message)
    PROVE  /\ FoldOf(read) \in [0..Len(read) -> Writes]
           /\ FoldOf(read)[0] = [n \in Nfts |-> NoWrite]
           /\ \A i \in 1..Len(read) : FoldOf(read)[i] = Folded(FoldOf(read)[i - 1], read[i])
<1> DEFINE N == Len(read)
           none == [n \in Nfts |-> NoWrite]
           IsFor(h, n) == /\ h \in [0..n -> Writes]
                          /\ h[0] = none
                          /\ \A i \in 1..n : h[i] = Folded(h[i - 1], read[i])
           S == {n \in 0..N : \E h \in [0..n -> Writes] : IsFor(h, n)}
<1>0. N \in Nat /\ \A i \in 1..N : read[i] \in Message
  OBVIOUS
<1>1. none \in Writes
  BY DEF Writes, Write, NoWrite
<1> HIDE DEF none
<1>2. 0 \in S
  <2> DEFINE z == [i \in 0..0 |-> none]
  <2>1. z \in [0..0 -> Writes] /\ z[0] = none
    BY <1>1
  <2> HIDE DEF z
  <2>2. 0 \in 0..N /\ IsFor(z, 0)
    BY <1>0, <2>1
  <2>3. QED
    BY <2>1, <2>2
<1>3. ASSUME NEW n \in 1..N, n - 1 \in S
      PROVE  n \in S
  <2>1. PICK h \in [0..(n - 1) -> Writes] : IsFor(h, n - 1)
    BY <1>3
  <2> DEFINE g == [i \in 0..n |-> IF i < n THEN h[i] ELSE Folded(h[n - 1], read[n])]
  <2>2. h[n - 1] \in Writes /\ Folded(h[n - 1], read[n]) \in Writes
    BY <1>0, <2>1, FoldedType
  <2>3. g \in [0..n -> Writes]
    BY <2>2
  <2>4. g[0] = none
    BY <2>1
  <2>5. \A i \in 1..n : g[i] = Folded(g[i - 1], read[i])
    BY <2>1
  <2>6. IsFor(g, n)
    BY <2>3, <2>4, <2>5
  <2>7. QED
    <3>1. n \in 0..N
      BY <1>0
    <3> HIDE DEF g, IsFor
    <3>2. QED
      BY <2>3, <2>6, <3>1
<1>4. PICK h \in [0..N -> Writes] : IsFor(h, N)
  <2>1. N \in S
    BY <1>0, <1>2, <1>3, Climb
  <2>2. QED
    BY <2>1
<1>5. h = [i \in 0..N |-> IF i = 0 THEN none ELSE Folded(h[i - 1], read[i])]
  BY <1>4
<1> DEFINE H == FoldOf(read)
<1>6. H = [i \in 0..N |-> IF i = 0 THEN none ELSE Folded(H[i - 1], read[i])]
  BY <1>5 DEF FoldOf, none
<1> HIDE DEF H
<1>7. H[0] = none /\ \A i \in 1..N : H[i] = Folded(H[i - 1], read[i])
  BY <1>0, <1>6
<1>8. \A i \in 0..N : H[i] \in Writes
  <2> DEFINE T == {j \in 0..N : H[j] \in Writes}
  <2>1. 0 \in T
    BY <1>0, <1>1, <1>7
  <2>2. \A i \in 1..N : i - 1 \in T => i \in T
    BY <1>0, <1>7, FoldedType
  <2> HIDE DEF T
  <2>3. \A i \in 0..N : i \in T
    BY <1>0, <2>1, <2>2, Climb
  <2>4. QED
    BY <2>3 DEF T
<1>9. QED
  BY <1>6, <1>7, <1>8 DEF H, none

LEMMA WritesOfIs ==
    ASSUME NEW read \in Seq(Message)
    PROVE  WritesOf(read) = FoldOf(read)[Len(read)] /\ WritesOf(read) \in Writes
<1>1. WritesOf(read) = FoldOf(read)[Len(read)]
  BY DEF WritesOf, FoldOf
<1>2. QED
  BY <1>1, FoldIs

(* What a message does to the document of its NFT, and to its write. *)
LEMMA AppliedTo ==
    ASSUME NEW t \in States, NEW m \in Message
    PROVE  LET old == t[m.nft]
               new == Applied(t, m)[m.nft] IN
           /\ \A n \in Nfts : n # m.nft => Applied(t, m)[n] = t[n]
           /\ m.op = "burn" => new = NoDoc
           /\ m.op = "mint" => new = [owner |-> m.id, data |-> m.id, height |-> m.height]
           /\ m.op \in {"edit", "transfer"} =>
                new = [owner  |-> IF m.op = "transfer" THEN m.id ELSE old.owner,
                       data   |-> IF m.keep THEN old.data ELSE m.id,
                       height |-> m.height]
BY DEF Applied, States, Message

LEMMA FoldedTo ==
    ASSUME NEW w \in Writes, NEW m \in Message
    PROVE  LET old == w[m.nft]
               new == Folded(w, m)[m.nft] IN
           /\ \A n \in Nfts : n # m.nft => Folded(w, m)[n] = w[n]
           /\ new \in Write
           /\ new.owner = IF m.op \in {"mint", "transfer"} THEN m.id ELSE old.owner
           /\ new.data = IF m.op # "burn" /\ ~m.keep THEN m.id ELSE old.data
           /\ new.deleted <=> m.op = "burn" \/ (m.op # "mint" /\ old.deleted)
           /\ new.height = m.height
<1>1. Folded(w, m) \in Writes
  BY FoldedType
<1>2. \A n \in Nfts : n # m.nft => Folded(w, m)[n] = w[n]
  BY DEF Folded, Writes
<1>3. m.nft \in Nfts
  BY DEF Message
<1>4. Folded(w, m)[m.nft] =
        [owner   |-> IF m.op \in {"mint", "transfer"} THEN m.id ELSE w[m.nft].owner,
         data    |-> IF m.op # "burn" /\ ~m.keep THEN m.id ELSE w[m.nft].data,
         deleted |-> m.op = "burn" \/ (m.op # "mint" /\ w[m.nft].deleted),
         height  |-> m.height]
  BY <1>3 DEF Folded, Writes
<1>5. Folded(w, m)[m.nft] \in Write
  BY <1>1, <1>3 DEF Writes
<1> DEFINE new == Folded(w, m)[m.nft]
<1>6. /\ new.owner = IF m.op \in {"mint", "transfer"} THEN m.id ELSE w[m.nft].owner
      /\ new.data = IF m.op # "burn" /\ ~m.keep THEN m.id ELSE w[m.nft].data
      /\ new.height = m.height
  BY <1>4
<1> DEFINE gone == m.op = "burn" \/ (m.op # "mint" /\ w[m.nft].deleted)
<1>7. new.deleted = gone
  <2> HIDE DEF gone
  <2>1. new = [owner   |-> IF m.op \in {"mint", "transfer"} THEN m.id ELSE w[m.nft].owner,
               data    |-> IF m.op # "burn" /\ ~m.keep THEN m.id ELSE w[m.nft].data,
               deleted |-> gone,
               height  |-> m.height]
    BY <1>4 DEF gone
  <2> HIDE DEF new
  <2>2. QED
    BY <2>1
<1>8. QED
  BY <1>2, <1>5, <1>6, <1>7

(* What a fold leaves of an NFT says what the messages did to it: nothing, *)
(* or its write made upon the old document gives the new one.  If there    *)
(* was no document at some point, no field is taken from before it.        *)
SetsAll(x) == x.deleted \/ (x.owner # 0 /\ x.data # 0)

LEMMA OneFold ==
    ASSUME NEW t \in States, NEW w \in Writes, NEW m \in Message, NEW base \in Doc,
           m.height # 0, m.id # 0, Accepts(t, m),
           w[m.nft].height = 0 => w[m.nft] = NoWrite /\ t[m.nft] = base,
           w[m.nft].height # 0 => t[m.nft] = Written(base, w[m.nft])
    PROVE  LET x == w[m.nft]
               y == Folded(w, m)[m.nft]
               new == Applied(t, m)[m.nft] IN
           /\ y.height = m.height
           /\ new = Written(base, y)
           /\ new = NoDoc => SetsAll(y)
           /\ t[m.nft] = NoDoc => SetsAll(y)
           /\ x.height # 0 /\ SetsAll(x) => SetsAll(y)
<1> DEFINE x == w[m.nft]
           y == Folded(w, m)[m.nft]
           old == t[m.nft]
           new == Applied(t, m)[m.nft]
<1>1. /\ m.op \in Ops /\ m.keep \in BOOLEAN /\ m.nft \in Nfts
      /\ m.id \in Nat \ {0} /\ m.height \in Nat \ {0}
      /\ old \in Doc /\ x \in Write
  BY DEF Message, States, Writes
<1>2. /\ m.op = "burn" => new = NoDoc
      /\ m.op = "mint" => new = [owner |-> m.id, data |-> m.id, height |-> m.height]
      /\ m.op \in {"edit", "transfer"} =>
           new = [owner  |-> IF m.op = "transfer" THEN m.id ELSE old.owner,
                  data   |-> IF m.keep THEN old.data ELSE m.id,
                  height |-> m.height]
  BY AppliedTo
<1>3. /\ y \in Write
      /\ y.owner = IF m.op \in {"mint", "transfer"} THEN m.id ELSE x.owner
      /\ y.data = IF m.op # "burn" /\ ~m.keep THEN m.id ELSE x.data
      /\ y.deleted <=> m.op = "burn" \/ (m.op # "mint" /\ x.deleted)
      /\ y.height = m.height
  BY FoldedTo
<1>4. /\ m.op = "mint" <=> old = NoDoc
      /\ m.keep => m.op \in {"edit", "transfer"}
  BY DEF Accepts
<1>5. /\ x.height = 0 => x = NoWrite /\ old = base
      /\ x.height # 0 => old = Written(base, x)
  OBVIOUS
<1> HIDE DEF x, y, old, new
<1>6. CASE m.op = "burn"
  BY <1>2, <1>3, <1>4, <1>6 DEF Written, SetsAll, x, y, old, new
<1>7. CASE m.op = "mint"
  <2>1. /\ ~y.deleted /\ y.owner = m.id /\ y.data = m.id /\ y.height = m.height
        /\ new = [owner |-> m.id, data |-> m.id, height |-> m.height]
    BY <1>2, <1>3, <1>4, <1>7
  <2>2. new = Written(base, y)
    BY <1>1, <2>1 DEF Written
  <2>3. SetsAll(y)
    BY <1>1, <2>1 DEF SetsAll
  <2>4. QED
    BY <2>1, <2>2, <2>3 DEF x, y, old, new
<1>8. CASE m.op \in {"edit", "transfer"}
  <2>1. old # NoDoc
    BY <1>4, <1>8
  <2>2. ~x.deleted
    BY <1>5, <2>1 DEF Written, NoWrite
  <2>3. /\ ~y.deleted /\ y.height = m.height
        /\ y.owner = IF m.op = "transfer" THEN m.id ELSE x.owner
        /\ y.data = IF m.keep THEN x.data ELSE m.id
    BY <1>3, <1>8, <2>2
  <2>4. new = [owner  |-> IF m.op = "transfer" THEN m.id ELSE old.owner,
               data   |-> IF m.keep THEN old.data ELSE m.id,
               height |-> m.height]
    BY <1>2, <1>8
  <2>5. /\ old.owner = IF x.owner = 0 THEN base.owner ELSE x.owner
        /\ old.data = IF x.data = 0 THEN base.data ELSE x.data
    BY <1>5, <2>2 DEF Written, NoWrite
  <2>6. new = Written(base, y)
    BY <1>1, <2>3, <2>4, <2>5 DEF Written
  <2>7. new # NoDoc
    BY <1>1, <2>4 DEF NoDoc
  <2>8. SetsAll(x) => SetsAll(y)
    BY <1>1, <2>2, <2>3 DEF SetsAll
  <2>9. QED
    BY <2>1, <2>3, <2>6, <2>7, <2>8 DEF x, y, old, new
<1>9. QED
  BY <1>1, <1>6, <1>7, <1>8 DEF Ops

LEMMA FoldSays ==
    ASSUME NEW ms \in Chains, NEW p \in 0..Len(ms), NEW q \in p..Len(ms), NEW n \in Nfts
    PROVE  LET x == WritesOf(SubSeq(ms, p + 1, q))[n]
               H(j) == History(ms)[j][n] IN
           /\ x.height = 0 => x = NoWrite /\ \A j \in p..q : H(j) = H(p)
           /\ x.height # 0 => /\ H(q) = Written(H(p), x)
                              /\ \E j \in (p + 1)..q : ms[j].height = x.height
                              /\ (\E j \in p..q : H(j) = NoDoc) => SetsAll(x)
<1> DEFINE read == SubSeq(ms, p + 1, q)
           N == q - p
           F(i) == FoldOf(read)[i][n]
           H(j) == History(ms)[j][n]
           Says(i) ==
              /\ F(i).height = 0 => F(i) = NoWrite /\ \A j \in p..(p + i) : H(j) = H(p)
              /\ F(i).height # 0 =>
                    /\ H(p + i) = Written(H(p), F(i))
                    /\ \E j \in (p + 1)..(p + i) : ms[j].height = F(i).height
                    /\ (\E j \in p..(p + i) : H(j) = NoDoc) => SetsAll(F(i))
           S == {i \in 0..N : Says(i)}
<1>1. /\ Len(ms) \in Nat /\ p \in Nat /\ q \in Nat /\ N \in Nat
      /\ ms \in Seq(Message)
  BY ChainTypes
<1>2. /\ read \in Seq(Message) /\ Len(read) = N
      /\ \A i \in 1..N : read[i] = ms[p + i]
  BY <1>1
<1> HIDE DEF read
<1>3. 0 \in S
  <2>1. F(0) = NoWrite
    BY <1>2, FoldIs
  <2>2. F(0).height = 0 /\ \A j \in p..(p + 0) : H(j) = H(p)
    BY <1>1, <2>1 DEF NoWrite
  <2>3. QED
    BY <1>1, <2>1, <2>2
<1>4. ASSUME NEW i \in 1..N, i - 1 \in S
      PROVE  i \in S
  <2> DEFINE k == p + i
             m == ms[k]
             x == F(i - 1)
             old == H(k - 1)
  <2>1. /\ k \in 1..Len(ms) /\ k - 1 = p + (i - 1) /\ k - 1 \in 0..Len(ms)
        /\ k \in Nat /\ p \in 0..Len(ms) /\ i - 1 \in 0..N
    BY <1>1
  <2>2. /\ m \in Message /\ m.height \in Nat \ {0} /\ m.id \in Nat \ {0}
        /\ Accepts(History(ms)[k - 1], m)
        /\ History(ms)[k] = Applied(History(ms)[k - 1], m)
        /\ History(ms)[k - 1] \in States /\ History(ms)[p] \in States
    BY <2>1, ChainTypes
  <2>3. /\ FoldOf(read)[i] = Folded(FoldOf(read)[i - 1], m)
        /\ FoldOf(read)[i - 1] \in Writes
    <3>1. /\ FoldOf(read) \in [0..N -> Writes]
          /\ \A l \in 1..N : FoldOf(read)[l] = Folded(FoldOf(read)[l - 1], read[l])
      BY <1>2, FoldIs
    <3>2. read[i] = m /\ i \in 1..N /\ i - 1 \in 0..N
      BY <1>1, <1>2
    <3> HIDE DEF N, m
    <3>3. QED
      BY <3>1, <3>2
  <2>4. old \in Doc /\ H(p) \in Doc /\ x \in Write
    BY <2>2, <2>3 DEF States, Writes
  <2>5. /\ x.height = 0 => x = NoWrite /\ \A j \in p..(k - 1) : H(j) = H(p)
        /\ x.height # 0 =>
              /\ old = Written(H(p), x)
              /\ \E j \in (p + 1)..(k - 1) : ms[j].height = x.height
              /\ (\E j \in p..(k - 1) : H(j) = NoDoc) => SetsAll(x)
    BY <1>4, <2>1
  <2>6. \A j \in p..k : j = k \/ j \in p..(k - 1)
    BY <2>1
  <2>7. CASE m.nft # n
    <3>1. H(k) = old /\ F(i) = x
      BY <2>2, <2>3, <2>7 DEF Applied, Folded, States, Writes
    <3>2. x.height = 0 => \A j \in p..k : H(j) = H(p)
      BY <2>1, <2>5, <2>6, <3>1
    <3>3. x.height # 0 => \E j \in (p + 1)..k : ms[j].height = x.height
      BY <2>1, <2>5
    <3>4. x.height # 0 => ((\E j \in p..k : H(j) = NoDoc) => SetsAll(x))
      BY <2>1, <2>5, <2>6, <3>1
    <3>5. Says(i)
      BY <2>5, <3>1, <3>2, <3>3, <3>4
    <3>6. QED
      BY <2>1, <3>5
  <2>8. CASE m.nft = n
    <3> DEFINE y == F(i)
    <3>1. /\ y.height = m.height
          /\ H(k) = Written(H(p), y)
          /\ H(k) = NoDoc => SetsAll(y)
          /\ old = NoDoc => SetsAll(y)
          /\ x.height # 0 /\ SetsAll(x) => SetsAll(y)
      <4>1. x.height = 0 => old = H(p)
        BY <2>1, <2>5
      <4>2. QED
        <5> DEFINE t == History(ms)[k - 1]
                   w == FoldOf(read)[i - 1]
                   base == History(ms)[p][n]
        <5>1. t \in States /\ w \in Writes /\ m \in Message /\ base \in Doc
          BY <2>2, <2>3, <2>4
        <5>2. m.height # 0 /\ m.id # 0 /\ Accepts(t, m)
          BY <2>2
        <5>3. /\ w[m.nft].height = 0 => w[m.nft] = NoWrite /\ t[m.nft] = base
              /\ w[m.nft].height # 0 => t[m.nft] = Written(base, w[m.nft])
          BY <2>5, <2>8, <4>1
        <5>4. History(ms)[k] = Applied(t, m) /\ FoldOf(read)[i] = Folded(w, m)
          BY <2>2, <2>3
        <5>5. w[m.nft] = x /\ t[m.nft] = old /\ base = H(p)
              /\ History(ms)[k][m.nft] = H(k) /\ FoldOf(read)[i][m.nft] = y
          BY <2>8
        <5> HIDE DEF t, w, base, x, y, old, H, F, m, k
        <5>6. QED
          BY <5>1, <5>2, <5>3, <5>4, <5>5, OneFold
    <3>2. k \in (p + 1)..k /\ ms[k].height = y.height
      BY <1>1, <3>1
    <3>3. ASSUME NEW j \in p..k, H(j) = NoDoc
          PROVE  SetsAll(y)
      <4>1. CASE j = k
        BY <3>1, <3>3, <4>1
      <4>2. CASE j \in p..(k - 1)
        <5>1. x.height = 0 => old = H(j)
          BY <2>1, <2>5, <4>2
        <5>2. QED
          BY <2>5, <3>1, <3>3, <4>2, <5>1
      <4>3. QED
        BY <2>6, <4>1, <4>2
    <3>4. y.height # 0
      BY <2>2, <3>1
    <3>5. Says(i)
      BY <3>1, <3>2, <3>3, <3>4
    <3>6. QED
      BY <2>1, <3>5
  <2>9. QED
    BY <2>7, <2>8
<1>5. Says(N)
  <2> HIDE DEF N, S
  <2>1. \A i \in 0..N : i \in S
    BY <1>1, <1>3, <1>4, Climb DEF N
  <2>2. N \in 0..N
    BY <1>1 DEF N
  <2>3. QED
    BY <2>1, <2>2 DEF S
<1>6. p + N = q /\ F(N) = WritesOf(read)[n]
  BY <1>1, <1>2, WritesOfIs
<1>7. QED
  BY <1>5, <1>6 DEF read

-----------------------------------------------------------------------------
(* Documents and the chain. *)

PatchyOf(ms, d, n, k) ==
    LET true == LedgerOf(ms, k)[n] IN
    /\ d.height = true.height /\ d.height # 0
    /\ d.owner \in {0, true.owner} /\ d.data \in {0, true.data}
    /\ \E j \in k..TopOf(ms) : LedgerOf(ms, j)[n] = NoDoc

AgreesOf(ms, d, n, k) == d = LedgerOf(ms, k)[n] \/ PatchyOf(ms, d, n, k)

(* A document agrees with the chain as long as the chain grows. *)
LEMMA AgreesGrown ==
    ASSUME NEW ms, NEW ns, Grows(ms, ns), NEW n \in Nfts, NEW d,
           NEW k \in 0..TopOf(ms), AgreesOf(ms, d, n, k)
    PROVE  AgreesOf(ns, d, n, k)
<1>1. /\ TopOf(ms) <= TopOf(ns) /\ TopOf(ms) \in Nat /\ TopOf(ns) \in Nat
      /\ \A j \in 0..TopOf(ms) : LedgerOf(ns, j) = LedgerOf(ms, j)
  BY GrownIs, TopIs DEF Grows
<1>2. CASE d = LedgerOf(ms, k)[n]
  BY <1>1, <1>2 DEF AgreesOf
<1>3. CASE PatchyOf(ms, d, n, k)
  <2>1. PICK j \in k..TopOf(ms) : LedgerOf(ms, j)[n] = NoDoc
    BY <1>3 DEF PatchyOf
  <2>2. j \in 0..TopOf(ms) /\ j \in k..TopOf(ns)
    BY <1>1, <2>1
  <2>3. \E i \in k..TopOf(ns) : LedgerOf(ns, i)[n] = NoDoc
    BY <1>1, <2>1, <2>2
  <2>4. PatchyOf(ns, d, n, k)
    BY <1>1, <1>3, <2>3 DEF PatchyOf
  <2>5. QED
    BY <2>4 DEF AgreesOf
<1>4. QED
  BY <1>2, <1>3 DEF AgreesOf

(* A document that agrees at some height agrees at its own. *)
LEMMA AgreesAtItsHeight ==
    ASSUME NEW ms \in Chains, NEW n \in Nfts, NEW d \in Doc,
           NEW k \in 0..TopOf(ms), AgreesOf(ms, d, n, k), d # NoDoc
    PROVE  d.height <= k /\ AgreesOf(ms, d, n, d.height)
<1> DEFINE true == LedgerOf(ms, k)[n]
<1>1. k \in Nat /\ TopOf(ms) \in Nat /\ k <= TopOf(ms) /\ d.height \in Nat
  BY TopIs DEF Doc
<1>2. /\ true \in Doc
      /\ true # NoDoc =>
            /\ true.height # 0 /\ true.height <= k
            /\ \A h \in true.height..k : LedgerOf(ms, h)[n] = true
  BY <1>1, LedgerIs
<1>3. CASE d = true
  <2>1. d.height <= k /\ d.height \in true.height..k
    BY <1>1, <1>2, <1>3
  <2>2. QED
    BY <1>2, <1>3, <2>1 DEF AgreesOf
<1>4. CASE PatchyOf(ms, d, n, k)
  <2>1. true # NoDoc /\ d.height = true.height
    BY <1>4 DEF PatchyOf, NoDoc
  <2>2. d.height <= k /\ d.height \in true.height..k
    BY <1>1, <1>2, <2>1
  <2>3. LedgerOf(ms, d.height)[n] = true
    BY <1>2, <2>1, <2>2
  <2>4. PICK j \in k..TopOf(ms) : LedgerOf(ms, j)[n] = NoDoc
    BY <1>4 DEF PatchyOf
  <2>5. j \in d.height..TopOf(ms)
    BY <1>1, <2>2, <2>4
  <2>6. PatchyOf(ms, d, n, d.height)
    BY <1>4, <2>3, <2>4, <2>5 DEF PatchyOf
  <2>7. QED
    BY <2>2, <2>6 DEF AgreesOf
<1>5. QED
  BY <1>3, <1>4 DEF AgreesOf

(* The write a batch makes brings the document of its NFT from what the    *)
(* chain said at some height, not before the cursor a the batch was read   *)
(* from, to what it said at the batch's end b.                             *)
LEMMA BatchBrings ==
    ASSUME NEW ms \in Chains, NEW a \in Nat, NEW b \in a..TopOf(ms), NEW n \in Nfts,
           NEW d \in Doc, d.height <= a,
           NEW k \in a..TopOf(ms), AgreesOf(ms, d, n, k)
    PROVE  LET x == WritesOf(SubSeq(ms, UntilOf(ms, a) + 1, UntilOf(ms, b)))[n] IN
           /\ x.height = 0 => \E l \in b..TopOf(ms) : AgreesOf(ms, d, n, l)
           /\ x.height # 0 => AgreesOf(ms, Written(d, x), n, b)
<1> DEFINE p == UntilOf(ms, a)
           q == UntilOf(ms, b)
           x == WritesOf(SubSeq(ms, p + 1, q))[n]
           y == Written(d, x)
           L(j) == LedgerOf(ms, j)[n]
<1>1. /\ b \in Nat /\ k \in Nat /\ TopOf(ms) \in Nat
      /\ a <= b /\ a <= k /\ b <= TopOf(ms) /\ k <= TopOf(ms)
      /\ d.height \in Nat
  BY TopIs DEF Doc
<1>2. /\ p \in 0..Len(ms) /\ q \in p..Len(ms) /\ Len(ms) \in Nat
      /\ \A j \in a..b : UntilOf(ms, j) \in p..q
  <2>1. p \in 0..Len(ms) /\ q \in 0..Len(ms) /\ p <= q /\ Len(ms) \in Nat
    BY <1>1, UntilIs, UntilMonotone, ChainTypes
  <2>2. ASSUME NEW j \in a..b
        PROVE  UntilOf(ms, j) \in p..q
    <3>1. j \in Nat /\ a <= j /\ j <= b
      BY <1>1
    <3>2. UntilOf(ms, j) \in 0..Len(ms) /\ p <= UntilOf(ms, j) /\ UntilOf(ms, j) <= q
      BY <1>1, <3>1, UntilIs, UntilMonotone
    <3>3. QED
      BY <2>1, <3>2
  <2>3. QED
    BY <2>1, <2>2
<1>3. /\ x.height = 0 => \A j \in a..b : L(j) = L(a)
      /\ x.height # 0 => /\ L(b) = Written(L(a), x)
                         /\ (\E j \in a..b : L(j) = NoDoc) => SetsAll(x)
  <2> DEFINE H(j) == History(ms)[j][n]
  <2>1. /\ x.height = 0 => \A j \in p..q : H(j) = H(p)
        /\ x.height # 0 => /\ H(q) = Written(H(p), x)
                           /\ (\E j \in p..q : H(j) = NoDoc) => SetsAll(x)
    BY <1>2, FoldSays
  <2>2. L(a) = H(p) /\ L(b) = H(q) /\ \A j \in a..b : L(j) = H(UntilOf(ms, j))
    BY DEF LedgerOf
  <2> HIDE DEF p, q, x, H, L
  <2>3. QED
    BY <1>2, <2>1, <2>2
<1>4. /\ L(k) \in Doc /\ L(a) \in Doc
      /\ L(k) # NoDoc => /\ L(k).height # 0
                         /\ \A h \in L(k).height..k : L(h) = L(k)
  BY <1>1, LedgerIs
<1>5. \/ d = L(k)
      \/ /\ d.height = L(k).height /\ d.height # 0
         /\ d.owner \in {0, L(k).owner} /\ d.data \in {0, L(k).data}
         /\ \E j \in k..TopOf(ms) : L(j) = NoDoc
  BY DEF AgreesOf, PatchyOf
<1>6. \A e, l : AgreesOf(ms, e, n, l) <=>
         \/ e = L(l)
         \/ /\ e.height = L(l).height /\ e.height # 0
            /\ e.owner \in {0, L(l).owner} /\ e.data \in {0, L(l).data}
            /\ \E j \in l..TopOf(ms) : L(j) = NoDoc
  BY DEF AgreesOf, PatchyOf
<1> HIDE DEF x, y, L, p, q
(* The document, if there is one, is what the chain said at the cursor. *)
<1>7. d.height # 0 => /\ L(k) = L(a) /\ L(k) # NoDoc /\ d.height = L(k).height
                      /\ d.owner \in {0, L(a).owner} /\ d.data \in {0, L(a).data}
                      /\ d = L(a) \/ \E j \in k..TopOf(ms) : L(j) = NoDoc
  <2>1. SUFFICES ASSUME d.height # 0
                 PROVE  /\ L(k) = L(a) /\ L(k) # NoDoc /\ d.height = L(k).height
                        /\ d.owner \in {0, L(a).owner} /\ d.data \in {0, L(a).data}
                        /\ d = L(a) \/ \E j \in k..TopOf(ms) : L(j) = NoDoc
    OBVIOUS
  <2>2. L(k) # NoDoc /\ d.height = L(k).height
    BY <1>5, <2>1 DEF NoDoc
  <2>3. a \in L(k).height..k
    BY <1>1, <2>2
  <2>4. L(k) = L(a)
    BY <1>4, <2>2, <2>3
  <2>5. QED
    BY <1>5, <2>2, <2>4
<1>8. d.height = 0 => d = NoDoc /\ L(k) = NoDoc
  BY <1>4, <1>5 DEF NoDoc
<1>9. ASSUME x.height = 0
      PROVE  \E l \in b..TopOf(ms) : AgreesOf(ms, d, n, l)
  <2>1. CASE k >= b
    <3>1. k \in b..TopOf(ms)
      BY <1>1, <2>1
    <3>2. QED
      BY <3>1
  <2>2. CASE k < b
    <3>1. b \in b..TopOf(ms) /\ k \in a..b /\ b \in a..b
      BY <1>1, <2>2
    <3>2. L(b) = L(k)
      BY <1>3, <1>9, <3>1
    <3>3. CASE d = L(k)
      BY <1>6, <3>1, <3>2, <3>3
    <3>4. CASE d # L(k)
      <4>1. /\ d.height = L(k).height /\ d.height # 0
            /\ d.owner \in {0, L(k).owner} /\ d.data \in {0, L(k).data}
        BY <1>5, <3>4
      <4>2. PICK j \in k..TopOf(ms) : L(j) = NoDoc
        BY <1>5, <3>4
      <4>3. j \notin a..b
        <5>1. SUFFICES ASSUME j \in a..b
                       PROVE  FALSE
          OBVIOUS
        <5>2. L(j) = L(k)
          BY <1>3, <1>9, <3>1, <5>1
        <5>3. QED
          BY <4>1, <4>2, <5>2 DEF NoDoc
      <4>4. j \in b..TopOf(ms)
        BY <1>1, <2>2, <4>2, <4>3
      <4>5. QED
        BY <1>6, <3>1, <3>2, <4>1, <4>2, <4>4
    <3>5. QED
      BY <3>3, <3>4
  <2>3. QED
    BY <1>1, <2>1, <2>2
<1>10. ASSUME x.height # 0
       PROVE  AgreesOf(ms, y, n, b)
  <2>1. CASE x.deleted
    BY <1>3, <1>6, <1>10, <2>1 DEF y, Written
  <2>2. CASE ~x.deleted
    <3>1. /\ y.height = x.height
          /\ y.owner = IF x.owner = 0 THEN d.owner ELSE x.owner
          /\ y.data = IF x.data = 0 THEN d.data ELSE x.data
          /\ y = [owner |-> y.owner, data |-> y.data, height |-> x.height]
      BY <2>2 DEF y, Written
    <3>2. L(b) = [owner  |-> IF x.owner = 0 THEN L(a).owner ELSE x.owner,
                  data   |-> IF x.data = 0 THEN L(a).data ELSE x.data,
                  height |-> x.height]
      BY <1>3, <1>10, <2>2 DEF Written
    <3>3. SetsAll(x) => y = L(b)
      BY <2>2, <3>1, <3>2 DEF SetsAll
    <3>4. d = L(a) => y = L(b)
      BY <3>1, <3>2
    <3>5. /\ y.owner \in {0, L(b).owner} /\ y.data \in {0, L(b).data}
          /\ y.height = L(b).height /\ y.height # 0
      <4>1. d.owner \in {0, L(a).owner} /\ d.data \in {0, L(a).data}
        BY <1>7, <1>8 DEF NoDoc
      <4>2. QED
        BY <1>10, <3>1, <3>2, <4>1
    <3>6. d = L(a) \/ \E j \in k..TopOf(ms) : L(j) = NoDoc
      <4>1. k \in k..TopOf(ms)
        BY <1>1
      <4>2. QED
        BY <1>7, <1>8, <4>1
    <3>7. ASSUME NEW j \in k..TopOf(ms), L(j) = NoDoc
          PROVE  AgreesOf(ms, y, n, b)
      <4>1. CASE j <= b
        <5>1. j \in a..b
          BY <1>1, <4>1
        <5>2. SetsAll(x)
          BY <1>3, <1>10, <3>7, <5>1
        <5>3. QED
          BY <1>6, <3>3, <5>2
      <4>2. CASE j > b
        <5>1. j \in b..TopOf(ms)
          BY <1>1, <4>2
        <5>2. QED
          BY <1>6, <3>5, <3>7, <5>1
      <4>3. QED
        BY <1>1, <4>1, <4>2
    <3>8. QED
      BY <1>6, <3>4, <3>6, <3>7
  <2>3. QED
    BY <2>1, <2>2
<1>11. QED
  BY <1>9, <1>10 DEF x, y, p, q

-----------------------------------------------------------------------------
(* The inductive invariant. *)

(* Nothing waits to be written but after the reading, and what a run has   *)
(* read goes without a gap from the cursor to where its next window begins.*)
RunIsSane ==
    /\ stage # "writing" => Pending = {}
    /\ stage \in {"idle", "max"} => list = <<>>
    /\ stage = "max" => from = Cursor
    /\ stage = "reading" =>
          /\ Cursor <= from /\ from <= TopHeight /\ max <= TopHeight
          /\ list = Between(Cursor, from)

(* The batch, if any, goes up to height b: no document and no write is     *)
(* above it, a write that has not landed yet brings its document to what   *)
(* the chain said at b, and any other document is there already.           *)
TrueUpTo(b) ==
    /\ \A n \in Nfts : table[n].height <= b /\ pending[n].height <= b
    /\ \A n \in Nfts \ lost :
          /\ n \in Pending => Agrees(Written(table[n], pending[n]), n, b)
          /\ n \notin Pending => \E k \in b..TopHeight : Agrees(table[n], n, k)

WritesAreTrue == \E b \in 0..TopHeight : TrueUpTo(b)

NftInv ==
    /\ TypeOK
    /\ msgs \in Chains
    /\ RunIsSane
    /\ WritesAreTrue
    /\ DocIsTrue

LEMMA CursorIs ==
    ASSUME table \in [Nfts -> Doc], NEW b \in Nat, \A n \in Nfts : table[n].height <= b
    PROVE  /\ Cursor \in 0..b
           /\ \A n \in Nfts : table[n].height <= Cursor
<1> DEFINE S == {0} \cup {table[n].height : n \in Nfts}
<1>1. \A n \in Nfts : table[n].height \in 0..b
  BY DEF Doc
<1>2. S \in SUBSET (0..b) /\ S # {}
  BY <1>1
<1>3. Max(S) \in S /\ \A y \in S : y <= Max(S)
  BY <1>2, MaxIsGreatest
<1>4. Cursor = Max(S)
  BY DEF Cursor, Heights
<1>5. \A n \in Nfts : table[n].height \in S
  OBVIOUS
<1> HIDE DEF S
<1>6. QED
  BY <1>2, <1>3, <1>4, <1>5

(* The definitions of the module, in terms of the chain's history. *)
LEMMA InHistory ==
    /\ After = History(msgs)
    /\ TopHeight = TopOf(msgs)
    /\ \A k : Until(k) = UntilOf(msgs, k) /\ Ledger(k) = LedgerOf(msgs, k)
    /\ \A d, n, k : Agrees(d, n, k) <=> AgreesOf(msgs, d, n, k)
<1>1. After = History(msgs)
  BY DEF After, History, Nothing
<1>2. TopHeight = TopOf(msgs)
  BY DEF TopHeight, TopOf
<1>3. \A k : Until(k) = UntilOf(msgs, k)
  BY DEF Until, UntilOf
<1>4. \A k : Ledger(k) = LedgerOf(msgs, k)
  BY <1>1, <1>3 DEF Ledger, LedgerOf
<1>5. \A d, n, k : Agrees(d, n, k) <=> AgreesOf(msgs, d, n, k)
  BY <1>2, <1>4 DEF Agrees, AgreesOf, Patchy, PatchyOf
<1>6. QED
  BY <1>1, <1>2, <1>3, <1>4, <1>5

LEMMA InHistoryNext ==
    /\ TopHeight' = TopOf(msgs')
    /\ \A d, n, k : Agrees(d, n, k)' <=> AgreesOf(msgs', d, n, k)
<1>1. After' = History(msgs')
  BY DEF After, History, Nothing
<1>2. TopHeight' = TopOf(msgs')
  BY DEF TopHeight, TopOf
<1>3. \A k : Until(k)' = UntilOf(msgs', k)
  BY DEF Until, UntilOf
<1>4. \A k : Ledger(k)' = LedgerOf(msgs', k)
  BY <1>1, <1>3 DEF Ledger, LedgerOf
<1>5. \A d, n, k : Agrees(d, n, k)' <=> AgreesOf(msgs', d, n, k)
  BY <1>2, <1>4 DEF Agrees, AgreesOf, Patchy, PatchyOf
<1>6. QED
  BY <1>2, <1>5

(* What is settled is as true as the cursor promises. *)
LEMMA InvImpliesNothingSkipped == NftInv => NothingSkipped
<1> SUFFICES ASSUME NftInv, NEW n \in Nfts, Settled(n)
             PROVE  \E k \in Cursor..TopHeight : Agrees(table[n], n, k)
  BY DEF NothingSkipped
<1>1. PICK b \in 0..TopHeight : TrueUpTo(b)
  BY DEF NftInv, WritesAreTrue
<1>2. TopHeight \in Nat
  BY InHistory, TopIs DEF NftInv
<1>3. Cursor \in 0..b
  BY <1>1, <1>2, CursorIs DEF TrueUpTo, NftInv, TypeOK
<1>4. PICK k \in b..TopHeight : Agrees(table[n], n, k)
  BY <1>1 DEF TrueUpTo, Settled
<1>5. k \in Cursor..TopHeight
  BY <1>2, <1>3, <1>4
<1>6. QED
  BY <1>4, <1>5

-----------------------------------------------------------------------------
(* The steps keep it. *)

LEMMA EmptyChain == <<>> \in Chains /\ TopOf(<<>>) = 0
BY EmptySeq DEF Chains, TopOf

LEMMA InitInv == Init => NftInv
<1> SUFFICES ASSUME Init
             PROVE  NftInv
  OBVIOUS
<1>1. TypeOK
  <2>1. <<>> \in Seq(Message) /\ NoDoc \in Doc /\ NoWrite \in Write
    BY EmptySeq DEF NoDoc, Doc, NoWrite, Write
  <2>2. 0 \in 0..MaxFaults
    BY NftSettings
  <2>3. QED
    BY <2>1, <2>2 DEF Init, TypeOK
<1>2. msgs \in Chains /\ TopHeight = 0
  BY EmptyChain, InHistory DEF Init
<1>3. Pending = {} /\ \A n \in Nfts : table[n] = NoDoc /\ pending[n].height = 0
  BY DEF Init, Pending, NoWrite
<1>4. RunIsSane
  BY <1>3 DEF Init, RunIsSane
<1>5. ASSUME NEW n \in Nfts
      PROVE  Agrees(table[n], n, 0)
  <2>1. UntilOf(msgs, 0) = 0 /\ Len(msgs) = 0
    BY <1>2, UntilIs, ChainTypes, EmptySeq DEF Init
  <2>2. LedgerOf(msgs, 0)[n] = NoDoc
    BY <1>2, <2>1, ChainTypes DEF LedgerOf, Nothing
  <2>3. QED
    BY <1>3, <2>2, InHistory DEF AgreesOf
<1>6. TrueUpTo(0) /\ 0 \in 0..TopHeight
  <2>1. 0 \in 0..TopHeight
    BY <1>2
  <2>2. \A n \in Nfts : table[n].height <= 0 /\ pending[n].height <= 0
    BY <1>3 DEF NoDoc
  <2>3. QED
    BY <1>3, <1>5, <2>1, <2>2 DEF TrueUpTo
<1>7. DocIsTrue
  BY <1>3 DEF DocIsTrue
<1>8. QED
  BY <1>1, <1>2, <1>4, <1>6, <1>7 DEF NftInv, WritesAreTrue

LEMMA SameChain ==
    ASSUME msgs' = msgs
    PROVE  /\ TopHeight' = TopHeight
           /\ \A d, n, k : Agrees(d, n, k)' <=> Agrees(d, n, k)
BY InHistory, InHistoryNext

(* Most steps of a run leave the collection and the writes alone. *)
LEMMA SameTruth ==
    ASSUME NftInv, msgs' = msgs, table' = table, pending' = pending, lost' = lost
    PROVE  WritesAreTrue' /\ DocIsTrue' /\ Cursor' = Cursor /\ Pending' = Pending
<1>1. /\ TopHeight' = TopHeight
      /\ \A d, n, k : Agrees(d, n, k)' <=> Agrees(d, n, k)
  BY SameChain
<1>2. Cursor' = Cursor /\ Pending' = Pending
  BY DEF Cursor, Heights, Pending
<1>3. PICK b \in 0..TopHeight : TrueUpTo(b)
  BY DEF NftInv, WritesAreTrue
<1>4. TrueUpTo(b)'
  BY <1>1, <1>2, <1>3 DEF TrueUpTo
<1>5. DocIsTrue'
  BY <1>1 DEF NftInv, DocIsTrue
<1>6. QED
  BY <1>1, <1>2, <1>3, <1>4, <1>5 DEF WritesAreTrue

(* A run that ends, well or not: what had not landed counts as lost. *)
LEMMA EndKeepsInv ==
    ASSUME NftInv, Reset, msgs' = msgs, table' = table,
           lost \cup Pending \subseteq lost', lost' \subseteq Nfts, faults' \in 0..MaxFaults
    PROVE  NftInv'
<1>1. /\ TopHeight' = TopHeight
      /\ \A d, n, k : Agrees(d, n, k)' <=> Agrees(d, n, k)
  BY SameChain
<1>2. TypeOK'
  BY EmptySeq DEF NftInv, TypeOK, Reset, Write, NoWrite
<1>3. Pending' = {} /\ \A n \in Nfts : pending'[n].height = 0
  BY DEF Reset, Pending, NoWrite
<1>4. RunIsSane'
  BY <1>3 DEF Reset, RunIsSane
<1>5. PICK b \in 0..TopHeight : TrueUpTo(b)
  BY DEF NftInv, WritesAreTrue
<1>6. TrueUpTo(b)'
  <2>1. \A n \in Nfts : table'[n].height <= b /\ pending'[n].height <= b
    <3>1. TopHeight \in Nat
      BY InHistory, TopIs DEF NftInv
    <3>2. QED
      BY <1>3, <1>5, <3>1 DEF TrueUpTo
  <2>2. \A n \in Nfts \ lost' : \E k \in b..TopHeight : Agrees(table[n], n, k)
    BY <1>5 DEF TrueUpTo
  <2>3. QED
    BY <1>1, <1>3, <2>1, <2>2 DEF TrueUpTo
<1>7. DocIsTrue'
  BY <1>1 DEF NftInv, DocIsTrue
<1>8. QED
  BY <1>1, <1>2, <1>4, <1>5, <1>6, <1>7 DEF NftInv, WritesAreTrue

LEMMA StartKeepsInv == NftInv /\ Start => NftInv'
<1> SUFFICES ASSUME NftInv, Start
             PROVE  NftInv'
  OBVIOUS
<1>1. WritesAreTrue' /\ DocIsTrue' /\ Cursor' = Cursor /\ Pending' = Pending
  BY SameTruth DEF Start
<1>2. Cursor \in Nat
  <2>1. PICK b \in 0..TopHeight : TrueUpTo(b)
    BY DEF NftInv, WritesAreTrue
  <2>2. b \in Nat
    BY <2>1, InHistory, TopIs DEF NftInv
  <2>3. Cursor \in 0..b
    BY <2>1, <2>2, CursorIs DEF TrueUpTo, NftInv, TypeOK
  <2>4. QED
    BY <2>2, <2>3
<1>3. from' = Cursor
  BY DEF Start, Cursor
<1>4. TypeOK'
  BY <1>2, <1>3 DEF Start, NftInv, TypeOK
<1>5. RunIsSane'
  BY <1>1, <1>3 DEF Start, NftInv, RunIsSane
<1>6. QED
  BY <1>1, <1>4, <1>5 DEF Start, NftInv

LEMMA FindMaxKeepsInv == NftInv /\ FindMax => NftInv'
<1> SUFFICES ASSUME NftInv, FindMax
             PROVE  NftInv'
  OBVIOUS
<1>1. TopHeight \in Nat /\ from \in Nat
  BY InHistory, TopIs DEF NftInv, TypeOK
<1>2. CASE stage' = "reading"
  <2>1. /\ stage = "max" /\ from < TopHeight /\ max' = TopHeight
        /\ UNCHANGED <<from, list, pending, failed, msgs, table, lost, faults>>
    BY <1>2 DEF FindMax, Reset
  <2>2. WritesAreTrue' /\ DocIsTrue' /\ Cursor' = Cursor /\ Pending' = Pending
    BY <2>1, SameTruth
  <2>3. TypeOK'
    BY <1>1, <1>2, <2>1 DEF NftInv, TypeOK
  <2>4. Between(Cursor, from)' = list'
    <3>1. from = Cursor /\ list = <<>> /\ msgs \in Chains
      BY <2>1 DEF NftInv, RunIsSane
    <3>2. Between(Cursor, from)' = SubSeq(msgs', Until(Cursor)' + 1, Until(from)')
      BY DEF Between
    <3>3. Until(Cursor)' = UntilOf(msgs, from) /\ Until(from)' = UntilOf(msgs, from)
      BY <2>1, <2>2, <3>1 DEF Until, UntilOf
    <3>4. UntilOf(msgs, from) \in Nat /\ msgs \in Seq(Message)
      BY <1>1, <3>1, UntilIs, ChainTypes
    <3>5. SubSeq(msgs, UntilOf(msgs, from) + 1, UntilOf(msgs, from)) = <<>>
      BY <3>4
    <3>6. QED
      BY <2>1, <3>1, <3>2, <3>3, <3>5
  <2>5. RunIsSane'
    <3>1. from = Cursor /\ TopHeight' = TopHeight /\ Pending = {}
      BY <2>1, SameChain DEF NftInv, RunIsSane
    <3>2. QED
      BY <1>1, <1>2, <2>1, <2>2, <2>4, <3>1 DEF RunIsSane
  <2>6. QED
    BY <2>1, <2>2, <2>3, <2>5 DEF NftInv
<1>3. CASE stage' # "reading"
  <2>1. stage = "max" /\ Reset /\ UNCHANGED <<msgs, table, lost, faults>>
    BY <1>3 DEF FindMax
  <2>2. lost \cup Pending \subseteq lost' /\ lost' \subseteq Nfts /\ faults' \in 0..MaxFaults
    BY <2>1 DEF NftInv, RunIsSane, TypeOK
  <2>3. QED
    BY <2>1, <2>2, EndKeepsInv
<1>4. QED
  BY <1>2, <1>3

(* A stretch of the chain, by its places. *)
LEMMA StretchIs ==
    ASSUME NEW ms \in Seq(Message), NEW p \in Nat, NEW q \in Nat, p <= q, q <= Len(ms)
    PROVE  /\ SubSeq(ms, p + 1, q) \in Seq(Message)
           /\ Len(SubSeq(ms, p + 1, q)) = q - p
           /\ \A i \in 1..(q - p) : SubSeq(ms, p + 1, q)[i] = ms[p + i]
<1>1. Len(ms) \in Nat
  OBVIOUS
<1>2. \A j \in (p + 1)..q : j \in 1..Len(ms)
  BY <1>1
<1>3. /\ SubSeq(ms, p + 1, q) \in Seq(Message)
      /\ Len(SubSeq(ms, p + 1, q)) = IF p + 1 <= q THEN q - (p + 1) + 1 ELSE 0
      /\ \A i \in 1..(q - (p + 1) + 1) : SubSeq(ms, p + 1, q)[i] = ms[(p + 1) + i - 1]
  <2>1. p + 1 \in Int /\ q \in Int /\ \A j \in (p + 1)..q : ms[j] \in Message
    BY <1>2
  <2>2. QED
    BY <1>1, <1>2, <2>1, SubSeqProperties
<1>4. q - (p + 1) + 1 = q - p
  OBVIOUS
<1>5. ASSUME NEW i \in 1..(q - p)
      PROVE  (p + 1) + i - 1 = p + i
  OBVIOUS
<1>6. (IF p + 1 <= q THEN q - (p + 1) + 1 ELSE 0) = q - p
  OBVIOUS
<1>7. QED
  BY <1>3, <1>4, <1>5, <1>6

LEMMA Joined ==
    ASSUME NEW ms \in Seq(Message), NEW p \in 0..Len(ms), NEW q \in p..Len(ms),
           NEW r \in q..Len(ms)
    PROVE  SubSeq(ms, p + 1, q) \o SubSeq(ms, q + 1, r) = SubSeq(ms, p + 1, r)
<1> DEFINE s == SubSeq(ms, p + 1, q)
           t == SubSeq(ms, q + 1, r)
           u == SubSeq(ms, p + 1, r)
<1>1. Len(ms) \in Nat /\ p \in Nat /\ q \in Nat /\ r \in Nat /\ p <= q /\ q <= r
  OBVIOUS
<1>2. /\ s \in Seq(Message) /\ Len(s) = q - p /\ \A i \in 1..(q - p) : s[i] = ms[p + i]
      /\ t \in Seq(Message) /\ Len(t) = r - q /\ \A i \in 1..(r - q) : t[i] = ms[q + i]
      /\ u \in Seq(Message) /\ Len(u) = r - p /\ \A i \in 1..(r - p) : u[i] = ms[p + i]
  <2>1. s \in Seq(Message) /\ Len(s) = q - p /\ \A i \in 1..(q - p) : s[i] = ms[p + i]
    BY <1>1, StretchIs
  <2>2. t \in Seq(Message) /\ Len(t) = r - q /\ \A i \in 1..(r - q) : t[i] = ms[q + i]
    BY <1>1, StretchIs
  <2>3. u \in Seq(Message) /\ Len(u) = r - p /\ \A i \in 1..(r - p) : u[i] = ms[p + i]
    <3>1. p <= r /\ r <= Len(ms)
      BY <1>1
    <3>2. QED
      BY <1>1, <3>1, StretchIs
  <2>4. QED
    BY <2>1, <2>2, <2>3
<1> HIDE DEF s, t, u
<1>3. /\ s \o t \in Seq(Message) /\ Len(s \o t) = r - p
      /\ \A i \in 1..(r - p) : (s \o t)[i] = IF i <= q - p THEN s[i] ELSE t[i - (q - p)]
  <2>1. /\ s \o t \in Seq(Message) /\ Len(s \o t) = Len(s) + Len(t)
        /\ \A i \in 1..(Len(s) + Len(t)) :
               (s \o t)[i] = IF i <= Len(s) THEN s[i] ELSE t[i - Len(s)]
    BY <1>2, ConcatProperties
  <2>2. Len(s) = q - p /\ Len(s) + Len(t) = r - p
    BY <1>1, <1>2
  <2>3. QED
    BY <2>1, <2>2
<1>4. ASSUME NEW i \in 1..(r - p)
      PROVE  (s \o t)[i] = u[i]
  <2>1. CASE i <= q - p
    <3>1. i \in 1..(q - p)
      BY <1>1, <2>1
    <3>2. (s \o t)[i] = s[i] /\ u[i] = ms[p + i]
      BY <1>2, <1>3, <2>1
    <3>3. s[i] = ms[p + i]
      BY <1>2, <3>1
    <3>4. QED
      BY <3>2, <3>3
  <2>2. CASE i > q - p
    <3>1. i - (q - p) \in 1..(r - q) /\ q + (i - (q - p)) = p + i
      BY <1>1, <2>2
    <3>2. (s \o t)[i] = t[i - (q - p)] /\ u[i] = ms[p + i]
      BY <1>1, <1>2, <1>3, <2>2
    <3>3. t[i - (q - p)] = ms[q + (i - (q - p))]
      BY <1>2, <3>1
    <3>4. QED
      BY <3>1, <3>2, <3>3
  <2>3. i <= q - p \/ i > q - p
    BY <1>1
  <2>4. QED
    BY <2>1, <2>2, <2>3
<1>5. QED
  BY <1>2, <1>3, <1>4, SeqEqual DEF s, t, u

(* The windows of a run join: it has read all from the cursor on. *)
LEMMA ReadIs ==
    ASSUME NftInv, stage = "reading"
    PROVE  LET next == from + IncreaseHeight IN
           /\ next \in Nat /\ Cursor \in Nat /\ from <= next
           /\ list \o Window(from) \in Seq(Message)
           /\ list \o Window(from) =
                SubSeq(msgs, UntilOf(msgs, Cursor) + 1, UntilOf(msgs, next))
<1> DEFINE next == from + IncreaseHeight
           p == UntilOf(msgs, Cursor)
           q == UntilOf(msgs, from)
           r == UntilOf(msgs, next)
<1>1. /\ msgs \in Chains /\ from \in Nat /\ IncreaseHeight \in Nat
      /\ Cursor <= from /\ list = Between(Cursor, from)
  BY NftSettings DEF NftInv, TypeOK, RunIsSane
<1>2. Cursor \in Nat
  <2>1. PICK b \in 0..TopHeight : TrueUpTo(b)
    BY DEF NftInv, WritesAreTrue
  <2>2. b \in Nat
    BY <2>1, InHistory, TopIs DEF NftInv
  <2>3. Cursor \in 0..b
    BY <2>1, <2>2, CursorIs DEF TrueUpTo, NftInv, TypeOK
  <2>4. QED
    BY <2>2, <2>3
<1>3. next \in Nat /\ from <= next
  BY <1>1
<1>4. /\ p \in 0..Len(msgs) /\ q \in 0..Len(msgs) /\ r \in 0..Len(msgs)
      /\ p <= q /\ q <= r /\ Len(msgs) \in Nat /\ msgs \in Seq(Message)
  BY <1>1, <1>2, <1>3, UntilIs, UntilMonotone, ChainTypes
<1>5. list = SubSeq(msgs, p + 1, q) /\ Window(from) = SubSeq(msgs, q + 1, r)
  BY <1>1, InHistory DEF Between, Window
<1>6. list \o Window(from) = SubSeq(msgs, p + 1, r)
  <2> HIDE DEF p, q, r
  <2>1. q \in p..Len(msgs) /\ r \in q..Len(msgs)
    BY <1>4
  <2>2. QED
    BY <1>4, <1>5, <2>1, Joined
<1>7. SubSeq(msgs, p + 1, r) \in Seq(Message)
  <2> HIDE DEF p, r
  <2>1. QED
    BY <1>4
<1>8. QED
  BY <1>2, <1>3, <1>6, <1>7

LEMMA ReadWindowKeepsInv == NftInv /\ ReadWindow => NftInv'
<1> SUFFICES ASSUME NftInv, ReadWindow
             PROVE  NftInv'
  OBVIOUS
<1> DEFINE read == list \o Window(from)
           next == from + IncreaseHeight
<1>1. /\ stage = "reading" /\ UNCHANGED <<msgs, table, lost, faults>>
      /\ \/ /\ More(next, read)
            /\ from' = next /\ list' = read
            /\ UNCHANGED <<stage, max, pending, failed>>
         \/ Reset
         \/ /\ pending' = WritesOf(read)
            /\ stage' = "writing"
            /\ from' = 0 /\ max' = 0 /\ list' = <<>>
            /\ UNCHANGED failed
  BY DEF ReadWindow
<1>2. /\ next \in Nat /\ Cursor \in Nat /\ from <= next
      /\ read \in Seq(Message)
      /\ read = SubSeq(msgs, UntilOf(msgs, Cursor) + 1, UntilOf(msgs, next))
  BY <1>1, ReadIs
<1>3. /\ msgs \in Chains /\ TopHeight \in Nat /\ TopHeight = TopOf(msgs)
      /\ from \in Nat /\ max \in Nat /\ max <= TopHeight /\ from <= TopHeight
      /\ Cursor <= from /\ Pending = {}
      /\ table \in [Nfts -> Doc] /\ pending \in [Nfts -> Write]
      /\ TopHeight' = TopHeight /\ \A d, n, k : Agrees(d, n, k)' <=> Agrees(d, n, k)
  BY <1>1, InHistory, TopIs, SameChain DEF NftInv, TypeOK, RunIsSane
<1>4. CASE More(next, read) /\ from' = next /\ list' = read /\ UNCHANGED <<stage, max, pending, failed>>
  <2>1. WritesAreTrue' /\ DocIsTrue' /\ Cursor' = Cursor /\ Pending' = Pending
    BY <1>1, <1>4, SameTruth
  <2>2. next <= TopHeight
    BY <1>2, <1>3, <1>4 DEF More
  <2>3. list' = Between(Cursor, from)'
    <3>1. Between(Cursor, from)' = SubSeq(msgs', UntilOf(msgs', Cursor') + 1, UntilOf(msgs', from'))
      BY DEF Between, Until, UntilOf
    <3>2. QED
      BY <1>1, <1>2, <1>4, <2>1, <3>1
  <2>4. TypeOK'
    BY <1>1, <1>2, <1>4 DEF NftInv, TypeOK
  <2>5. RunIsSane'
    <3>1. from' = next /\ stage' = "reading" /\ max' = max /\ TopHeight' = TopHeight
      BY <1>1, <1>3, <1>4
    <3>2. Cursor' <= from' /\ from' <= TopHeight' /\ max' <= TopHeight'
      BY <1>2, <1>3, <2>1, <2>2, <3>1
    <3>3. Pending' = {}
      BY <1>3, <2>1
    <3>4. QED
      BY <2>3, <3>1, <3>2, <3>3 DEF RunIsSane
  <2>6. QED
    BY <1>1, <2>1, <2>4, <2>5 DEF NftInv
<1>5. CASE Reset
  <2>1. lost \cup Pending \subseteq lost' /\ lost' \subseteq Nfts /\ faults' \in 0..MaxFaults
    BY <1>1, <1>3 DEF NftInv, TypeOK
  <2>2. QED
    BY <1>1, <1>5, <2>1, EndKeepsInv
<1>6. CASE /\ pending' = WritesOf(read) /\ stage' = "writing"
           /\ from' = 0 /\ max' = 0 /\ list' = <<>> /\ UNCHANGED failed
  <2>1. PICK b \in Cursor..TopHeight : b \in Nat /\ UntilOf(msgs, next) = UntilOf(msgs, b)
    <3>1. CASE next < TopHeight
      BY <1>2, <1>3, <3>1
    <3>2. CASE next >= TopHeight
      BY <1>2, <1>3, <3>2, TopIs
    <3>3. QED
      BY <1>2, <1>3, <3>1, <3>2
  <2>2. pending' = WritesOf(SubSeq(msgs, UntilOf(msgs, Cursor) + 1, UntilOf(msgs, b)))
    BY <1>2, <1>6, <2>1
  <2>3. pending' \in Writes
    BY <1>2, <1>6, WritesOfIs
  <2>4. \A n \in Nfts : /\ table[n] \in Doc /\ table[n].height \in Nat
                        /\ table[n].height <= Cursor
                        /\ pending'[n] \in Write /\ pending'[n].height \in Nat
    <3>1. PICK c \in 0..TopHeight : TrueUpTo(c)
      BY DEF NftInv, WritesAreTrue
    <3>2. \A n \in Nfts : table[n].height <= Cursor
      BY <1>3, <3>1, CursorIs DEF TrueUpTo
    <3>3. QED
      BY <1>3, <2>3, <3>2 DEF Doc, Writes, Write
  <2>5. ASSUME NEW n \in Nfts
        PROVE  pending'[n].height <= b
    <3> DEFINE p == UntilOf(msgs, Cursor)
               q == UntilOf(msgs, b)
    <3>1. /\ p \in 0..Len(msgs) /\ q \in 0..Len(msgs) /\ p <= q /\ Len(msgs) \in Nat
          /\ \A j \in 1..Len(msgs) : j <= q => msgs[j].height <= b
      <4>1. Len(msgs) \in Nat
        BY <1>3, ChainTypes
      <4>2. p \in 0..Len(msgs)
        BY <1>2, <1>3, UntilIs
      <4>3. q \in 0..Len(msgs) /\ \A j \in 1..Len(msgs) : j <= q => msgs[j].height <= b
        BY <1>3, <2>1, UntilIs
      <4>4. p <= q
        <5>1. Cursor <= b
          BY <1>2, <2>1
        <5>2. QED
          BY <1>2, <1>3, <2>1, <5>1, UntilMonotone
      <4>5. QED
        BY <4>1, <4>2, <4>3, <4>4
    <3>2. pending' = WritesOf(SubSeq(msgs, p + 1, q))
      BY <2>2
    <3> HIDE DEF p, q
    <3>3. pending'[n].height # 0 => \E j \in (p + 1)..q : msgs[j].height = pending'[n].height
      <4>1. q \in p..Len(msgs)
        BY <3>1
      <4>2. QED
        BY <1>3, <3>1, <3>2, <4>1, FoldSays
    <3>4. QED
      BY <2>1, <2>4, <3>1, <3>3
  <2>6. ASSUME NEW n \in Nfts \ lost
        PROVE  /\ pending'[n].height # 0 => Agrees(Written(table[n], pending'[n]), n, b)
               /\ pending'[n].height = 0 => \E l \in b..TopHeight : Agrees(table[n], n, l)
    <3>1. PICK k \in Cursor..TopHeight : Agrees(table[n], n, k)
      <4>1. Settled(n)
        BY <1>3 DEF Settled
      <4>2. QED
        BY <4>1, InvImpliesNothingSkipped DEF NothingSkipped
    <3>2. /\ pending'[n].height = 0 => \E l \in b..TopOf(msgs) : AgreesOf(msgs, table[n], n, l)
          /\ pending'[n].height # 0 => AgreesOf(msgs, Written(table[n], pending'[n]), n, b)
      <4>1. AgreesOf(msgs, table[n], n, k) /\ k \in Cursor..TopOf(msgs)
        BY <1>3, <3>1, InHistory
      <4>2. b \in Cursor..TopOf(msgs)
        BY <1>3, <2>1
      <4>3. QED
        BY <1>2, <1>3, <2>2, <2>4, <4>1, <4>2, BatchBrings
    <3>3. QED
      BY <1>3, <3>2, InHistory
  <2>7. TrueUpTo(b)'
    <3>1. \A n \in Nfts : table[n].height <= b /\ pending'[n].height <= b
      BY <1>2, <2>1, <2>4, <2>5
    <3>2. \A n \in Nfts : n \in Pending' <=> pending'[n].height # 0
      BY DEF Pending
    <3>3. QED
      BY <1>1, <1>3, <2>6, <3>1, <3>2 DEF TrueUpTo
  <2>8. WritesAreTrue'
    <3>1. b \in 0..TopHeight'
      BY <1>2, <1>3, <2>1
    <3>2. QED
      BY <2>7, <3>1 DEF WritesAreTrue
  <2>9. DocIsTrue'
    BY <1>1, <1>3 DEF NftInv, DocIsTrue
  <2>10. TypeOK'
    BY <1>1, <1>6, <2>3, EmptySeq DEF NftInv, TypeOK, Writes
  <2>11. RunIsSane'
    BY <1>6 DEF RunIsSane
  <2>12. QED
    BY <1>1, <1>3, <2>8, <2>9, <2>10, <2>11 DEF NftInv
<1>7. QED
  BY <1>1, <1>4, <1>5, <1>6

LEMMA WriteLandsKeepsInv == ASSUME NftInv, NEW n \in Nfts, WriteLands(n) PROVE NftInv'
<1> DEFINE d == Written(table[n], pending[n])
<1>1. /\ pending[n].height # 0 /\ n \in Pending
      /\ table' = [table EXCEPT ![n] = d]
      /\ pending' = [pending EXCEPT ![n] = NoWrite]
      /\ UNCHANGED <<msgs, stage, from, max, list, failed, lost, faults>>
  BY DEF WriteLands, Pending
<1>2. /\ table \in [Nfts -> Doc] /\ pending \in [Nfts -> Write]
      /\ msgs \in Chains /\ TopHeight \in Nat /\ TopHeight = TopOf(msgs)
      /\ TopHeight' = TopHeight /\ \A e, i, k : Agrees(e, i, k)' <=> Agrees(e, i, k)
  BY <1>1, InHistory, TopIs, SameChain DEF NftInv, TypeOK
<1>3. stage = "writing"
  BY <1>1 DEF NftInv, RunIsSane
<1>4. PICK b \in 0..TopHeight : TrueUpTo(b)
  BY DEF NftInv, WritesAreTrue
<1>5. /\ d \in Doc /\ d.height \in {0, pending[n].height}
      /\ table' \in [Nfts -> Doc] /\ pending' \in [Nfts -> Write]
  BY <1>1, <1>2 DEF Written, Doc, Write, NoDoc, NoWrite
<1> HIDE DEF d
<1>6. TrueUpTo(b)'
  <2>1. \A i \in Nfts : table'[i].height <= b /\ pending'[i].height <= b
    BY <1>1, <1>2, <1>4, <1>5 DEF TrueUpTo, NoWrite
  <2>2. ASSUME NEW i \in Nfts \ lost
        PROVE  /\ i \in Pending' => Agrees(Written(table'[i], pending'[i]), i, b)
               /\ i \notin Pending' => \E k \in b..TopHeight : Agrees(table'[i], i, k)
    <3>1. CASE i = n
      <4>1. i \notin Pending' /\ table'[i] = d
        BY <1>1, <1>2, <3>1 DEF Pending, NoWrite
      <4>2. Agrees(d, n, b)
        BY <1>1, <1>4, <3>1 DEF TrueUpTo, d
      <4>3. b \in b..TopHeight
        BY <1>2, <1>4
      <4>4. QED
        BY <3>1, <4>1, <4>2, <4>3
    <3>2. CASE i # n
      <4>1. /\ table'[i] = table[i] /\ pending'[i] = pending[i]
            /\ i \in Pending' <=> i \in Pending
        BY <1>1, <1>2, <3>2 DEF Pending
      <4>2. QED
        BY <1>4, <4>1 DEF TrueUpTo
    <3>3. QED
      BY <3>1, <3>2
  <2>3. QED
    BY <1>1, <1>2, <2>1, <2>2 DEF TrueUpTo
<1>7. WritesAreTrue'
  BY <1>2, <1>4, <1>6 DEF WritesAreTrue
<1>8. DocIsTrue'
  <2>1. SUFFICES ASSUME NEW i \in Nfts \ lost, table'[i] # NoDoc
                 PROVE  Agrees(table'[i], i, table'[i].height)
    BY <1>1, <1>2 DEF DocIsTrue
  <2>2. CASE i = n
    <3>1. table'[i] = d /\ Agrees(d, n, b)
      BY <1>1, <1>2, <1>4, <2>2 DEF TrueUpTo, d
    <3>2. AgreesOf(msgs, d, n, b) /\ b \in 0..TopOf(msgs)
      BY <1>2, <1>4, <3>1, InHistory
    <3>3. AgreesOf(msgs, d, n, d.height)
      BY <1>2, <1>5, <2>1, <2>2, <3>1, <3>2, AgreesAtItsHeight
    <3>4. QED
      BY <2>2, <3>1, <3>3, InHistory
  <2>3. CASE i # n
    <3>1. table'[i] = table[i]
      BY <1>1, <1>2, <2>3
    <3>2. QED
      BY <2>1, <3>1 DEF NftInv, DocIsTrue
  <2>4. QED
    BY <2>2, <2>3
<1>9. TypeOK'
  BY <1>1, <1>5 DEF NftInv, TypeOK
<1>10. RunIsSane'
  BY <1>1, <1>3 DEF RunIsSane
<1>11. QED
  BY <1>1, <1>7, <1>8, <1>9, <1>10 DEF NftInv

LEMMA WriteFailsKeepsInv == ASSUME NftInv, NEW n \in Nfts, WriteFails(n) PROVE NftInv'
<1>1. /\ n \in Pending /\ faults < MaxFaults /\ faults' = faults + 1
      /\ pending' = [pending EXCEPT ![n] = NoWrite]
      /\ failed' = TRUE /\ lost' = lost \cup {n}
      /\ UNCHANGED <<msgs, table, stage, from, max, list>>
  BY DEF WriteFails
<1>2. /\ pending \in [Nfts -> Write] /\ TopHeight \in Nat
      /\ TopHeight' = TopHeight /\ \A e, i, k : Agrees(e, i, k)' <=> Agrees(e, i, k)
  BY <1>1, InHistory, TopIs, SameChain DEF NftInv, TypeOK
<1>3. stage = "writing"
  BY <1>1 DEF NftInv, RunIsSane
<1>4. PICK b \in 0..TopHeight : TrueUpTo(b)
  BY DEF NftInv, WritesAreTrue
<1>5. TrueUpTo(b)'
  <2>1. \A i \in Nfts : table'[i].height <= b /\ pending'[i].height <= b
    BY <1>1, <1>2, <1>4 DEF TrueUpTo, NoWrite
  <2>2. ASSUME NEW i \in Nfts \ lost'
        PROVE  /\ i \in Nfts \ lost /\ table'[i] = table[i] /\ pending'[i] = pending[i]
               /\ i \in Pending' <=> i \in Pending
    BY <1>1, <1>2 DEF Pending
  <2>3. QED
    BY <1>2, <1>4, <2>1, <2>2 DEF TrueUpTo
<1>6. DocIsTrue'
  BY <1>1, <1>2 DEF NftInv, DocIsTrue
<1>7. TypeOK'
  <2>1. faults' \in 0..MaxFaults
    BY <1>1, NftSettings DEF NftInv, TypeOK
  <2>2. pending' \in [Nfts -> Write]
    BY <1>1, <1>2 DEF NoWrite, Write
  <2>3. QED
    BY <1>1, <2>1, <2>2 DEF NftInv, TypeOK
<1>8. RunIsSane'
  BY <1>1, <1>3 DEF RunIsSane
<1>9. QED
  BY <1>1, <1>2, <1>4, <1>5, <1>6, <1>7, <1>8 DEF NftInv, WritesAreTrue

(* A block lies above all there was, so the chain grows. *)
LEMMA BlockGrows ==
    ASSUME msgs \in Chains, NewBlock
    PROVE  Grows(msgs, msgs')
<1> DEFINE N == Len(msgs)
           Fits(m, h, i) == /\ m \in Message /\ m.height = h /\ m.id = N + i
<1>1. PICK h \in (TopHeight + 1)..MaxHeight :
         \E m, l :
            /\ Fits(m, h, 1) /\ Accepts(Ledger(TopHeight), m)
            /\ \/ msgs' = Append(msgs, m)
               \/ /\ Fits(l, h, 2) /\ Accepts(Applied(Ledger(TopHeight), m), l)
                  /\ msgs' = msgs \o <<m, l>>
  <2>1. TopHeight \in Nat /\ N \in Nat
    BY InHistory, TopIs, ChainTypes
  <2>2. \A h \in (TopHeight + 1)..MaxHeight, i \in {1, 2} : \A m \in New(h, i) : Fits(m, h, i)
    BY <2>1, NftSettings DEF New, Message
  <2>3. \E h \in (TopHeight + 1)..MaxHeight :
           \E m \in New(h, 1) :
              /\ Accepts(Ledger(TopHeight), m)
              /\ \/ msgs' = Append(msgs, m)
                 \/ \E l \in New(h, 2) :
                       /\ Accepts(Applied(Ledger(TopHeight), m), l)
                       /\ msgs' = msgs \o <<m, l>>
    BY DEF NewBlock
  <2> HIDE DEF Fits
  <2>4. QED
    BY <2>2, <2>3
<1>2. PICK m : /\ Fits(m, h, 1) /\ Accepts(Ledger(TopHeight), m)
               /\ \/ msgs' = Append(msgs, m)
                  \/ \E l : /\ Fits(l, h, 2) /\ Accepts(Applied(Ledger(TopHeight), m), l)
                            /\ msgs' = msgs \o <<m, l>>
  BY <1>1
<1>3. /\ N \in Nat /\ msgs \in Seq(Message) /\ TopOf(msgs) \in Nat
      /\ TopHeight = TopOf(msgs) /\ Ledger(TopHeight) = History(msgs)[N]
      /\ h \in Nat /\ TopOf(msgs) < h
  <2>1. TopHeight = TopOf(msgs) /\ TopOf(msgs) \in Nat
    BY InHistory, TopIs
  <2>2. Ledger(TopHeight) = History(msgs)[N]
    BY <2>1, InHistory, TopIs DEF LedgerOf
  <2>3. QED
    BY <1>1, <2>1, <2>2, ChainTypes
<1> DEFINE one == Append(msgs, m)
<1>4. /\ one \in Chains /\ TopOf(one) = h
      /\ History(one)[N + 1] = Applied(History(msgs)[N], m)
  BY <1>2, <1>3, OneMore
<1>5. Len(one) = N + 1 /\ one[N + 1] = m /\ \A i \in 1..N : one[i] = msgs[i]
  BY <1>2, <1>3
<1>6. CASE msgs' = one
  <2> HIDE DEF one
  <2>1. \A i \in (N + 1)..Len(one) : i = N + 1
    BY <1>3, <1>5
  <2>2. QED
    BY <1>2, <1>3, <1>4, <1>5, <1>6, <2>1 DEF Grows
<1>7. CASE \E l : /\ Fits(l, h, 2) /\ Accepts(Applied(Ledger(TopHeight), m), l)
                  /\ msgs' = msgs \o <<m, l>>
  <2>1. PICK l : /\ Fits(l, h, 2) /\ Accepts(Applied(Ledger(TopHeight), m), l)
                 /\ msgs' = msgs \o <<m, l>>
    BY <1>7
  <2> DEFINE two == Append(one, l)
  <2>2. msgs' = two
    BY <1>2, <1>3, <2>1
  <2>3. two \in Chains
    <3> HIDE DEF one
    <3>1. Accepts(History(one)[Len(one)], l)
      BY <1>3, <1>4, <1>5, <2>1
    <3>2. l \in Message /\ l.height # 0 /\ l.id # 0 /\ TopOf(one) <= l.height
      BY <1>3, <1>4, <2>1
    <3>3. QED
      BY <1>4, <3>1, <3>2, OneMore
  <2>4. /\ Len(two) = N + 2 /\ two[N + 2] = l /\ two[N + 1] = m
        /\ \A i \in 1..N : two[i] = msgs[i]
    <3>1. one \in Seq(Message) /\ l \in Message
      BY <1>2, <1>3, <2>1
    <3> HIDE DEF one
    <3>2. QED
      BY <1>3, <1>5, <3>1
  <2> HIDE DEF two
  <2>5. \A i \in (N + 1)..Len(two) : i = N + 1 \/ i = N + 2
    BY <1>3, <2>4
  <2>6. /\ \A i \in 1..N : msgs'[i] = msgs[i]
        /\ \A i \in (N + 1)..Len(msgs') : TopOf(msgs) < msgs'[i].height
    <3>1. m.height = h /\ l.height = h
      BY <1>2, <2>1
    <3>2. QED
      BY <1>3, <2>2, <2>4, <2>5, <3>1
  <2>7. Len(msgs) <= Len(msgs')
    BY <1>3, <2>2, <2>4
  <2>8. QED
    BY <2>2, <2>3, <2>6, <2>7 DEF Grows
<1>8. QED
  BY <1>2, <1>6, <1>7

LEMMA NewBlockKeepsInv == NftInv /\ NewBlock => NftInv'
<1> SUFFICES ASSUME NftInv, NewBlock
             PROVE  NftInv'
  OBVIOUS
<1>1. UNCHANGED <<table, runVars, lost, faults>>
  BY DEF NewBlock
<1>2. /\ Grows(msgs, msgs') /\ msgs \in Chains /\ msgs' \in Chains
      /\ msgs' \in Seq(Message)
  BY BlockGrows, ChainTypes DEF NftInv, Grows
<1>3. /\ TopHeight = TopOf(msgs) /\ TopHeight' = TopOf(msgs')
      /\ TopHeight \in Nat /\ TopHeight' \in Nat /\ TopHeight <= TopHeight'
      /\ \A k \in 0..TopHeight : UntilOf(msgs', k) = UntilOf(msgs, k)
  BY <1>2, InHistory, InHistoryNext, TopIs, GrownIs
<1>4. \A d, n, k : n \in Nfts /\ k \in 0..TopHeight /\ Agrees(d, n, k) => Agrees(d, n, k)'
  BY <1>2, <1>3, InHistory, InHistoryNext, AgreesGrown
<1>5. Cursor' = Cursor /\ Pending' = Pending
  BY <1>1 DEF Cursor, Heights, Pending, runVars
<1>6. PICK b \in 0..TopHeight : TrueUpTo(b)
  BY DEF NftInv, WritesAreTrue
<1>7. Cursor \in 0..TopHeight /\ \A n \in Nfts : table[n].height \in 0..TopHeight
  <2>1. Cursor \in 0..b
    BY <1>3, <1>6, CursorIs DEF TrueUpTo, NftInv, TypeOK
  <2>2. \A n \in Nfts : table[n].height \in Nat /\ table[n].height <= b
    BY <1>6 DEF TrueUpTo, NftInv, TypeOK, Doc
  <2>3. QED
    BY <1>3, <2>1, <2>2
<1>8. TrueUpTo(b)'
  <2>1. ASSUME NEW n \in Nfts \ lost, n \notin Pending
        PROVE  \E k \in b..TopHeight' : Agrees(table[n], n, k)'
    <3>1. PICK k \in b..TopHeight : Agrees(table[n], n, k)
      BY <1>6, <2>1 DEF TrueUpTo
    <3>2. k \in b..TopHeight' /\ k \in 0..TopHeight
      BY <1>3, <3>1
    <3>3. Agrees(table[n], n, k)'
      BY <1>1, <1>4, <3>1, <3>2
    <3>4. QED
      BY <3>2, <3>3
  <2>2. ASSUME NEW n \in Nfts \ lost, n \in Pending
        PROVE  Agrees(Written(table[n], pending[n]), n, b)'
    BY <1>1, <1>4, <1>6, <2>2 DEF TrueUpTo, runVars
  <2>3. QED
    BY <1>1, <1>5, <1>6, <2>1, <2>2 DEF TrueUpTo, runVars
<1>9. WritesAreTrue'
  BY <1>3, <1>6, <1>8 DEF WritesAreTrue
<1>10. DocIsTrue'
  BY <1>1, <1>4, <1>7 DEF NftInv, DocIsTrue
<1>11. TypeOK'
  BY <1>1, <1>2 DEF NftInv, TypeOK, runVars
<1>12. RunIsSane'
  <2>1. stage = "reading" => Between(Cursor, from)' = Between(Cursor, from)
    <3>1. SUFFICES ASSUME stage = "reading"
                   PROVE  Between(Cursor, from)' = Between(Cursor, from)
      OBVIOUS
    <3> DEFINE p == UntilOf(msgs, Cursor)
               q == UntilOf(msgs, from)
    <3>2. /\ from \in Nat /\ from <= TopHeight /\ Cursor <= from /\ from' = from
      BY <1>1, <3>1 DEF NftInv, TypeOK, RunIsSane, runVars
    <3>3. Between(Cursor, from)' = SubSeq(msgs', UntilOf(msgs', Cursor') + 1, UntilOf(msgs', from'))
      BY DEF Between, Until, UntilOf
    <3>4. UntilOf(msgs', Cursor') = p /\ UntilOf(msgs', from') = q
      BY <1>3, <1>5, <1>7, <3>2
    <3>5. /\ p \in 0..Len(msgs) /\ q \in 0..Len(msgs) /\ Len(msgs) \in Nat
          /\ msgs \in Seq(Message) /\ msgs' \in Seq(Message) /\ Len(msgs') \in Nat
          /\ Len(msgs) <= Len(msgs') /\ \A i \in 1..Len(msgs) : msgs'[i] = msgs[i]
      BY <1>2, <1>3, <1>7, <3>2, UntilIs, ChainTypes DEF Grows
    <3> HIDE DEF p, q
    <3>6. SubSeq(msgs', p + 1, q) = SubSeq(msgs, p + 1, q)
      BY <3>5
    <3>7. QED
      BY <3>3, <3>4, <3>6, InHistory DEF Between, p, q
  <2>2. QED
    BY <1>1, <1>3, <1>5, <2>1 DEF NftInv, RunIsSane, TypeOK, runVars
<1>13. QED
  BY <1>2, <1>9, <1>10, <1>11, <1>12 DEF NftInv

LEMMA StepInv == NftInv /\ [Next]_vars => NftInv'
<1> SUFFICES ASSUME NftInv, [Next]_vars
             PROVE  NftInv'
  OBVIOUS
<1>1. CASE NewBlock
  BY <1>1, NewBlockKeepsInv
<1>2. CASE Start
  BY <1>2, StartKeepsInv
<1>3. CASE FindMax
  BY <1>3, FindMaxKeepsInv
<1>4. CASE ReadWindow
  BY <1>4, ReadWindowKeepsInv
<1>5. CASE Resolve
  <2>1. Reset /\ Pending = {} /\ UNCHANGED <<msgs, table, lost, faults>>
    BY <1>5 DEF Resolve
  <2>2. lost \cup Pending \subseteq lost' /\ lost' \subseteq Nfts /\ faults' \in 0..MaxFaults
    BY <2>1 DEF NftInv, TypeOK
  <2>3. QED
    BY <2>1, <2>2, EndKeepsInv
<1>6. CASE \E n \in Nfts : WriteLands(n)
  BY <1>6, WriteLandsKeepsInv
<1>7. CASE Crash
  <2>1. /\ Reset /\ lost' = lost \cup Pending /\ UNCHANGED <<msgs, table>>
        /\ faults < MaxFaults /\ faults' = faults + 1
    BY <1>7 DEF Crash
  <2>2. lost \cup Pending \subseteq lost' /\ lost' \subseteq Nfts /\ faults' \in 0..MaxFaults
    BY <2>1, NftSettings DEF NftInv, TypeOK, Pending
  <2>3. QED
    BY <2>1, <2>2, EndKeepsInv
<1>8. CASE QueryFails
  <2>1. /\ Reset /\ Pending = {} /\ UNCHANGED <<msgs, table, lost>>
        /\ faults < MaxFaults /\ faults' = faults + 1
    BY <1>8 DEF QueryFails, NftInv, RunIsSane
  <2>2. lost \cup Pending \subseteq lost' /\ lost' \subseteq Nfts /\ faults' \in 0..MaxFaults
    BY <2>1, NftSettings DEF NftInv, TypeOK
  <2>3. QED
    BY <2>1, <2>2, EndKeepsInv
<1>9. CASE \E n \in Nfts : WriteFails(n)
  BY <1>9, WriteFailsKeepsInv
<1>10. CASE UNCHANGED vars
  <2>1. WritesAreTrue' /\ DocIsTrue' /\ Cursor' = Cursor /\ Pending' = Pending
    BY <1>10, SameTruth DEF vars
  <2>2. Between(Cursor, from)' = Between(Cursor, from) /\ TopHeight' = TopHeight
    BY <1>10, <2>1, SameChain DEF vars, Between, Until
  <2>3. RunIsSane'
    BY <1>10, <2>1, <2>2 DEF vars, NftInv, RunIsSane
  <2>4. QED
    BY <1>10, <2>1, <2>3 DEF vars, NftInv, TypeOK
<1>11. QED
  BY <1>1, <1>2, <1>3, <1>4, <1>5, <1>6, <1>7, <1>8, <1>9, <1>10 DEF Next, RunStep, Fault

LEMMA NftInvariant == Spec => []NftInv
<1>1. Init => NftInv
  BY InitInv
<1>2. NftInv /\ [Next]_vars => NftInv'
  BY StepInv
<1>3. QED
  BY <1>1, <1>2, PTL DEF Spec

(* Documents, messages and writes of the nft task (NftTaskService.doTask)  *)
(* keep their types.                                                       *)
THEOREM TypeCorrect == Spec => []TypeOK
<1>1. NftInv => TypeOK
  BY DEF NftInv
<1>2. QED
  BY <1>1, NftInvariant, PTL

(* A document no write was lost for is what the chain says of its NFT at   *)
(* the document's height; fields of it are missing only if the NFT has     *)
(* been burnt since (handleNftTx, updateNft and deleteNft).                *)
THEOREM DocumentsAreTrue == Spec => []DocIsTrue
<1>1. NftInv => DocIsTrue
  BY DEF NftInv
<1>2. QED
  BY <1>1, NftInvariant, PTL

(* What a run will not read again is in the collection: below the highest  *)
(* document (queryLastBlockHeight) nothing is missing but what a lost      *)
(* write would have brought.                                               *)
THEOREM NoMessageSkipped == Spec => []NothingSkipped
<1>1. NftInv => NothingSkipped
  BY InvImpliesNothingSkipped
<1>2. QED
  BY <1>1, NftInvariant, PTL
=============================================================================
