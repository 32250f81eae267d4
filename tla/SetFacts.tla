------------------------------- MODULE SetFacts -------------------------------
(* Facts the proofs share: least and greatest members of sets of numbers,  *)
(* induction, and sums of functions over finite sets.                      *)
EXTENDS Integers, Functions, FiniteSets, FiniteSetsExt,
        FiniteSetTheorems, WellFoundedInduction, TLAPS

-----------------------------------------------------------------------------
(* Natural numbers. *)

(* A set of naturals that is not empty has a least member. *)
LEMMA LeastMember ==
    ASSUME NEW S \in SUBSET Nat, S # {}
    PROVE  \E m \in S : \A y \in S : m <= y
<1> DEFINE Less == {ss \in Nat \X Nat : ss[1] < ss[2]}
<1>1. \A x \in Nat, y \in Nat : x < y => <<x, y>> \in Less
  OBVIOUS
<1>2. IsWellFoundedOn(Less, Nat)
  BY NatLessThanWellFounded DEF OpToRel
<1> HIDE DEF Less
<1>3. PICK m \in S : \A y \in S : ~(<<y, m>> \in Less)
  BY <1>2, WFMin
<1>4. ASSUME NEW y \in S
      PROVE  m <= y
  <2>1. y \in Nat /\ m \in Nat /\ ~(y < m)
    BY <1>1, <1>3
  <2>2. QED
    BY <2>1
<1>5. QED
  BY <1>4

LEMMA MinIsLeast ==
    ASSUME NEW S \in SUBSET Nat, S # {}
    PROVE  Min(S) \in S /\ \A y \in S : Min(S) <= y
BY LeastMember DEF Min

(* The greatest member of a bounded set is the least of its bounds. *)
LEMMA MaxIsGreatest ==
    ASSUME NEW n \in Nat, NEW S \in SUBSET (0..n), S # {}
    PROVE  Max(S) \in S /\ \A y \in S : y <= Max(S)
<1> DEFINE Bounds == {b \in Nat : \A y \in S : y <= b}
<1>1. n \in Bounds /\ Bounds \in SUBSET Nat
  OBVIOUS
<1>2. PICK m \in Bounds : \A b \in Bounds : m <= b
  BY <1>1, LeastMember
<1>3. m \in S
  <2>1. SUFFICES ASSUME m \notin S
                 PROVE  FALSE
    OBVIOUS
  <2>2. PICK z \in S : z <= m
    BY <1>2
  <2>3. m \in Nat /\ z \in Nat /\ z # m
    BY <1>2, <2>1
  <2>4. m - 1 \in Nat
    BY <2>2, <2>3
  <2>5. \A y \in S : y <= m - 1
    BY <1>2, <2>1, <2>3
  <2>6. m - 1 \in Bounds
    BY <2>4, <2>5
  <2>7. QED
    BY <1>2, <2>3, <2>6
<1>4. \E x \in S : \A y \in S : y <= x
  BY <1>2, <1>3
<1>5. QED
  BY <1>4 DEF Max

(* Induction, with a set in the place of the predicate. *)
LEMMA Climb ==
    ASSUME NEW N \in Nat, NEW S, 0 \in S,
           \A i \in 1..N : i - 1 \in S => i \in S
    PROVE  \A i \in 0..N : i \in S
<1> DEFINE Missed == {i \in 0..N : i \notin S}
<1>1. SUFFICES ASSUME Missed # {}
               PROVE  FALSE
  OBVIOUS
<1>2. Missed \in SUBSET Nat
  OBVIOUS
<1>3. PICK m \in Missed : \A y \in Missed : m <= y
  BY <1>1, <1>2, LeastMember
<1>4. m \in 1..N /\ m - 1 \in 0..N
  BY <1>3
<1>5. m - 1 \notin Missed
  BY <1>3, <1>4
<1>6. QED
  BY <1>3, <1>4, <1>5

-----------------------------------------------------------------------------
(* Sums. *)

(* What SumFunctionOnSet adds up first. *)
First(S) == CHOOSE x \in S : TRUE

(* h has the sums of f over the subsets of S with at most n members. *)
AreSums(h, f, S, n) ==
    /\ h[{}] = 0
    /\ \A s \in SUBSET S :
           s # {} /\ Cardinality(s) <= n => h[s] = f[First(s)] + h[s \ {First(s)}]

LEMMA Without ==
    ASSUME NEW S, IsFiniteSet(S), NEW s \in SUBSET S, s # {}, NEW x \in s
    PROVE  /\ IsFiniteSet(s) /\ IsFiniteSet(s \ {x})
           /\ s \ {x} \in SUBSET S
           /\ Cardinality(s) \in Nat \ {0}
           /\ Cardinality(s) <= Cardinality(S) /\ Cardinality(S) \in Nat
           /\ Cardinality(s \ {x}) = Cardinality(s) - 1
<1>1. IsFiniteSet(s) /\ Cardinality(s) <= Cardinality(S)
  BY FS_Subset
<1>2. Cardinality(s) \in Nat /\ Cardinality(S) \in Nat
  BY <1>1, FS_CardinalityType
<1>3. Cardinality(s) # 0
  BY <1>1, FS_EmptySet
<1>4. IsFiniteSet(s \ {x}) /\ Cardinality(s \ {x}) = Cardinality(s) - 1
  BY <1>1, FS_RemoveElement
<1>5. QED
  BY <1>1, <1>2, <1>3, <1>4

LEMMA NoMembers == Cardinality({}) = 0 /\ IsFiniteSet({})
BY FS_EmptySet

(* There are such sums. *)
LEMMA SumsExist ==
    ASSUME NEW S, IsFiniteSet(S), NEW f, \A x \in S : f[x] \in Int
    PROVE  \E h \in [SUBSET S -> Int] : AreSums(h, f, S, Cardinality(S))
<1> DEFINE Q == {n \in 0..Cardinality(S) : \E h \in [SUBSET S -> Int] : AreSums(h, f, S, n)}
<1>1. Cardinality(S) \in Nat
  BY FS_CardinalityType
<1>2. 0 \in Q
  <2> DEFINE z == [s \in SUBSET S |-> 0]
  <2>1. ASSUME NEW s \in SUBSET S, s # {}
        PROVE  ~(Cardinality(s) <= 0)
    <3>1. PICK x \in s : TRUE
      BY <2>1
    <3>2. Cardinality(s) \in Nat \ {0}
      BY <2>1, <3>1, Without
    <3>3. QED
      BY <3>2
  <2>2. z \in [SUBSET S -> Int] /\ AreSums(z, f, S, 0)
    BY <2>1 DEF AreSums
  <2> HIDE DEF z
  <2>3. QED
    BY <1>1, <2>2
<1>3. ASSUME NEW n \in 1..Cardinality(S), n - 1 \in Q
      PROVE  n \in Q
  <2>1. PICK h \in [SUBSET S -> Int] : AreSums(h, f, S, n - 1)
    BY <1>3
  <2> DEFINE more == [s \in SUBSET S |-> f[First(s)] + h[s \ {First(s)}]]
             g == [s \in SUBSET S |-> IF s = {} THEN 0 ELSE more[s]]
  <2>2. ASSUME NEW s \in SUBSET S, s # {}
        PROVE  /\ First(s) \in s /\ s \ {First(s)} \in SUBSET S
               /\ Cardinality(s) \in Nat
               /\ Cardinality(s \ {First(s)}) = Cardinality(s) - 1
               /\ more[s] \in Int
    <3>1. First(s) \in s
      BY <2>2 DEF First
    <3>2. h[s \ {First(s)}] \in Int /\ f[First(s)] \in Int
      BY <2>1, <3>1 DEF AreSums
    <3>3. QED
      <4>1. /\ s \ {First(s)} \in SUBSET S /\ Cardinality(s) \in Nat
            /\ Cardinality(s \ {First(s)}) = Cardinality(s) - 1
        BY <2>2, <3>1, Without
      <4>2. more[s] = f[First(s)] + h[s \ {First(s)}]
        BY <2>2
      <4> HIDE DEF more
      <4>3. QED
        BY <3>1, <3>2, <4>1, <4>2
  <2> HIDE DEF more
  <2>3. g \in [SUBSET S -> Int] /\ g[{}] = 0
    <3>1. ASSUME NEW s \in SUBSET S
          PROVE  (IF s = {} THEN 0 ELSE more[s]) \in Int
      <4>1. CASE s = {}
        BY <4>1
      <4>2. CASE s # {}
        BY <2>2, <4>2
      <4>3. QED
        BY <4>1, <4>2
    <3>2. QED
      BY <3>1
  <2>4. ASSUME NEW s \in SUBSET S, s # {}, Cardinality(s) <= n
        PROVE  g[s] = f[First(s)] + g[s \ {First(s)}]
    <3>1. PICK t \in SUBSET S : t = s \ {First(s)}
      BY <2>2, <2>4
    <3>2. Cardinality(t) <= n - 1
      BY <2>2, <2>4, <3>1
    <3>3. g[t] = h[t]
      BY <2>1, <3>1, <3>2 DEF AreSums, more
    <3>4. QED
      BY <2>4, <3>1, <3>3 DEF more
  <2> HIDE DEF g
  <2>5. AreSums(g, f, S, n)
    BY <2>3, <2>4 DEF AreSums
  <2>6. QED
    BY <2>3, <2>5
<1> HIDE DEF Q
<1>4. \A i \in 0..Cardinality(S) : i \in Q
  BY <1>1, <1>2, <1>3, Climb
<1>5. Cardinality(S) \in Q
  BY <1>1, <1>4
<1>6. QED
  BY <1>5 DEF Q

(* They are the same for every subset. *)
LEMMA SumsAgree ==
    ASSUME NEW S, IsFiniteSet(S), NEW T \in SUBSET S, NEW f, NEW g, NEW h,
           AreSums(h, f, S, Cardinality(S)), AreSums(g, f, T, Cardinality(T))
    PROVE  h[T] = g[T]
<1> DEFINE Q == {n \in 0..Cardinality(T) : \A s \in SUBSET T : Cardinality(s) = n => h[s] = g[s]}
<1>1. IsFiniteSet(T) /\ Cardinality(T) \in Nat /\ Cardinality(S) \in Nat
  BY FS_Subset, FS_CardinalityType
<1>2. ASSUME NEW s \in SUBSET T, s # {}
      PROVE  /\ First(s) \in s /\ s \ {First(s)} \in SUBSET T
             /\ Cardinality(s) \in Nat \ {0}
             /\ Cardinality(s) <= Cardinality(T) /\ Cardinality(s) <= Cardinality(S)
             /\ Cardinality(s \ {First(s)}) = Cardinality(s) - 1
  <2>1. First(s) \in s
    BY <1>2 DEF First
  <2>2. QED
    BY <1>1, <1>2, <2>1, Without
<1>3. 0 \in Q
  <2>1. ASSUME NEW s \in SUBSET T, Cardinality(s) = 0
        PROVE  h[s] = g[s]
    <3>1. s = {}
      BY <1>2, <2>1
    <3>2. QED
      BY <3>1 DEF AreSums
  <2>2. QED
    BY <1>1, <2>1
<1>4. ASSUME NEW n \in 1..Cardinality(T), n - 1 \in Q
      PROVE  n \in Q
  <2>1. ASSUME NEW s \in SUBSET T, Cardinality(s) = n
        PROVE  h[s] = g[s]
    <3>1. s # {}
      BY <2>1, NoMembers
    <3>2. PICK t \in SUBSET T : t = s \ {First(s)}
      BY <1>2, <3>1
    <3>3. Cardinality(t) = n - 1
      BY <1>2, <2>1, <3>1, <3>2
    <3>4. h[t] = g[t]
      BY <1>4, <3>3
    <3>5. h[s] = f[First(s)] + h[t] /\ g[s] = f[First(s)] + g[t]
      BY <1>2, <3>1, <3>2 DEF AreSums
    <3>6. QED
      BY <3>4, <3>5
  <2>2. QED
    BY <2>1
<1> HIDE DEF Q
<1>5. \A i \in 0..Cardinality(T) : i \in Q
  BY <1>1, <1>3, <1>4, Climb
<1>6. QED
  BY <1>1, <1>5 DEF Q

(* What SumFunctionOnSet computes. *)
LEMMA SumIs ==
    ASSUME NEW S, IsFiniteSet(S), NEW f, \A x \in S : f[x] \in Int
    PROVE  \E h \in [SUBSET S -> Int] : AreSums(h, f, S, Cardinality(S)) /\ SumFunctionOnSet(f, S) = h[S]
<1> DEFINE I == CHOOSE h : h = [s \in SUBSET S |-> IF s = {} THEN 0
                                                   ELSE f[First(s)] + h[s \ {First(s)}]]
<1>1. PICK h \in [SUBSET S -> Int] : AreSums(h, f, S, Cardinality(S))
  BY SumsExist
<1>2. ASSUME NEW s \in SUBSET S, s # {}
      PROVE  h[s] = f[First(s)] + h[s \ {First(s)}]
  <2>1. Cardinality(s) <= Cardinality(S)
    BY FS_Subset
  <2>2. QED
    BY <1>1, <1>2, <2>1 DEF AreSums
<1>3. h = [s \in SUBSET S |-> IF s = {} THEN 0 ELSE f[First(s)] + h[s \ {First(s)}]]
  BY <1>1, <1>2 DEF AreSums
<1>4. I = [s \in SUBSET S |-> IF s = {} THEN 0 ELSE f[First(s)] + I[s \ {First(s)}]]
  BY <1>3
<1>5. SumFunctionOnSet(f, S) = I[S]
  BY DEF SumFunctionOnSet, FoldFunctionOnSet, MapThenFoldSet, First
<1> HIDE DEF I
<1>6. AreSums(I, f, S, Cardinality(S))
  <2>1. I[{}] = 0
    BY <1>4
  <2>2. \A s \in SUBSET S : s # {} => I[s] = f[First(s)] + I[s \ {First(s)}]
    BY <1>4
  <2>3. QED
    BY <2>1, <2>2 DEF AreSums
<1>7. h[S] = I[S]
  BY <1>1, <1>6, SumsAgree
<1>8. QED
  BY <1>1, <1>5, <1>7

Sum(f, S) == SumFunctionOnSet(f, S)

LEMMA SumOfNone == \A f : Sum(f, {}) = 0
<1>1. ASSUME NEW f
      PROVE  Sum(f, {}) = 0
  <2>1. PICK h : AreSums(h, f, {}, Cardinality({})) /\ SumFunctionOnSet(f, {}) = h[{}]
    BY NoMembers, SumIs
  <2>2. QED
    BY <2>1 DEF AreSums, Sum
<1>2. QED
  BY <1>1

LEMMA SumType ==
    ASSUME NEW S, IsFiniteSet(S), NEW f, \A x \in S : f[x] \in Int
    PROVE  Sum(f, S) \in Int
<1>1. PICK h \in [SUBSET S -> Int] : SumFunctionOnSet(f, S) = h[S]
  BY SumIs
<1>2. QED
  BY <1>1 DEF Sum

(* The sum begins with First, *)
LEMMA SumBegins ==
    ASSUME NEW S, IsFiniteSet(S), S # {}, NEW f, \A x \in S : f[x] \in Int
    PROVE  /\ First(S) \in S
           /\ Sum(f, S) = f[First(S)] + Sum(f, S \ {First(S)})
<1>1. First(S) \in S
  BY DEF First
<1> DEFINE T == S \ {First(S)}
<1>2. T \in SUBSET S /\ IsFiniteSet(T)
  BY FS_Subset
<1> HIDE DEF T
<1>3. PICK h \in [SUBSET S -> Int] : AreSums(h, f, S, Cardinality(S)) /\ Sum(f, S) = h[S]
  BY SumIs DEF Sum
<1>4. PICK g \in [SUBSET T -> Int] : AreSums(g, f, T, Cardinality(T)) /\ Sum(f, T) = g[T]
  BY <1>2, SumIs DEF Sum
<1>5. h[T] = g[T]
  BY <1>2, <1>3, <1>4, SumsAgree
<1>6. h[S] = f[First(S)] + h[T]
  <2>1. Cardinality(S) <= Cardinality(S)
    BY FS_CardinalityType
  <2>2. QED
    BY <1>3, <2>1 DEF AreSums, T
<1>7. QED
  BY <1>1, <1>3, <1>4, <1>5, <1>6 DEF T

(* and may begin anywhere. *)
LEMMA SumPeels ==
    ASSUME NEW S, IsFiniteSet(S), NEW f, \A x \in S : f[x] \in Int, NEW a \in S
    PROVE  Sum(f, S) = f[a] + Sum(f, S \ {a})
<1> DEFINE Q == {n \in 0..Cardinality(S) :
                    \A s \in SUBSET S : Cardinality(s) = n =>
                        \A x \in s : Sum(f, s) = f[x] + Sum(f, s \ {x})}
<1>1. Cardinality(S) \in Nat
  BY FS_CardinalityType
<1>2. 0 \in Q
  <2>1. ASSUME NEW s \in SUBSET S, Cardinality(s) = 0, NEW x \in s
        PROVE  FALSE
    <3>1. Cardinality(s) \in Nat \ {0}
      BY Without
    <3>2. QED
      BY <2>1, <3>1
  <2>2. QED
    BY <1>1, <2>1
<1>3. ASSUME NEW n \in 1..Cardinality(S), n - 1 \in Q
      PROVE  n \in Q
  <2>1. ASSUME NEW s \in SUBSET S, Cardinality(s) = n, NEW x \in s
        PROVE  Sum(f, s) = f[x] + Sum(f, s \ {x})
    <3>1. PICK c : c = First(s)
      OBVIOUS
    <3>2. IsFiniteSet(s) /\ Cardinality(s) \in Nat
      BY FS_Subset, FS_CardinalityType
    <3>3. c \in s /\ Sum(f, s) = f[c] + Sum(f, s \ {c})
      BY <2>1, <3>1, <3>2, SumBegins
    <3>4. CASE c # x
      <4>1. /\ s \ {c} \in SUBSET S /\ s \ {x} \in SUBSET S
            /\ Cardinality(s \ {c}) = n - 1 /\ Cardinality(s \ {x}) = n - 1
        BY <2>1, <3>3, Without
      <4>2. x \in s \ {c} /\ c \in s \ {x}
        BY <2>1, <3>3, <3>4
      <4>3. /\ Sum(f, s \ {c}) = f[x] + Sum(f, (s \ {c}) \ {x})
            /\ Sum(f, s \ {x}) = f[c] + Sum(f, (s \ {x}) \ {c})
        BY <1>3, <4>1, <4>2
      <4>4. PICK r : r = (s \ {c}) \ {x} /\ r = (s \ {x}) \ {c}
        OBVIOUS
      <4>5. IsFiniteSet(r) /\ \A y \in r : f[y] \in Int
        BY <3>2, <4>4, FS_Subset
      <4>6. Sum(f, r) \in Int /\ f[x] \in Int /\ f[c] \in Int
        BY <3>3, <4>5, SumType
      <4>7. /\ Sum(f, s \ {c}) = f[x] + Sum(f, r)
            /\ Sum(f, s \ {x}) = f[c] + Sum(f, r)
        BY <4>3, <4>4
      <4>8. QED
        BY <3>3, <4>6, <4>7
    <3>5. QED
      BY <3>3, <3>4
  <2>2. QED
    BY <2>1
<1> HIDE DEF Q
<1>4. \A i \in 0..Cardinality(S) : i \in Q
  BY <1>1, <1>2, <1>3, Climb
<1>5. Cardinality(S) \in Q
  BY <1>1, <1>4
<1>6. QED
  BY <1>5 DEF Q

(* Induction over a finite set, member by member. *)
LEMMA MemberByMember ==
    ASSUME NEW S, IsFiniteSet(S), NEW P, {} \in P,
           \A s \in SUBSET S : \A x \in S \ s : s \in P => s \cup {x} \in P
    PROVE  S \in P
<1> DEFINE Q == {n \in 0..Cardinality(S) : \A s \in SUBSET S : Cardinality(s) = n => s \in P}
<1>1. Cardinality(S) \in Nat
  BY FS_CardinalityType
<1>2. 0 \in Q
  <2>1. ASSUME NEW s \in SUBSET S, Cardinality(s) = 0
        PROVE  s \in P
    <3>1. IsFiniteSet(s)
      BY FS_Subset
    <3>2. s = {}
      BY <2>1, <3>1, FS_EmptySet
    <3>3. QED
      BY <3>2
  <2>2. QED
    BY <1>1, <2>1
<1>3. ASSUME NEW n \in 1..Cardinality(S), n - 1 \in Q
      PROVE  n \in Q
  <2>1. ASSUME NEW s \in SUBSET S, Cardinality(s) = n
        PROVE  s \in P
    <3>1. PICK x \in s : TRUE
      BY <2>1, NoMembers
    <3>2. PICK r : r = s \ {x}
      OBVIOUS
    <3>3. r \in SUBSET S /\ Cardinality(r) = n - 1
      BY <2>1, <3>1, <3>2, Without
    <3>4. r \in P
      BY <1>3, <3>3
    <3>5. x \in S \ r /\ s = r \cup {x}
      BY <3>1, <3>2
    <3>6. QED
      BY <3>3, <3>4, <3>5
  <2>2. QED
    BY <2>1
<1> HIDE DEF Q
<1>4. \A i \in 0..Cardinality(S) : i \in Q
  BY <1>1, <1>2, <1>3, Climb
<1>5. Cardinality(S) \in Q
  BY <1>1, <1>4
<1>6. QED
  BY <1>5 DEF Q

LEMMA SumGrows ==
    ASSUME NEW S, IsFiniteSet(S), NEW s \in SUBSET S, NEW x \in S \ s,
           NEW f, \A y \in S : f[y] \in Int
    PROVE  Sum(f, s \cup {x}) = f[x] + Sum(f, s) /\ Sum(f, s) \in Int
<1>1. PICK r : r = s \cup {x}
  OBVIOUS
<1>2. IsFiniteSet(s) /\ IsFiniteSet(r) /\ r \ {x} = s /\ x \in r /\ \A y \in r : f[y] \in Int
  <2>1. r \in SUBSET S
    BY <1>1
  <2>2. IsFiniteSet(r)
    BY <2>1, FS_Subset
  <2>3. QED
    BY <1>1, <2>1, <2>2, FS_Subset
<1>3. Sum(f, r) = f[x] + Sum(f, r \ {x})
  BY <1>2, SumPeels
<1>4. Sum(f, s) \in Int
  BY <1>2, SumType
<1>5. QED
  BY <1>1, <1>2, <1>3, <1>4

(* Sums of two and of three. *)
LEMMA SumOfTwo ==
    ASSUME NEW x, NEW y, x # y, NEW f, f[x] \in Int, f[y] \in Int
    PROVE  Sum(f, {x, y}) = f[x] + f[y]
<1>1. PICK P : P = {x, y}
  OBVIOUS
<1>2. IsFiniteSet(P)
  <2>1. IsFiniteSet({x}) /\ IsFiniteSet({y})
    BY FS_Singleton
  <2>2. IsFiniteSet({x} \cup {y})
    BY <2>1, FS_Union
  <2>3. {x} \cup {y} = P
    BY <1>1
  <2>4. QED
    BY <2>2, <2>3
<1>3. {} \cup {y} = {y} /\ {y} \cup {x} = P
  BY <1>1
<1>4. \A z \in P : f[z] \in Int
  BY <1>1
<1>5. Sum(f, {} \cup {y}) = f[y] + Sum(f, {})
  <2>1. {} \in SUBSET P /\ y \in P \ {}
    BY <1>1
  <2>2. QED
    BY <1>2, <1>4, <2>1, SumGrows
<1>6. Sum(f, {y} \cup {x}) = f[x] + Sum(f, {y})
  BY <1>1, <1>2, <1>4, SumGrows
<1>7. Sum(f, {y}) = f[y] + 0 /\ Sum(f, {x, y}) = f[x] + Sum(f, {y})
  BY <1>1, <1>3, <1>5, <1>6, SumOfNone
<1>8. f[y] + 0 = f[y] /\ f[x] \in Int /\ f[y] \in Int
  OBVIOUS
<1>9. QED
  BY <1>7, <1>8

LEMMA SumOfThree ==
    ASSUME NEW x, NEW y, NEW z, x # y, x # z, y # z,
           NEW f, f[x] \in Int, f[y] \in Int, f[z] \in Int
    PROVE  Sum(f, {x, y} \cup {z}) = Sum(f, {x, y}) + f[z]
<1>1. PICK P : P = {x, y} \cup {z}
  OBVIOUS
<1>2. IsFiniteSet(P)
  <2>1. IsFiniteSet({x}) /\ IsFiniteSet({y}) /\ IsFiniteSet({z})
    BY FS_Singleton
  <2>2. IsFiniteSet(({x} \cup {y}) \cup {z})
    BY <2>1, FS_Union
  <2>3. ({x} \cup {y}) \cup {z} = P
    BY <1>1
  <2>4. QED
    BY <2>2, <2>3
<1>3. {x, y} \in SUBSET P /\ z \in P \ {x, y}
  BY <1>1
<1>4. \A w \in P : f[w] \in Int
  BY <1>1
<1>5. Sum(f, {x, y} \cup {z}) = f[z] + Sum(f, {x, y}) /\ Sum(f, {x, y}) \in Int
  BY <1>2, <1>3, <1>4, SumGrows
<1>6. PICK s \in Int, c \in Int :
          s = Sum(f, {x, y}) /\ c = f[z] /\ Sum(f, {x, y} \cup {z}) = c + s
  BY <1>5
<1>7. c + s = s + c
  OBVIOUS
<1>8. QED
  BY <1>6, <1>7

(* A sum depends only on what is added up. *)
LEMMA SumsEqual ==
    ASSUME NEW S, IsFiniteSet(S), NEW f, NEW g,
           \A x \in S : f[x] \in Int /\ f[x] = g[x]
    PROVE  Sum(f, S) = Sum(g, S)
<1> DEFINE P == {s \in SUBSET S : Sum(f, s) = Sum(g, s)}
<1>1. {} \in P
  BY SumOfNone
<1>2. ASSUME NEW s \in SUBSET S, NEW x \in S \ s, s \in P
      PROVE  s \cup {x} \in P
  <2>1. Sum(f, s \cup {x}) = f[x] + Sum(f, s)
    BY SumGrows
  <2>2. Sum(g, s \cup {x}) = g[x] + Sum(g, s)
    BY SumGrows
  <2>3. Sum(f, s \cup {x}) = Sum(g, s \cup {x})
    BY <1>2, <2>1, <2>2
  <2>4. QED
    BY <2>3
<1> HIDE DEF P
<1>3. S \in P
  BY <1>1, <1>2, MemberByMember
<1>4. QED
  BY <1>3 DEF P

(* Disjoint sets add up. *)
LEMMA SumOfUnion ==
    ASSUME NEW S, IsFiniteSet(S), NEW T, IsFiniteSet(T), S \cap T = {},
           NEW f, \A x \in S \cup T : f[x] \in Int
    PROVE  Sum(f, S \cup T) = Sum(f, S) + Sum(f, T)
<1>1. PICK U : U = S \cup T /\ IsFiniteSet(U) /\ \A x \in U : f[x] \in Int
  BY FS_Union
<1> DEFINE P == {s \in SUBSET S : Sum(f, s \cup T) = Sum(f, s) + Sum(f, T)}
<1>2. {} \in P
  <2>1. {} \cup T = T
    OBVIOUS
  <2>2. Sum(f, T) \in Int
    BY SumType
  <2>3. Sum(f, {} \cup T) = Sum(f, {}) + Sum(f, T)
    BY <2>1, <2>2, SumOfNone
  <2>4. QED
    BY <2>3
<1>3. ASSUME NEW s \in SUBSET S, NEW x \in S \ s, s \in P
      PROVE  s \cup {x} \in P
  <2>1. PICK r : r = s \cup T
    OBVIOUS
  <2>2. (s \cup {x}) \cup T = r \cup {x}
    BY <2>1
  <2>3. r \in SUBSET U /\ x \in U \ r
    BY <1>1, <1>3, <2>1
  <2>4. Sum(f, r \cup {x}) = f[x] + Sum(f, r)
    <3>1. IsFiniteSet(U) /\ \A y \in U : f[y] \in Int
      BY <1>1
    <3>2. QED
      BY <2>3, <3>1, SumGrows
  <2>5. Sum(f, s \cup {x}) = f[x] + Sum(f, s) /\ Sum(f, s) \in Int
    BY SumGrows
  <2>6. Sum(f, r) = Sum(f, s) + Sum(f, T)
    BY <1>3, <2>1
  <2>7. f[x] \in Int /\ Sum(f, T) \in Int
    BY SumType
  <2>8. Sum(f, r \cup {x}) = Sum(f, s \cup {x}) + Sum(f, T)
    BY <2>4, <2>5, <2>6, <2>7
  <2>9. QED
    BY <2>2, <2>8
<1> HIDE DEF P
<1>4. S \in P
  BY <1>2, <1>3, MemberByMember
<1>5. QED
  BY <1>4 DEF P

(* Functions add up. *)
LEMMA SumsAdd ==
    ASSUME NEW S, IsFiniteSet(S), NEW f, NEW g, NEW h,
           \A x \in S : f[x] \in Int /\ g[x] \in Int /\ h[x] = f[x] + g[x]
    PROVE  Sum(h, S) = Sum(f, S) + Sum(g, S)
<1> DEFINE P == {s \in SUBSET S : Sum(h, s) = Sum(f, s) + Sum(g, s)}
<1>1. {} \in P
  BY SumOfNone
<1>2. ASSUME NEW s \in SUBSET S, NEW x \in S \ s, s \in P
      PROVE  s \cup {x} \in P
  <2>1. \A y \in S : f[y] \in Int /\ g[y] \in Int /\ h[y] \in Int
    OBVIOUS
  <2>2. Sum(f, s \cup {x}) = f[x] + Sum(f, s) /\ Sum(f, s) \in Int
    BY <2>1, SumGrows
  <2>3. Sum(g, s \cup {x}) = g[x] + Sum(g, s) /\ Sum(g, s) \in Int
    BY <2>1, SumGrows
  <2>4. Sum(h, s \cup {x}) = h[x] + Sum(h, s) /\ Sum(h, s) \in Int
    BY <2>1, SumGrows
  <2>5. Sum(h, s \cup {x}) = Sum(f, s \cup {x}) + Sum(g, s \cup {x})
    BY <1>2, <2>1, <2>2, <2>3, <2>4
  <2>6. QED
    BY <2>5
<1> HIDE DEF P
<1>3. S \in P
  BY <1>1, <1>2, MemberByMember
<1>4. QED
  BY <1>3 DEF P

(* Smaller members make a smaller sum. *)
LEMMA SumsCompare ==
    ASSUME NEW S, IsFiniteSet(S), NEW f, NEW g,
           \A x \in S : f[x] \in Int /\ g[x] \in Int /\ f[x] <= g[x]
    PROVE  Sum(f, S) <= Sum(g, S)
<1> DEFINE P == {s \in SUBSET S : Sum(f, s) <= Sum(g, s)}
<1>1. {} \in P
  BY SumOfNone
<1>2. ASSUME NEW s \in SUBSET S, NEW x \in S \ s, s \in P
      PROVE  s \cup {x} \in P
  <2>2. Sum(f, s \cup {x}) = f[x] + Sum(f, s) /\ Sum(f, s) \in Int
    BY SumGrows
  <2>3. Sum(g, s \cup {x}) = g[x] + Sum(g, s) /\ Sum(g, s) \in Int
    BY SumGrows
  <2>4. Sum(f, s \cup {x}) <= Sum(g, s \cup {x})
    BY <1>2, <2>2, <2>3
  <2>5. QED
    BY <2>4
<1> HIDE DEF P
<1>3. S \in P
  BY <1>1, <1>2, MemberByMember
<1>4. QED
  BY <1>3 DEF P

(* A sum of equal members is a multiple. *)
LEMMA SumOfEqual ==
    ASSUME NEW S, IsFiniteSet(S), NEW f, NEW n \in Int, \A x \in S : f[x] = n
    PROVE  Sum(f, S) = n * Cardinality(S)
<1> DEFINE P == {s \in SUBSET S : Sum(f, s) = n * Cardinality(s)}
<1>1. {} \in P
  BY SumOfNone, NoMembers
<1>2. ASSUME NEW s \in SUBSET S, NEW x \in S \ s, s \in P
      PROVE  s \cup {x} \in P
  <2>1. IsFiniteSet(s)
    BY FS_Subset
  <2>2. Cardinality(s \cup {x}) = Cardinality(s) + 1 /\ Cardinality(s) \in Nat
    BY <2>1, FS_AddElement, FS_CardinalityType
  <2>3. Sum(f, s \cup {x}) = f[x] + Sum(f, s)
    <3>1. \A y \in S : f[y] \in Int
      OBVIOUS
    <3>2. QED
      BY <3>1, SumGrows
  <2>4. PICK k \in Nat : k = Cardinality(s) /\ Sum(f, s \cup {x}) = n + n * k
    BY <1>2, <2>2, <2>3
  <2>5. n + n * k = n * (k + 1)
    OBVIOUS
  <2>6. Sum(f, s \cup {x}) = n * Cardinality(s \cup {x})
    BY <2>2, <2>4, <2>5
  <2>7. QED
    BY <2>6
<1> HIDE DEF P
<1>3. S \in P
  BY <1>1, <1>2, MemberByMember
<1>4. QED
  BY <1>3 DEF P

(* Sums of naturals are naturals. *)
LEMMA SumsAreNat ==
    ASSUME NEW S, IsFiniteSet(S), NEW f, \A x \in S : f[x] \in Nat
    PROVE  Sum(f, S) \in Nat
<1> DEFINE g == [x \in S |-> 0]
<1>1. Sum(g, S) = 0 * Cardinality(S)
  BY SumOfEqual
<1>2. 0 * Cardinality(S) = 0
  BY FS_CardinalityType
<1>3. Sum(g, S) <= Sum(f, S) /\ Sum(f, S) \in Int
  BY SumsCompare, SumType
<1> QED
  BY <1>1, <1>2, <1>3

(* Members that are zero do not count. *)
LEMMA SumSkipsZeros ==
    ASSUME NEW S, IsFiniteSet(S), NEW T \in SUBSET S, NEW f, \A x \in S : f[x] \in Int,
           \A x \in S \ T : f[x] = 0
    PROVE  Sum(f, S) = Sum(f, T)
<1>1. PICK R : R = S \ T
  OBVIOUS
<1>2. IsFiniteSet(R) /\ IsFiniteSet(T) /\ R \cup T = S /\ T \cap R = {} /\ T \cup R = S
  BY <1>1, FS_Subset
<1>3. Sum(f, T \cup R) = Sum(f, T) + Sum(f, R)
  BY <1>2, SumOfUnion
<1>4. Sum(f, R) = 0 * Cardinality(R) /\ Cardinality(R) \in Nat
  BY <1>1, <1>2, SumOfEqual, FS_CardinalityType
<1>5. PICK n \in Int, k \in Nat : n = Sum(f, T) /\ Sum(f, R) = 0 * k
  BY <1>2, <1>4, SumType
<1>6. n + 0 * k = n
  OBVIOUS
<1>7. QED
  BY <1>2, <1>3, <1>5, <1>6

(* The sums of the parts add up to the sum of the whole. *)
LEMMA SumOfParts ==
    ASSUME NEW S, IsFiniteSet(S), NEW L, IsFiniteSet(L), NEW label,
           NEW f, \A x \in S : f[x] \in Int,
           NEW part, \A l \in L : part[l] \in SUBSET S,
           \A l \in L : \A x \in S : x \in part[l] <=> label[x] = l,
           NEW whole \in SUBSET S, \A x \in S : x \in whole <=> label[x] \in L,
           NEW h, \A l \in L : h[l] = Sum(f, part[l])
    PROVE  Sum(h, L) = Sum(f, whole)
<1> DEFINE Parts(m) == {x \in S : label[x] \in m}
           P == {m \in SUBSET L : Sum(h, m) = Sum(f, Parts(m))}
<1> HIDE DEF Parts, P
<1>1. \A l \in L : h[l] \in Int
  <2>1. ASSUME NEW l \in L
        PROVE  h[l] \in Int
    <3>1. part[l] \in SUBSET S /\ IsFiniteSet(part[l])
      BY FS_Subset
    <3>2. Sum(f, part[l]) \in Int
      BY <3>1, SumType
    <3>3. QED
      BY <3>2
  <2>2. QED
    BY <2>1
<1>2. ASSUME NEW m \in SUBSET L, NEW l \in L \ m
      PROVE  Sum(h, m \cup {l}) = h[l] + Sum(h, m)
  <2>1. PICK K : K = m \cup {l}
    OBVIOUS
  <2>2. K \in SUBSET L /\ l \in K /\ K \ {l} = m
    BY <2>1
  <2>3. IsFiniteSet(K) /\ \A y \in K : h[y] \in Int
    BY <1>1, <2>2, FS_Subset
  <2>4. Sum(h, K) = h[l] + Sum(h, K \ {l})
    BY <2>2, <2>3, SumPeels
  <2>5. QED
    BY <2>1, <2>2, <2>4
<1>3. {} \in P
  <2>1. Parts({}) = {}
    BY DEF Parts
  <2>2. QED
    BY <2>1, SumOfNone DEF P
<1>4. ASSUME NEW m \in SUBSET L, NEW l \in L \ m, m \in P
      PROVE  m \cup {l} \in P
  <2>1. PICK A, B : A = Parts(m) /\ B = part[l]
    OBVIOUS
  <2>2. Parts(m \cup {l}) = A \cup B /\ A \cap B = {} /\ A \in SUBSET S /\ B \in SUBSET S
    BY <1>4, <2>1 DEF Parts
  <2>3. IsFiniteSet(A) /\ IsFiniteSet(B) /\ \A x \in A \cup B : f[x] \in Int
    BY <2>2, FS_Subset
  <2>4. Sum(f, A \cup B) = Sum(f, A) + Sum(f, B)
    BY <2>2, <2>3, SumOfUnion
  <2>5. Sum(h, m \cup {l}) = h[l] + Sum(h, m)
    BY <1>2
  <2>6. PICK a \in Int, b \in Int : a = Sum(f, A) /\ b = Sum(f, B)
    BY <2>3, SumType
  <2>7. Sum(h, m) = a /\ h[l] = b
    BY <1>4, <2>1, <2>6 DEF P
  <2>8. a + b = b + a
    OBVIOUS
  <2>9. Sum(h, m \cup {l}) = Sum(f, Parts(m \cup {l}))
    BY <2>2, <2>4, <2>5, <2>6, <2>7, <2>8
  <2>10. QED
    BY <2>9 DEF P
<1>5. L \in P
  BY <1>3, <1>4, MemberByMember
<1>6. Parts(L) = whole
  BY DEF Parts
<1>7. QED
  BY <1>5, <1>6 DEF P

(* A finite set of naturals that is not empty has a greatest member. *)
LEMMA FiniteMax ==
    ASSUME NEW S \in SUBSET Nat, IsFiniteSet(S), S # {}
    PROVE  Max(S) \in S /\ \A y \in S : y <= Max(S)
<1> DEFINE P == {s \in SUBSET S : s = {} \/ \E m \in s : \A y \in s : y <= m}
<1>1. {} \in P
  OBVIOUS
<1>2. ASSUME NEW s \in SUBSET S, NEW x \in S \ s, s \in P
      PROVE  s \cup {x} \in P
  <2>1. CASE s = {}
    BY <2>1
  <2>2. ASSUME NEW m \in s, \A y \in s : y <= m
        PROVE  s \cup {x} \in P
    <3>1. m \in Nat /\ x \in Nat /\ \A y \in s : y \in Nat
      OBVIOUS
    <3>2. CASE x <= m
      BY <2>2, <3>2
    <3>3. CASE m <= x
      <4>1. \A y \in s : y <= x
        BY <2>2, <3>1, <3>3
      <4>2. QED
        BY <3>1, <4>1
    <3>4. QED
      BY <3>1, <3>2, <3>3
  <2>3. QED
    BY <1>2, <2>1, <2>2
<1> HIDE DEF P
<1>3. S \in P
  BY <1>1, <1>2, MemberByMember
<1>4. \E m \in S : \A y \in S : y <= m
  BY <1>3 DEF P
<1>5. QED
  BY <1>4 DEF Max
=============================================================================
