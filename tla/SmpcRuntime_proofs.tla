-------------------------- MODULE SmpcRuntime_proofs --------------------------
(***************************************************************************)
(* The aggregate screening of three banks, for requests of any size: the   *)
(* overlap count is that of its definition (OverlapsAreShared), and the    *)
(* risk level is between those of the scores (LevelWithinScores).  Both    *)
(* are computed by folds.  A fold is a recursive function over the subsets *)
(* of what is left to do, and what it computes is shown by induction over  *)
(* these subsets, which a least counterexample gives.                      *)
(***************************************************************************)
EXTENDS SmpcRuntime, FiniteSetTheorems, WellFoundedInduction, TLAPS

(* Induction *)

\* A set of numbers has a least one: what every induction below comes down to.
LEMMA Least ==
    ASSUME NEW T \in SUBSET Nat, T # {}
    PROVE  \E m \in T : \A k \in T : m <= k
<1> DEFINE R == OpToRel(<, Nat)
<1>1. IsWellFoundedOn(R, Nat)
  BY NatLessThanWellFounded
<1>2. \A k, m \in Nat : k < m => <<k, m>> \in R
  BY DEF OpToRel
<1> HIDE DEF R
<1>3. PICK m \in T : \A k \in T : ~ (<<k, m>> \in R)
  BY <1>1, WFMin
<1>4. \A k \in T : ~ (k < m)
  BY <1>2, <1>3
<1> QED
  BY <1>3, <1>4

\* What holds of the empty set, and of a set whenever it holds of it without one
\* of its members, holds of every subset: induction over what a fold has done.
LEMMA SubsetInduction ==
    ASSUME NEW S, IsFiniteSet(S), NEW T \in SUBSET SUBSET S, {} \in T,
           \A s \in SUBSET S : s # {} =>
             \E x \in s : s \ {x} \in T => s \in T
    PROVE  \A s \in SUBSET S : s \in T
<1> DEFINE Bad == (SUBSET S) \ T
           Sizes == {Cardinality(s) : s \in Bad}
<1>1. SUFFICES ASSUME Bad # {} PROVE FALSE
  OBVIOUS
<1>2. \A s \in SUBSET S : IsFiniteSet(s) /\ Cardinality(s) \in Nat
  BY FS_Subset, FS_CardinalityType
<1>3. PICK m \in Sizes : \A k \in Sizes : m <= k
  <2>1. Sizes \in SUBSET Nat /\ Sizes # {}
    BY <1>1, <1>2
  <2> HIDE DEF Sizes
  <2> QED
    BY <2>1, Least
<1>4. PICK s \in Bad : Cardinality(s) = m
  BY <1>3
<1>5. PICK x \in s : s \ {x} \in T => s \in T
  BY <1>4
<1>6. s \ {x} \in Bad
  BY <1>4, <1>5
<1>7. Cardinality(s \ {x}) = Cardinality(s) - 1
  BY <1>2, <1>4, <1>5, FS_RemoveElement
<1>8. m <= Cardinality(s \ {x}) /\ m \in Nat
  BY <1>2, <1>3, <1>4, <1>6
<1> QED
  BY <1>4, <1>7, <1>8

(* What the folds compute *)

\* Three lists one after the other.
LEMMA Flatten ==
    ASSUME NEW s, Len(s) = 3
    PROVE  FlattenSeq(s) = (s[1] \o s[2]) \o s[3]
<1> DEFINE Is(f) == f = [i \in 1 .. 3 |->
                           IF i = 1 THEN s[i] ELSE f[i - 1] \o s[i]]
           g == [i \in 1 .. 3 |->
                   IF i = 1 THEN s[1] ELSE IF i = 2 THEN s[1] \o s[2]
                   ELSE (s[1] \o s[2]) \o s[3]]
           f0 == CHOOSE f : Is(f)
<1>1. FlattenSeq(s) = f0[3]
  BY DEF FlattenSeq
<1>2. Is(f0)
  <2>1. Is(g)
    OBVIOUS
  <2> HIDE DEF g
  <2> QED
    BY <2>1
<1> HIDE DEF f0
<1>3. \A i \in 1 .. 3 : i # 1 => f0[i] = f0[i - 1] \o s[i]
  BY <1>2
<1>4. f0[1] = s[1]
  BY <1>2
<1> HIDE DEF Is
<1>5. 2 \in 1 .. 3 /\ 3 \in 1 .. 3 /\ 2 # 1 /\ 3 # 1 /\ 2 - 1 = 1 /\ 3 - 1 = 2
  OBVIOUS
<1>6. f0[2] = f0[2 - 1] \o s[2] /\ f0[3] = f0[3 - 1] \o s[3]
  BY <1>3, <1>5
<1> QED
  BY <1>1, <1>4, <1>5, <1>6

\* How often a reference is in a bag.
Times(bag, e) == IF e \in DOMAIN bag THEN bag[e] ELSE 0

\* A bag with one mention more of each of these references.
MentionedIn(bag, refs) ==
    [e \in DOMAIN bag \union refs |->
       Times(bag, e) + (IF e \in refs THEN 1 ELSE 0)]

LEMMA OneMore ==
    ASSUME NEW D, NEW bag \in [D -> Nat], NEW s, NEW x \in s
    PROVE  MentionedIn(bag, s) =
             Bag!BagAdd(MentionedIn(bag, s \ {x}), x)
<1>1. DOMAIN bag = D /\ \A e \in D : bag[e] \in Nat
  OBVIOUS
<1>2. CASE x \in D
  <2>1. D \union (s \ {x}) = D \union s
    BY <1>2
  <2> QED
    BY <1>1, <1>2, <2>1 DEF MentionedIn, Times, Bag!BagAdd
<1>3. CASE x \notin D
  <2>1. (D \union (s \ {x})) \union {x} = D \union s
    OBVIOUS
  <2> QED
    BY <1>1, <1>3, <2>1 DEF MentionedIn, Times, Bag!BagAdd
<1> QED
  BY <1>2, <1>3

\* Whatever the order, the fold over a party's references adds one for each.
LEMMA Mentions ==
    ASSUME NEW D, NEW bag \in [D -> Nat], NEW refs, IsFiniteSet(refs)
    PROVE  Mention(bag, refs) = MentionedIn(bag, refs)
<1> DEFINE Some(s) == CHOOSE x \in s : TRUE
           Is(f) == f = [s \in SUBSET refs |->
                           IF s = {} THEN bag
                           ELSE Bag!BagAdd(f[s \ {Some(s)}], Some(s))]
           g == [s \in SUBSET refs |-> MentionedIn(bag, s)]
           f0 == CHOOSE f : Is(f)
<1>1. \A s \in SUBSET refs : s # {} => Some(s) \in s
  OBVIOUS
<1>2. Mention(bag, refs) = f0[refs]
  BY DEF Mention, FoldSet, MapThenFoldSet
<1>3. Is(g)
  <2>1. MentionedIn(bag, {}) = bag
    BY DEF MentionedIn, Times
  <2>2. ASSUME NEW s \in SUBSET refs, s # {}
        PROVE  g[s] = Bag!BagAdd(g[s \ {Some(s)}], Some(s))
    <3> HIDE DEF Some
    <3>1. s \ {Some(s)} \in SUBSET refs
      OBVIOUS
    <3> QED
      BY <1>1, <2>2, <3>1, OneMore
  <2> HIDE DEF Some
  <2> QED
    BY <2>1, <2>2
<1>4. Is(f0)
  <2> HIDE DEF Is
  <2> QED
    BY <1>3
<1> HIDE DEF f0
<1>5. \A s \in SUBSET refs : g[s] = f0[s]
  <2> DEFINE T == {s \in SUBSET refs : g[s] = f0[s]}
  <2>1. {} \in T /\ T \in SUBSET SUBSET refs
    BY <1>3, <1>4
  <2>2. ASSUME NEW s \in SUBSET refs, s # {}
        PROVE  \E x \in s : s \ {x} \in T => s \in T
    <3>1. s \ {Some(s)} \in SUBSET refs
      OBVIOUS
    <3> HIDE DEF Some
    <3>2. g[s] = Bag!BagAdd(g[s \ {Some(s)}], Some(s))
      BY <1>3, <2>2
    <3>3. f0[s] = Bag!BagAdd(f0[s \ {Some(s)}], Some(s))
      BY <1>4, <2>2
    <3> HIDE DEF g
    <3> QED
      BY <1>1, <2>2, <3>2, <3>3
  <2>3. \A s \in SUBSET refs : s \in T
    <3> HIDE DEF T
    <3> QED
      BY <2>1, <2>2, SubsetInduction
  <2> QED
    BY <2>3
<1> QED
  BY <1>2, <1>5

\* FoldLeft takes the last place first.
LEMMA MaxIn ==
    ASSUME NEW n \in Nat, NEW s \in SUBSET (0 .. n), s # {}
    PROVE  Max(s) \in s /\ \A k \in s : k <= Max(s)
<1> DEFINE Down == {n - k : k \in s}
<1>1. Down \in SUBSET Nat /\ Down # {}
  <2>1. \A k \in s : n - k \in Nat
    OBVIOUS
  <2>2. PICK k \in s : TRUE
    OBVIOUS
  <2>3. n - k \in Down
    OBVIOUS
  <2> QED
    BY <2>1, <2>3
<1>2. PICK d \in Down : \A k \in Down : d <= k
  <2> HIDE DEF Down
  <2> QED
    BY <1>1, Least
<1>3. PICK m \in s : d = n - m
  BY <1>2
<1>4. \A k \in s : m >= k
  <2> TAKE k \in s
  <2>1. n - m <= n - k
    BY <1>2, <1>3
  <2> QED
    BY <1>3, <2>1
<1>5. \E m0 \in s : \A k \in s : m0 >= k
  BY <1>4
<1> DEFINE max == Max(s)
<1>6. max \in s /\ \A k \in s : max >= k
  BY <1>5 DEF Max
<1> QED
  BY <1>6

\* The references of these parties, and how many of the parties have each.
Known(parties, s) == UNION {Refs(parties[i]) : i \in s}

Tally(parties, s) ==
    [e \in Known(parties, s) |->
       Cardinality({i \in s : e \in Refs(parties[i])})]

LEMMA TallyType ==
    ASSUME NEW parties, NEW s, IsFiniteSet(s)
    PROVE  Tally(parties, s) \in [Known(parties, s) -> Nat]
<1>1. \A e : Cardinality({i \in s : e \in Refs(parties[i])}) \in Nat
  <2> TAKE e
  <2>1. {i \in s : e \in Refs(parties[i])} \subseteq s
    OBVIOUS
  <2> QED
    BY <2>1, FS_Subset, FS_CardinalityType
<1> QED
  BY <1>1 DEF Tally

\* One party more is one mention more of each of its references.
LEMMA OneParty ==
    ASSUME NEW parties, NEW s, IsFiniteSet(s), NEW m \in s,
           IsFiniteSet(Refs(parties[m]))
    PROVE  Tally(parties, s) =
             Mention(Tally(parties, s \ {m}), Refs(parties[m]))
<1> DEFINE less == s \ {m}
           bag  == Tally(parties, less)
           refs == Refs(parties[m])
           In(e, t) == {i \in t : e \in Refs(parties[i])}
<1>1. IsFiniteSet(less)
  BY FS_Subset
<1>2. Mention(bag, refs) = MentionedIn(bag, refs)
  BY <1>1, TallyType, Mentions
<1>3. DOMAIN bag = Known(parties, less)
  BY DEF Tally
<1>4. Known(parties, s) = DOMAIN bag \union refs
  BY <1>3 DEF Known
<1>5. ASSUME NEW e
      PROVE  Cardinality(In(e, s)) =
               Times(bag, e) + (IF e \in refs THEN 1 ELSE 0)
  <2>1. IsFiniteSet(In(e, less)) /\ m \notin In(e, less)
        /\ Cardinality(In(e, less)) \in Nat
    <3>1. In(e, less) \subseteq less
      OBVIOUS
    <3> QED
      BY <1>1, <3>1, FS_Subset, FS_CardinalityType
  <2>2. Times(bag, e) = Cardinality(In(e, less))
    <3>1. CASE e \in DOMAIN bag
      BY <1>3, <3>1 DEF Times, Tally
    <3>2. CASE e \notin DOMAIN bag
      <4>1. In(e, less) = {}
        BY <1>3, <3>2 DEF Known
      <4> QED
        BY <3>2, <4>1, FS_EmptySet DEF Times
    <3> QED
      BY <3>1, <3>2
  <2>3. CASE e \in refs
    <3>1. In(e, s) = In(e, less) \union {m}
      BY <2>3
    <3> HIDE DEF In, bag
    <3> QED
      BY <2>1, <2>2, <2>3, <3>1, FS_AddElement
  <2>4. CASE e \notin refs
    <3>1. In(e, s) = In(e, less)
      BY <2>4
    <3> HIDE DEF In, bag
    <3> QED
      BY <2>1, <2>2, <2>4, <3>1
  <2> QED
    BY <2>3, <2>4
<1>6. Tally(parties, s) = MentionedIn(bag, refs)
  <2>1. Tally(parties, s) = [e \in Known(parties, s) |-> Cardinality(In(e, s))]
    BY DEF Tally
  <2> HIDE DEF bag, refs, In
  <2> QED
    BY <1>4, <1>5, <2>1 DEF MentionedIn
<1> QED
  BY <1>2, <1>6

\* Seen counts parties: a reference that is in both lists of one counts once.
LEMMA SeenTallied ==
    ASSUME NEW n \in Nat, NEW parties, DOMAIN parties = 1 .. n,
           \A i \in 1 .. n : IsFiniteSet(Refs(parties[i]))
    PROVE  Seen(parties) = Tally(parties, 1 .. n)
<1> DEFINE S == 1 .. n
           Is(f) == f = [s \in SUBSET S |->
                           IF s = {} THEN <<>>
                           ELSE Mention(f[s \ {Max(s)}],
                                        Refs(parties[Max(s)]))]
           g == [s \in SUBSET S |-> Tally(parties, s)]
           f0 == CHOOSE f : Is(f)
<1>1. \A s \in SUBSET S : s # {} => Max(s) \in s
  <2>1. SUBSET S \subseteq SUBSET (0 .. n)
    OBVIOUS
  <2> QED
    BY <2>1, MaxIn
<1>2. \A s \in SUBSET S : IsFiniteSet(s)
  <2>1. 1 \in Int /\ n \in Int
    OBVIOUS
  <2>2. IsFiniteSet(S)
    BY <2>1, FS_Interval
  <2> HIDE DEF S
  <2> QED
    BY <2>2, FS_Subset
<1>3. Seen(parties) = f0[S]
  BY DEF Seen, FoldLeft, MapThenFoldSet
<1>4. Is(g)
  <2>1. Tally(parties, {}) = <<>>
    BY DEF Tally, Known
  <2>2. ASSUME NEW s \in SUBSET S, s # {}
        PROVE  g[s] = Mention(g[s \ {Max(s)}], Refs(parties[Max(s)]))
    <3>1. s \ {Max(s)} \in SUBSET S
      OBVIOUS
    <3>2. Max(s) \in s /\ IsFiniteSet(s) /\ IsFiniteSet(Refs(parties[Max(s)]))
      BY <1>1, <1>2, <2>2
    <3>3. Tally(parties, s)
            = Mention(Tally(parties, s \ {Max(s)}), Refs(parties[Max(s)]))
      BY <3>2, OneParty
    <3> QED
      BY <3>1, <3>3
  <2> QED
    BY <2>1, <2>2
<1>5. Is(f0)
  <2> HIDE DEF Is
  <2> QED
    BY <1>4
<1> HIDE DEF f0
<1>6. \A s \in SUBSET S : g[s] = f0[s]
  <2> DEFINE T == {s \in SUBSET S : g[s] = f0[s]}
  <2>1. {} \in T /\ T \in SUBSET SUBSET S
    BY <1>4, <1>5
  <2>2. ASSUME NEW s \in SUBSET S, s # {}
        PROVE  \E x \in s : s \ {x} \in T => s \in T
    <3>1. s \ {Max(s)} \in SUBSET S
      OBVIOUS
    <3>2. g[s] = Mention(g[s \ {Max(s)}], Refs(parties[Max(s)]))
      BY <1>4, <2>2
    <3>3. f0[s] = Mention(f0[s \ {Max(s)}], Refs(parties[Max(s)]))
      BY <1>5, <2>2
    <3> HIDE DEF g
    <3> QED
      BY <1>1, <2>2, <3>2, <3>3
  <2>3. \A s \in SUBSET S : s \in T
    <3> HIDE DEF T, S
    <3> QED
      BY <1>2, <2>1, <2>2, SubsetInduction
  <2> QED
    BY <2>3
<1> QED
  BY <1>3, <1>6

(* Overlaps *)

LEMMA Several ==
    ASSUME NEW A, IsFiniteSet(A)
    PROVE  Cardinality(A) > 1 <=> \E i, j \in A : i # j
<1>1. ASSUME NEW i \in A, NEW j \in A, i # j
      PROVE  Cardinality(A) > 1
  <2>1. /\ Cardinality(A \ {i}) = Cardinality(A) - 1
        /\ Cardinality(A) \in Nat /\ IsFiniteSet(A \ {i})
    BY FS_RemoveElement, FS_CardinalityType, FS_Subset
  <2>2. Cardinality(A \ {i}) # 0
    BY <1>1, <2>1, FS_EmptySet
  <2>3. Cardinality(A \ {i}) \in Nat
    BY <2>1, FS_CardinalityType
  <2> QED
    BY <2>1, <2>2, <2>3
<1>2. ASSUME Cardinality(A) > 1, \A i, j \in A : i = j
      PROVE  FALSE
  <2>1. A # {}
    BY <1>2, FS_EmptySet
  <2>2. PICK i \in A : A = {i}
    BY <1>2, <2>1
  <2> QED
    BY <1>2, <2>2, FS_Singleton
<1> QED
  BY <1>1, <1>2

\* What is counted more than once is what two different parties have.
LEMMA OverlapsCounted ==
    ASSUME NEW ps, DOMAIN ps = 1 .. 3,
           \A i \in 1 .. 3 : IsFiniteSet(Refs(ps[i]))
    PROVE  CrossBankOverlaps(ps) =
             Cardinality({ref \in UNION {Refs(ps[i]) : i \in 1 .. 3} :
                            \E i, j \in 1 .. 3 :
                              /\ i # j
                              /\ ref \in Refs(ps[i]) \intersect Refs(ps[j])})
<1> DEFINE In(e) == {i \in 1 .. 3 : e \in Refs(ps[i])}
<1>1. Seen(ps) = Tally(ps, 1 .. 3)
  BY SeenTallied
<1>2. \A e : Cardinality(In(e)) > 1 <=> \E i, j \in In(e) : i # j
  <2> TAKE e
  <2>1. 1 \in Int /\ 3 \in Int /\ In(e) \subseteq 1 .. 3
    OBVIOUS
  <2>2. IsFiniteSet(In(e))
    BY <2>1, FS_Interval, FS_Subset
  <2> HIDE DEF In
  <2> QED
    BY <2>2, Several
<1>3. {ref \in DOMAIN Seen(ps) : Seen(ps)[ref] > 1}
        = {ref \in Known(ps, 1 .. 3) : Cardinality(In(ref)) > 1}
  BY <1>1 DEF Tally
<1>4. {ref \in Known(ps, 1 .. 3) : Cardinality(In(ref)) > 1}
        = {ref \in UNION {Refs(ps[i]) : i \in 1 .. 3} :
             \E i, j \in 1 .. 3 :
               i # j /\ ref \in Refs(ps[i]) \intersect Refs(ps[j])}
  <2>1. \A e : (\E i, j \in In(e) : i # j) <=>
                 \E i, j \in 1 .. 3 :
                   i # j /\ e \in Refs(ps[i]) \intersect Refs(ps[j])
    OBVIOUS
  <2> HIDE DEF In
  <2> QED
    BY <1>2, <2>1 DEF Known
<1> QED
  BY <1>3, <1>4 DEF CrossBankOverlaps

(* Totals *)

LEMMA MinIn ==
    ASSUME NEW s \in SUBSET Nat, s # {}
    PROVE  Min(s) \in s /\ \A k \in s : Min(s) <= k
<1> DEFINE min == Min(s)
<1>1. \E m \in s : \A k \in s : m <= k
  BY Least
<1>2. min \in s /\ \A k \in s : min <= k
  BY <1>1 DEF Min
<1> QED
  BY <1>2

\* saturating_add: the sum, or the bound.
LEMMA AddIs ==
    ASSUME NEW a \in Nat, NEW b \in Nat
    PROVE  /\ Add(a, b) \in Nat
           /\ Add(a, b) = IF a + b <= MaxU32 THEN a + b ELSE MaxU32
<1> DEFINE s == {a + b, MaxU32}
<1>1. MaxU32 \in Nat
  BY RuntimeAssumption
<1>2. Min(s) \in s /\ \A k \in s : Min(s) <= k
  <2>1. s \in SUBSET Nat /\ s # {}
    BY <1>1
  <2> HIDE DEF s
  <2> QED
    BY <2>1, MinIn
<1> DEFINE min == Min(s)
<1>3. (min = a + b \/ min = MaxU32) /\ min <= a + b /\ min <= MaxU32
  BY <1>2
<1>4. Add(a, b) = min
  BY DEF Add
<1> HIDE DEF min
<1> QED
  BY <1>1, <1>3, <1>4

\* The total of the scores at these places, as the fold adds them up.
IsTotal(f, scores, n) ==
    f = [s \in SUBSET (1 .. n) |->
           IF s = {} THEN 0 ELSE Add(f[s \ {Max(s)}], scores[Max(s)])]

\* There is a total of one score more ...
LEMMA TotalLonger ==
    ASSUME NEW n \in Nat, NEW scores, NEW f, IsTotal(f, scores, n)
    PROVE  \E g : IsTotal(g, scores, n + 1)
<1> DEFINE m == n + 1
           g == [s \in SUBSET (1 .. m) |->
                   IF m \in s THEN Add(f[s \ {m}], scores[m]) ELSE f[s]]
<1>1. m \in Nat /\ m \notin 1 .. n
      /\ \A s \in SUBSET (1 .. m) : s \ {m} \in SUBSET (1 .. n)
  OBVIOUS
<1>2. \A s \in SUBSET (1 .. n) : s \in SUBSET (1 .. m) /\ m \notin s
  OBVIOUS
<1>3. ASSUME NEW s \in SUBSET (1 .. m), s # {}
      PROVE  Max(s) \in s /\ \A k \in s : k <= Max(s)
  <2>1. s \in SUBSET (0 .. m)
    OBVIOUS
  <2> HIDE DEF m
  <2> QED
    BY <1>1, <1>3, <2>1, MaxIn
<1>4. ASSUME NEW s \in SUBSET (1 .. m), m \in s
      PROVE  Max(s) = m
  <2> DEFINE max == Max(s)
  <2>1. max \in s /\ m <= max
    BY <1>3, <1>4
  <2>2. max \in 1 .. m
    BY <2>1
  <2> HIDE DEF max
  <2> QED
    BY <2>1, <2>2 DEF max
<1>5. ASSUME NEW s \in SUBSET (1 .. m)
      PROVE  g[s] = IF s = {} THEN 0
                    ELSE Add(g[s \ {Max(s)}], scores[Max(s)])
  <2>1. CASE m \in s
    <3>1. g[s] = Add(f[s \ {m}], scores[m])
      BY <2>1
    <3>2. g[s \ {m}] = f[s \ {m}]
      BY <1>1, <1>2
    <3> HIDE DEF g
    <3> QED
      BY <1>4, <2>1, <3>1, <3>2
  <2>2. CASE m \notin s /\ s # {}
    <3>1. s \in SUBSET (1 .. n) /\ s \ {Max(s)} \in SUBSET (1 .. n)
      BY <1>1, <2>2
    <3>2. f[s] = Add(f[s \ {Max(s)}], scores[Max(s)])
      BY <2>2, <3>1 DEF IsTotal
    <3>3. g[s] = f[s] /\ g[s \ {Max(s)}] = f[s \ {Max(s)}]
      BY <1>2, <3>1
    <3> HIDE DEF g
    <3> QED
      BY <2>2, <3>2, <3>3
  <2>3. CASE s = {}
    <3>1. f[{}] = 0
      BY DEF IsTotal
    <3> QED
      BY <2>3, <3>1
  <2> QED
    BY <2>1, <2>2, <2>3
<1>6. IsTotal(g, scores, m)
  BY <1>5 DEF IsTotal
<1> QED
  BY <1>6

\* ... and so of any number: the fold's recursion defines something.
LEMMA TotalExists ==
    ASSUME NEW n \in Nat, NEW scores
    PROVE  \E f : IsTotal(f, scores, n)
<1> DEFINE Missing == {k \in Nat : ~ \E f : IsTotal(f, scores, k)}
<1>1. SUFFICES ASSUME Missing # {} PROVE FALSE
  OBVIOUS
<1>2. PICK k \in Missing : \A j \in Missing : k <= j
  <2>1. Missing \in SUBSET Nat
    OBVIOUS
  <2> HIDE DEF Missing
  <2> QED
    BY <1>1, <2>1, Least
<1>3. k # 0
  <2> DEFINE g == [s \in SUBSET (1 .. 0) |-> 0]
  <2>1. SUBSET (1 .. 0) = {{}}
    OBVIOUS
  <2>2. IsTotal(g, scores, 0)
    BY <2>1 DEF IsTotal
  <2> QED
    BY <2>2
<1>4. k - 1 \in Nat /\ k - 1 \notin Missing
  BY <1>2, <1>3
<1>5. PICK f : IsTotal(f, scores, k - 1)
  BY <1>4
<1>6. \E g : IsTotal(g, scores, (k - 1) + 1)
  BY <1>4, <1>5, TotalLonger
<1> QED
  BY <1>2, <1>6

\* A total lies between as many times the lowest and as many times the highest
\* score, unless it has met the bound.
LEMMA TotalBounds ==
    ASSUME NEW n \in Nat, NEW scores, NEW f, IsTotal(f, scores, n),
           NEW lo \in Nat, NEW hi \in Nat,
           \A i \in 1 .. n : scores[i] \in lo .. hi
    PROVE  LET total == f[1 .. n] IN
           /\ total \in Nat /\ total <= hi * n
           /\ total >= lo * n \/ total = MaxU32
<1> DEFINE Good(t, c) == /\ t \in Nat /\ t <= hi * c
                         /\ t >= lo * c \/ t = MaxU32
           T == {s \in SUBSET (1 .. n) : Good(f[s], Cardinality(s))}
<1>1. \A s \in SUBSET (1 .. n) : IsFiniteSet(s) /\ Cardinality(s) \in Nat
  <2>1. 1 \in Int /\ n \in Int
    OBVIOUS
  <2> QED
    BY <2>1, FS_Interval, FS_Subset, FS_CardinalityType
<1>2. {} \in T
  <2>1. f[{}] = 0 /\ Cardinality({}) = 0
    BY FS_EmptySet DEF IsTotal
  <2>2. hi * 0 = 0 /\ lo * 0 = 0
    OBVIOUS
  <2> QED
    BY <2>1, <2>2
<1>3. ASSUME NEW s \in SUBSET (1 .. n), s # {}
      PROVE  \E x \in s : s \ {x} \in T => s \in T
  <2> DEFINE x == Max(s)
             c == Cardinality(s \ {x})
             t == f[s \ {x}]
  <2>1. x \in s
    <3>1. s \in SUBSET (0 .. n)
      OBVIOUS
    <3> QED
      BY <1>3, <3>1, MaxIn
  <2>2. Cardinality(s) = c + 1 /\ c \in Nat
    <3> HIDE DEF x
    <3>1. Cardinality(s \ {x}) = Cardinality(s) - 1
          /\ s \ {x} \in SUBSET (1 .. n)
      BY <1>1, <2>1, FS_RemoveElement
    <3> QED
      BY <1>1, <3>1
  <2>3. f[s] = Add(t, scores[x])
    BY <1>3 DEF IsTotal
  <2>4. scores[x] \in Nat /\ lo <= scores[x] /\ scores[x] <= hi
    <3> HIDE DEF x
    <3>1. scores[x] \in lo .. hi
      BY <2>1
    <3> QED
      BY <3>1
  <2>5. ASSUME Good(t, c)
        PROVE  Good(f[s], c + 1)
    <3> DEFINE v == scores[x]
    <3>1. /\ f[s] \in Nat /\ MaxU32 \in Nat
          /\ f[s] = IF t + v <= MaxU32 THEN t + v ELSE MaxU32
      BY <2>3, <2>4, <2>5, AddIs, RuntimeAssumption
    <3>2. hi * (c + 1) = hi * c + hi /\ lo * (c + 1) = lo * c + lo
      BY <2>2
    <3> DEFINE h == hi * c
               l == lo * c
    <3>3. h \in Nat /\ l \in Nat /\ t \in Nat /\ t <= h
          /\ (t >= l \/ t = MaxU32)
      BY <2>2, <2>5
    <3>4. v \in Nat /\ lo <= v /\ v <= hi
      BY <2>4
    <3> HIDE DEF h, l, t, v
    <3>5. f[s] <= h + hi /\ (f[s] >= l + lo \/ f[s] = MaxU32)
      BY <3>1, <3>3, <3>4
    <3> QED
      BY <3>1, <3>2, <3>5 DEF h, l
  <2> HIDE DEF c, t, Good, x
  <2>6. s \ {x} \in T => Good(t, c)
    BY DEF c, t
  <2>7. Good(f[s], c + 1) => s \in T
    BY <2>2
  <2> QED
    BY <2>1, <2>5, <2>6, <2>7
<1>4. \A s \in SUBSET (1 .. n) : s \in T
  <2>1. IsFiniteSet(1 .. n) /\ T \in SUBSET SUBSET (1 .. n)
    BY <1>1
  <2> HIDE DEF T
  <2> QED
    BY <1>2, <1>3, <2>1, SubsetInduction
<1>5. Cardinality(1 .. n) = n
  <2>1. 1 \in Int /\ n \in Int
    OBVIOUS
  <2>2. Cardinality(1 .. n) = IF 1 > n THEN 0 ELSE n - 1 + 1
    BY <2>1, FS_Interval
  <2> QED
    BY <2>2
<1> QED
  BY <1>4, <1>5

\* The mean is between the scores, or high because the total met the bound.
LEMMA Mean ==
    ASSUME NEW n \in Nat \ {0}, NEW t \in Nat, NEW lo \in Nat, NEW hi \in Nat,
           t <= hi * n, t >= lo * n \/ t >= 70 * n
    PROVE  LET q == t \div n IN
           q \in Nat /\ q <= hi /\ (q >= lo \/ q >= 70)
<1> DEFINE q == t \div n
<1>1. q \in Nat /\ q * n <= t /\ t < (q + 1) * n
  OBVIOUS
<1> HIDE DEF q
<1>2. q <= hi
  <2>1. SUFFICES ASSUME q >= hi + 1 PROVE FALSE
    BY <1>1
  <2>2. q * n >= (hi + 1) * n
    BY <1>1, <2>1
  <2> QED
    BY <1>1, <2>2
<1>3. ASSUME NEW k \in Nat, t >= k * n
      PROVE  q >= k
  <2>1. SUFFICES ASSUME k >= q + 1 PROVE FALSE
    BY <1>1
  <2>2. k * n >= (q + 1) * n
    BY <1>1, <2>1
  <2> QED
    BY <1>1, <1>3, <2>2
<1> QED
  BY <1>1, <1>2, <1>3 DEF q

\* The aggregate of some scores is not above the highest, and not below the
\* lowest unless it is high.
LEMMA AggregateBetween ==
    ASSUME NEW parties, NEW n \in Nat \ {0}, NEW lo \in Nat, NEW hi \in Nat,
           Scores(parties) \in Seq(Nat), Len(Scores(parties)) = n,
           \A i \in 1 .. n : Scores(parties)[i] \in lo .. hi,
           70 * n <= MaxU32
    PROVE  LET q == Aggregate(parties) IN
           q \in Nat /\ q <= hi /\ (q >= lo \/ q >= 70)
<1> DEFINE scores == Scores(parties)
           f == CHOOSE f : IsTotal(f, scores, n)
           total == f[1 .. n]
<1>1. DOMAIN scores = 1 .. n /\ scores # <<>>
  OBVIOUS
<1>2. IsTotal(f, scores, n)
  <2> HIDE DEF scores
  <2> QED
    BY TotalExists
<1>3. FoldLeft(Add, 0, scores) = total
  <2> HIDE DEF scores
  <2> QED
    BY <1>1 DEF FoldLeft, MapThenFoldSet, IsTotal
<1>4. Aggregate(parties) = total \div n
  BY <1>1, <1>3 DEF Aggregate
<1> HIDE DEF f
<1>5. total \in Nat /\ total <= hi * n /\ (total >= lo * n \/ total >= 70 * n)
  <2>1. total \in Nat /\ total <= hi * n
        /\ (total >= lo * n \/ total = MaxU32)
    <3> HIDE DEF scores
    <3>1. \A i \in 1 .. n : scores[i] \in lo .. hi
      BY DEF scores
    <3> QED
      BY <1>2, <3>1, TotalBounds
  <2> QED
    BY <2>1
<1> HIDE DEF total
<1> QED
  BY <1>4, <1>5, Mean

\* The scores of a valid request: some, and not so many that the bound, divided
\* by their number, is less than high.
LEMMA RequestScores ==
    ASSUME NEW ps \in [1 .. 3 -> Parties], 3 \in Counts, Valid(ps)
    PROVE  /\ Scores(ps) \in Seq(0 .. MaxU32)
           /\ Len(Scores(ps)) > 0 /\ 70 * Len(Scores(ps)) <= MaxU32
<1> DEFINE X == 0 .. MaxU32
           a == ps[1].scores
           b == ps[2].scores
           c == ps[3].scores
<1>1. /\ ps[1] \in Parties /\ ps[2] \in Parties /\ ps[3] \in Parties
      /\ DOMAIN ps = 1 .. 3
  OBVIOUS
<1>2. ASSUME NEW p \in Parties
      PROVE  p.scores \in Seq(X) /\ 70 * (3 * Len(p.scores)) <= MaxU32
  BY RuntimeAssumption
<1>3. a \in Seq(X) /\ b \in Seq(X) /\ c \in Seq(X)
  BY <1>1, <1>2
<1>4. a # <<>>
  BY <1>1 DEF Valid
<1>5. Scores(ps) = (a \o b) \o c
  <2> DEFINE lists == [i \in DOMAIN ps |-> ps[i].scores]
  <2>1. lists[1] = a /\ lists[2] = b /\ lists[3] = c
    BY <1>1
  <2>2. Len(lists) = 3
    BY <1>1
  <2> HIDE DEF lists, a, b, c
  <2>3. FlattenSeq(lists) = (lists[1] \o lists[2]) \o lists[3]
    BY <2>2, Flatten
  <2> QED
    BY <2>1, <2>3 DEF Scores, lists
<1>6. MaxU32 \in Nat
  BY RuntimeAssumption
<1>7. /\ 70 * (3 * Len(a)) <= MaxU32 /\ 70 * (3 * Len(b)) <= MaxU32
      /\ 70 * (3 * Len(c)) <= MaxU32
  BY <1>1, <1>2
<1> HIDE DEF a, b, c, X
<1>8. /\ (a \o b) \o c \in Seq(X)
      /\ Len((a \o b) \o c) = Len(a) + Len(b) + Len(c)
      /\ Len(a) \in Nat /\ Len(b) \in Nat /\ Len(c) \in Nat /\ Len(a) > 0
  BY <1>3, <1>4
<1> QED
  BY <1>5, <1>6, <1>7, <1>8 DEF X

\* Higher scores have higher levels, and there is none above 70's.
LEMMA ClassifyMonotone ==
    ASSUME NEW x \in Nat, NEW y \in Nat, x <= y \/ y >= 70
    PROVE  LevelRank[ClassifyRisk(x)] <= LevelRank[ClassifyRisk(y)]
<1>1. /\ LevelRank["low"] = 0 /\ LevelRank["medium"] = 1
      /\ LevelRank["high"] = 2
  BY DEF LevelRank
<1>2. ASSUME NEW z \in Nat
      PROVE  ClassifyRisk(z) = IF z <= 39 THEN "low"
                               ELSE IF z <= 69 THEN "medium" ELSE "high"
  BY DEF ClassifyRisk
<1> QED
  BY <1>1, <1>2

(* Requests *)

\* The answer that waits to be fetched is the answer to the request that waits.
RequestInv ==
    /\ request = NoRequest => answer = NoAnswer
    /\ \/ request = NoRequest
       \/ request \in ThreeBankRequests \union ScreenRequests
    /\ request.kind = "three_bank" =>
         \/ answer \in {NoAnswer, Refused}
         \/ Valid(request.parties) /\ answer = ScreenedParties(request.parties)

LEMMA RequestStep ==
    ASSUME RequestInv, [Next]_vars
    PROVE  RequestInv'
<1>1. CASE Send
  BY <1>1 DEF Send, RequestInv
<1>2. CASE ThreeBankScreen
  BY <1>2 DEF ThreeBankScreen, RequestInv, NoRequest
<1>3. CASE CompatibilityScreening
  BY <1>3 DEF CompatibilityScreening, RequestInv, NoRequest
<1>4. CASE Done
  BY <1>4 DEF Done, RequestInv, NoRequest
<1>5. CASE UNCHANGED vars
  BY <1>5 DEF vars, RequestInv
<1> QED
  BY <1>1, <1>2, <1>3, <1>4, <1>5 DEF Next

LEMMA RequestInvariant == Spec => []RequestInv
<1>1. Init => RequestInv
  BY DEF Init, RequestInv, NoRequest
<1> QED
  BY <1>1, RequestStep, PTL DEF Spec

\* A request that has been screened is a valid one of three parties.
LEMMA ScreenedRequest ==
    ASSUME RequestInv, Screened
    PROVE  LET ps == request.parties IN
           /\ ps \in [1 .. 3 -> Parties] /\ 3 \in Counts /\ Valid(ps)
           /\ \A i \in 1 .. 3 : IsFiniteSet(Refs(ps[i]))
           /\ answer = ScreenedParties(ps)
<1> DEFINE ps == request.parties
<1>1. Valid(ps) /\ answer = ScreenedParties(ps)
  BY DEF RequestInv, Screened
<1>2. PICK n \in Counts : ps \in [1 .. n -> Parties]
  <2>1. request \in ThreeBankRequests
    BY DEF RequestInv, Screened, NoRequest, ScreenRequests
  <2> QED
    BY <2>1 DEF ThreeBankRequests
<1>3. n = 3
  <2>1. n \in Nat
    BY RuntimeAssumption
  <2>2. Len(ps) = n
    BY <1>2, <2>1
  <2> QED
    BY <1>1, <2>2 DEF Valid
<1>4. ASSUME NEW i \in 1 .. 3
      PROVE  IsFiniteSet(Refs(ps[i]))
  <2>1. ps[i] \in Parties
    BY <1>2, <1>3
  <2>2. IsFiniteSet(ps[i].customers) /\ IsFiniteSet(ps[i].counterparties)
    BY <2>1, RuntimeAssumption
  <2> QED
    BY <2>2, FS_Union DEF Refs
<1> QED
  BY <1>1, <1>2, <1>3, <1>4

\* The overlap count that three banks are told is the number of references that
\* two of them know, for lists of any length and any number of references.
THEOREM OverlapsDefined == Spec => []OverlapsAreShared
<1>1. ASSUME RequestInv
      PROVE  OverlapsAreShared
  <2> DEFINE ps == request.parties
  <2>1. SUFFICES ASSUME Screened
        PROVE  answer.overlaps = CrossBankOverlaps(ps)
    <3>1. ASSUME Screened
          PROVE  /\ DOMAIN ps = 1 .. 3
                 /\ \A i \in 1 .. 3 : IsFiniteSet(Refs(ps[i]))
      BY <1>1, <3>1, ScreenedRequest
    <3> QED
      BY <3>1, OverlapsCounted DEF OverlapsAreShared
  <2>2. answer = ScreenedParties(ps)
    BY <1>1, <2>1, ScreenedRequest
  <2> QED
    BY <2>2 DEF ScreenedParties
<1> QED
  BY <1>1, RequestInvariant, PTL

\* The risk level is between those of the lowest and the highest score, however
\* many scores there are and wherever the addition saturates.
THEOREM LevelsWithin == Spec => []LevelWithinScores
<1>1. ASSUME RequestInv, Screened
      PROVE  LET all == Scores(request.parties)
                 scores == {all[i] : i \in DOMAIN all}
             IN
             /\ LevelRank[ClassifyRisk(Min(scores))] <= LevelRank[answer.level]
             /\ LevelRank[answer.level] <= LevelRank[ClassifyRisk(Max(scores))]
             /\ Min(scores) >= 70 =>
                  answer.status = "screened_watchlist_attention"
  <2> DEFINE all == Scores(request.parties)
             scores == {all[i] : i \in DOMAIN all}
             n == Len(all)
             lo == Min(scores)
             hi == Max(scores)
             mean == Aggregate(request.parties)
  <2>1. answer = ScreenedParties(request.parties)
    BY <1>1, ScreenedRequest
  <2>2. all \in Seq(0 .. MaxU32) /\ n > 0 /\ 70 * n <= MaxU32
    BY <1>1, ScreenedRequest, RequestScores
  <2> HIDE DEF all
  <2>3. /\ n \in Nat \ {0} /\ DOMAIN all = 1 .. n /\ all \in Seq(Nat)
        /\ scores \in SUBSET (0 .. MaxU32) /\ scores # {}
        /\ \A i \in 1 .. n : all[i] \in scores
    <3>1. /\ n \in Nat \ {0} /\ DOMAIN all = 1 .. n
          /\ \A i \in 1 .. n : all[i] \in 0 .. MaxU32
      <4>1. n \in Nat /\ DOMAIN all = 1 .. n
        BY <2>2
      <4>2. \A i \in DOMAIN all : all[i] \in 0 .. MaxU32
        <5> DEFINE U == 0 .. MaxU32
        <5>1. all \in Seq(U)
          BY <2>2
        <5> HIDE DEF U
        <5>2. \A i \in DOMAIN all : all[i] \in U
          BY <5>1
        <5> QED
          BY <5>2 DEF U
      <4> HIDE DEF n
      <4> QED
        BY <2>2, <4>1, <4>2
    <3>2. 1 \in 1 .. n
      BY <3>1
    <3>3. all \in Seq(Nat)
      BY <2>2, <3>1
    <3> QED
      BY <3>1, <3>2, <3>3
  <2> HIDE DEF n, scores
  <2>4. MaxU32 \in Nat
    BY RuntimeAssumption
  <2>5. lo \in scores /\ \A k \in scores : lo <= k
    <3>1. scores \in SUBSET Nat
      BY <2>3
    <3> QED
      BY <2>3, <3>1, MinIn
  <2>6. hi \in scores /\ \A k \in scores : k <= hi
    BY <2>3, <2>4, MaxIn
  <2> HIDE DEF lo, hi
  <2>7. lo \in Nat /\ hi \in Nat /\ \A i \in 1 .. n : all[i] \in lo .. hi
    BY <2>3, <2>5, <2>6
  <2>8. mean \in Nat /\ mean <= hi /\ (mean >= lo \/ mean >= 70)
    BY <2>2, <2>3, <2>7, AggregateBetween DEF all, n
  <2>9. /\ answer.level = ClassifyRisk(mean)
        /\ mean >= 70 => answer.status = "screened_watchlist_attention"
    BY <2>1 DEF ScreenedParties
  <2> HIDE DEF mean
  <2>10. /\ LevelRank[ClassifyRisk(lo)] <= LevelRank[answer.level]
         /\ LevelRank[answer.level] <= LevelRank[ClassifyRisk(hi)]
         /\ lo >= 70 => answer.status = "screened_watchlist_attention"
    BY <2>7, <2>8, <2>9, ClassifyMonotone
  <2> QED
    BY <2>10 DEF lo, hi, scores, all
<1>2. RequestInv => LevelWithinScores
  BY <1>1 DEF LevelWithinScores
<1> QED
  BY <1>2, RequestInvariant, PTL

===============================================================================
