--------------------------- MODULE LruCache_proofs ---------------------------
(***************************************************************************)
(* Proofs about LruCache, for any number of threads and keys, any costs    *)
(* and any capacity.                                                       *)
(***************************************************************************)
EXTENDS LruCache, SequenceTheorems, FiniteSetTheorems, WellFoundedInduction, TLAPS

\* No element occurs twice in s; s is ordered by the relation R.
NoDuplicates(s) == \A i, j \in DOMAIN s : s[i] = s[j] => i = j
Ordered(s, R) == \A i, j \in DOMAIN s : i < j => <<s[i], s[j]>> \in R

-----------------------------------------------------------------------------
(* Lemmas about the three list operations: erase, push_back, pop_front.    *)

\* Removing the i-th element shifts the rest of a sequence by one.
LEMMA RemoveAtElements ==
    ASSUME NEW S, NEW s \in Seq(S), NEW i \in 1..Len(s)
    PROVE  /\ RemoveAt(s, i) \in Seq(S)
           /\ Len(RemoveAt(s, i)) = Len(s) - 1
           /\ \A j \in 1..(Len(s) - 1) :
                 RemoveAt(s, i)[j] = IF j < i THEN s[j] ELSE s[j + 1]
<1> DEFINE a == SubSeq(s, 1, i - 1)
           b == SubSeq(s, i + 1, Len(s))
<1>0. Len(s) \in Nat
  BY LenProperties
<1>1. a \in Seq(S) /\ Len(a) = i - 1 /\ \A j \in 1..(i - 1) : a[j] = s[j]
  BY SMT
<1>2. b \in Seq(S) /\ Len(b) = Len(s) - i /\ \A j \in 1..(Len(s) - i) : b[j] = s[i + j]
  BY SMT
<1> HIDE DEF a, b
<1> DEFINE c == a \o b
<1>3. /\ c \in Seq(S)
      /\ Len(c) = Len(a) + Len(b)
      /\ \A j \in 1..(Len(a) + Len(b)) :
            c[j] = IF j <= Len(a) THEN a[j] ELSE b[j - Len(a)]
  BY <1>1, <1>2, ConcatProperties
<1>4. RemoveAt(s, i) = c
  BY DEF RemoveAt, a, b, c
<1> HIDE DEF c
<1>5. ASSUME NEW j \in 1..(Len(s) - 1)
      PROVE  c[j] = IF j < i THEN s[j] ELSE s[j + 1]
  <2>0. j \in 1..(Len(a) + Len(b))
    BY <1>0, <1>1, <1>2
  <2>1. CASE j < i
    <3>1. j \in 1..(i - 1) /\ j <= Len(a)
      BY <1>0, <1>1, <2>1
    <3>2. c[j] = a[j]
      BY <1>3, <2>0, <3>1
    <3> QED
      BY <1>1, <2>1, <3>1, <3>2
  <2>2. CASE j >= i
    <3>1. c[j] = b[j - (i - 1)]
      BY <1>0, <1>1, <1>3, <2>0, <2>2
    <3>2. j - (i - 1) \in 1..(Len(s) - i) /\ i + (j - (i - 1)) = j + 1
      BY <1>0, <2>2
    <3> QED
      BY <1>0, <1>2, <2>2, <3>1, <3>2
  <2> QED
    BY <1>0, <2>1, <2>2
<1> QED
  BY <1>0, <1>1, <1>2, <1>3, <1>4, <1>5

\* Erasing a list node takes exactly that key out and keeps the order.
LEMMA EraseNode ==
    ASSUME NEW S, NEW s \in Seq(S), NEW R, NEW i \in 1..Len(s),
           NoDuplicates(s), Ordered(s, R)
    PROVE  /\ RemoveAt(s, i) \in Seq(S)
           /\ NoDuplicates(RemoveAt(s, i))
           /\ Ordered(RemoveAt(s, i), R)
           /\ ToSet(RemoveAt(s, i)) = ToSet(s) \ {s[i]}
<1> DEFINE t == RemoveAt(s, i)
           old(j) == IF j < i THEN j ELSE j + 1
<1>1. t \in Seq(S) /\ Len(t) = Len(s) - 1 /\ DOMAIN t = 1..(Len(s) - 1) /\ DOMAIN s = 1..Len(s)
  BY RemoveAtElements
<1>2. \A j \in DOMAIN t : old(j) \in DOMAIN s /\ old(j) # i /\ t[j] = s[old(j)]
  <2> SUFFICES ASSUME NEW j \in DOMAIN t
               PROVE  old(j) \in DOMAIN s /\ old(j) # i /\ t[j] = s[old(j)]
    OBVIOUS
  <2>1. Len(s) \in Nat /\ j \in 1..(Len(s) - 1)
    BY <1>1, LenProperties
  <2>2. t[j] = IF j < i THEN s[j] ELSE s[j + 1]
    BY <2>1, RemoveAtElements
  <2> QED
    BY <1>1, <2>1, <2>2
<1> HIDE DEF t
<1>3. NoDuplicates(t)
  <2> SUFFICES ASSUME NEW j \in DOMAIN t, NEW k \in DOMAIN t, t[j] = t[k] PROVE j = k
    BY DEF NoDuplicates
  <2>1. old(j) = old(k)
    BY <1>2 DEF NoDuplicates
  <2> QED
    BY <1>1, <2>1
<1>4. Ordered(t, R)
  <2> SUFFICES ASSUME NEW j \in DOMAIN t, NEW k \in DOMAIN t, j < k PROVE <<t[j], t[k]>> \in R
    BY DEF Ordered
  <2>1. old(j) < old(k)
    BY <1>1
  <2> QED
    BY <1>2, <2>1 DEF Ordered
<1>5. ToSet(t) \subseteq ToSet(s) \ {s[i]}
  BY <1>1, <1>2 DEF ToSet, NoDuplicates
<1>6. ASSUME NEW x \in ToSet(s), x # s[i] PROVE x \in ToSet(t)
  <2>1. PICK j \in DOMAIN s : s[j] = x
    BY DEF ToSet
  <2>2. CASE j < i
    <3>1. j \in DOMAIN t /\ old(j) = j
      BY <1>1, <2>2
    <3> QED
      BY <1>2, <2>1, <3>1 DEF ToSet
  <2>3. CASE j > i
    <3>1. j - 1 \in DOMAIN t /\ old(j - 1) = j
      BY <1>1, <2>3
    <3> QED
      BY <1>2, <2>1, <3>1 DEF ToSet
  <2> QED
    BY <1>1, <1>6, <2>1, <2>2, <2>3
<1> QED
  BY <1>1, <1>3, <1>4, <1>5, <1>6 DEF t

\* Pushing a new key to the back keeps the order if it comes after all others.
LEMMA PushBack ==
    ASSUME NEW S, NEW s \in Seq(S), NEW R, NEW k \in S, k \notin ToSet(s),
           NoDuplicates(s), Ordered(s, R), \A x \in ToSet(s) : <<x, k>> \in R
    PROVE  /\ Append(s, k) \in Seq(S)
           /\ NoDuplicates(Append(s, k))
           /\ Ordered(Append(s, k), R)
           /\ ToSet(Append(s, k)) = ToSet(s) \cup {k}
<1> DEFINE t == Append(s, k)
<1>1. /\ t \in Seq(S) /\ DOMAIN t = 1..(Len(s) + 1) /\ DOMAIN s = 1..Len(s) /\ Len(s) \in Nat
      /\ t[Len(s) + 1] = k /\ \A j \in 1..Len(s) : t[j] = s[j] /\ s[j] \in ToSet(s)
  BY AppendProperties DEF ToSet
<1> HIDE DEF t
<1>2. NoDuplicates(t)
  BY <1>1 DEF NoDuplicates
<1>3. Ordered(t, R)
  BY <1>1 DEF Ordered
<1>4. ToSet(t) = ToSet(s) \cup {k}
  BY <1>1 DEF ToSet
<1> QED
  BY <1>1, <1>2, <1>3, <1>4 DEF t

\* Popping the front takes out a key that is before every other one.
LEMMA PopFront ==
    ASSUME NEW S, NEW s \in Seq(S), NEW R, s # <<>>, NoDuplicates(s), Ordered(s, R)
    PROVE  /\ Tail(s) \in Seq(S)
           /\ NoDuplicates(Tail(s))
           /\ Ordered(Tail(s), R)
           /\ ToSet(Tail(s)) = ToSet(s) \ {Head(s)}
           /\ Head(s) \in ToSet(s)
           /\ \A x \in ToSet(s) \ {Head(s)} : <<Head(s), x>> \in R
<1> DEFINE t == Tail(s)
<1>1. /\ t \in Seq(S) /\ DOMAIN t = 1..(Len(s) - 1) /\ DOMAIN s = 1..Len(s) /\ Len(s) \in Nat \ {0}
      /\ Head(s) = s[1] /\ \A j \in 1..(Len(s) - 1) : t[j] = s[j + 1]
  BY HeadTailProperties, EmptySeq
<1> HIDE DEF t
<1>2. \A j \in DOMAIN t : j + 1 \in DOMAIN s /\ j + 1 # 1 /\ t[j] = s[j + 1]
  BY <1>1
<1>3. NoDuplicates(t)
  <2> SUFFICES ASSUME NEW j \in DOMAIN t, NEW k \in DOMAIN t, t[j] = t[k] PROVE j = k
    BY DEF NoDuplicates
  <2>1. j + 1 = k + 1
    BY <1>2 DEF NoDuplicates
  <2> QED
    BY <1>1, <2>1
<1>4. Ordered(t, R)
  <2> SUFFICES ASSUME NEW j \in DOMAIN t, NEW k \in DOMAIN t, j < k PROVE <<t[j], t[k]>> \in R
    BY DEF Ordered
  <2>1. j + 1 < k + 1
    BY <1>1
  <2> QED
    BY <1>2, <2>1 DEF Ordered
<1>5. ToSet(t) \subseteq ToSet(s) \ {s[1]} /\ 1 \in DOMAIN s
  BY <1>1, <1>2 DEF ToSet, NoDuplicates
<1>6. ASSUME NEW x \in ToSet(s), x # s[1] PROVE x \in ToSet(t) /\ <<s[1], x>> \in R
  <2>1. PICK j \in DOMAIN s : s[j] = x
    BY DEF ToSet
  <2>2. j > 1 /\ j - 1 \in DOMAIN t /\ t[j - 1] = x
    BY <1>1, <1>6, <2>1
  <2> QED
    BY <1>1, <1>5, <2>1, <2>2 DEF ToSet, Ordered
<1>7. s[1] \in ToSet(s)
  BY <1>5 DEF ToSet
<1> QED
  BY <1>1, <1>3, <1>4, <1>5, <1>6, <1>7 DEF t

-----------------------------------------------------------------------------
(***************************************************************************)
(* Lemmas about the sum of the costs.  MapThenSumSet folds in an order of  *)
(* its own choice; that the result does not depend on it is an induction   *)
(* on finite sets, carried out on sets of numbers and of subsets since an  *)
(* induction theorem with an operator parameter cannot be instantiated.    *)
(***************************************************************************)
\* Induction on natural numbers, for a set given as such.
LEMMA Counting ==
    ASSUME NEW T \in SUBSET Nat, 0 \in T, \A n \in T : n + 1 \in T
    PROVE  T = Nat
<1> SUFFICES ASSUME Nat \ T # {} PROVE FALSE
  OBVIOUS
<1>1. \E x \in Nat \ T : \A y \in Nat \ T : ~(<<y, x>> \in OpToRel(<, Nat))
  <2> DEFINE U == Nat \ T
             R == OpToRel(<, Nat)
  <2>1. U \subseteq Nat /\ U # {} /\ IsWellFoundedOn(R, Nat)
    BY NatLessThanWellFounded
  <2> HIDE DEF U, R
  <2>2. \E x \in U : \A y \in U : ~(<<y, x>> \in R)
    BY <2>1, WFMin
  <2> QED
    BY <2>2 DEF U, R
<1>2. PICK x \in Nat \ T : \A y \in Nat \ T : ~(y < x)
  BY <1>1 DEF OpToRel
<1>3. x - 1 \in Nat /\ x - 1 < x
  OBVIOUS
<1>4. x - 1 \in T
  BY <1>2, <1>3
<1>5. (x - 1) + 1 \in T
  BY <1>4
<1> QED
  BY <1>5

\* Induction on the subsets of a finite set: what holds of a set whenever it
\* holds of the sets that lack one of its elements holds of all of them.
LEMMA Shrinking ==
    ASSUME NEW S, IsFiniteSet(S), NEW T \in SUBSET SUBSET S,
           \A s \in SUBSET S : (\A x \in s : s \ {x} \in T) => s \in T
    PROVE  T = SUBSET S
<1>1. \A s \in SUBSET S : /\ IsFiniteSet(s)
                          /\ Cardinality(s) \in Nat
                          /\ Cardinality(s) = 0 => s = {}
  BY FS_Subset, FS_CardinalityType, FS_EmptySet
<1> DEFINE N == {n \in Nat : \A s \in SUBSET S : Cardinality(s) = n => s \in T}
<1>2. 0 \in N
  BY <1>1
<1>3. ASSUME NEW n \in N PROVE n + 1 \in N
  <2> SUFFICES ASSUME NEW s \in SUBSET S, Cardinality(s) = n + 1 PROVE s \in T
    OBVIOUS
  <2>1. ASSUME NEW x \in s PROVE s \ {x} \in T
    <3>1. Cardinality(s \ {x}) = Cardinality(s) - 1 /\ s \ {x} \in SUBSET S
      BY <1>1, FS_RemoveElement
    <3> QED
      BY <3>1
  <2> QED
    BY <2>1
<1>4. N = Nat
  <2>1. N \in SUBSET Nat
    OBVIOUS
  <2> HIDE DEF N
  <2> QED
    BY <1>2, <1>3, <2>1, Counting
<1> QED
  BY <1>1, <1>4

\* The element a fold over a set takes first.
First(s) == CHOOSE x \in s : TRUE

\* f adds up the costs c over the subsets of S, one element after the other.
Sums(f, c, S) ==
    \A s \in SUBSET S : f[s] = IF s = {} THEN 0 ELSE c[First(s)].cost + f[s \ {First(s)}]

\* ... and over those of at most n elements.
SumsUpTo(f, c, S, n) ==
    \A s \in SUBSET S : Cardinality(s) <= n =>
        f[s] = IF s = {} THEN 0 ELSE c[First(s)].cost + f[s \ {First(s)}]

LEMMA FirstIsElement == \A s : s # {} => First(s) \in s
BY DEF First

\* Over the subsets with at most n elements, there is a function that does.
LEMMA SumsUpToExist ==
    ASSUME NEW S, IsFiniteSet(S), NEW c, \A k \in S : c[k].cost \in Nat, NEW n \in Nat
    PROVE  \E f \in [SUBSET S -> Nat] : SumsUpTo(f, c, S, n)
<1> DEFINE T == {m \in Nat : \E f \in [SUBSET S -> Nat] : SumsUpTo(f, c, S, m)}
<1>0. \A s \in SUBSET S : /\ IsFiniteSet(s)
                          /\ Cardinality(s) \in Nat
                          /\ Cardinality(s) = 0 => s = {}
  BY FS_Subset, FS_CardinalityType, FS_EmptySet
<1>1. 0 \in T
  <2> DEFINE f == [s \in SUBSET S |-> 0]
  <2>1. f \in [SUBSET S -> Nat]
    OBVIOUS
  <2>2. \A s \in SUBSET S : Cardinality(s) <= 0 => s = {}
    BY <1>0
  <2>3. SumsUpTo(f, c, S, 0)
    BY <2>1, <2>2 DEF SumsUpTo
  <2> QED
    BY <2>1, <2>3
<1>2. ASSUME NEW m \in T PROVE m + 1 \in T
  <2>1. PICK f \in [SUBSET S -> Nat] : SumsUpTo(f, c, S, m)
    OBVIOUS
  <2> DEFINE g == [s \in SUBSET S |-> IF s # {} /\ Cardinality(s) = m + 1
                                      THEN c[First(s)].cost + f[s \ {First(s)}]
                                      ELSE f[s]]
  <2>2. \A s \in SUBSET S : s # {} => First(s) \in s /\ First(s) \in S
    BY FirstIsElement
  <2>3. g \in [SUBSET S -> Nat]
    BY <2>2
  <2>4. g[{}] = 0
    <3>1. {} \in SUBSET S /\ Cardinality({}) = 0
      BY FS_EmptySet
    <3> QED
      BY <2>1, <3>1 DEF SumsUpTo
  <2>5. ASSUME NEW s \in SUBSET S, s # {}, Cardinality(s) <= m + 1
        PROVE  g[s] = c[First(s)].cost + g[s \ {First(s)}]
    <3>1. /\ s \ {First(s)} \in SUBSET S
          /\ Cardinality(s \ {First(s)}) = Cardinality(s) - 1
      BY <1>0, <2>2, <2>5, FS_RemoveElement
    <3>2. g[s \ {First(s)}] = f[s \ {First(s)}]
      BY <1>0, <2>5, <3>1
    <3>3. CASE Cardinality(s) = m + 1
      BY <2>5, <3>2, <3>3
    <3>4. CASE Cardinality(s) # m + 1
      <4>1. g[s] = f[s] /\ Cardinality(s) <= m
        BY <1>0, <2>5, <3>4
      <4> QED
        BY <2>1, <2>5, <3>2, <4>1 DEF SumsUpTo
    <3> QED
      BY <3>3, <3>4
  <2> HIDE DEF g
  <2>6. SumsUpTo(g, c, S, m + 1)
    <3> SUFFICES ASSUME NEW s \in SUBSET S, Cardinality(s) <= m + 1
                 PROVE  g[s] = IF s = {} THEN 0 ELSE c[First(s)].cost + g[s \ {First(s)}]
      BY DEF SumsUpTo
    <3> QED
      BY <2>4, <2>5
  <2>7. m + 1 \in Nat
    OBVIOUS
  <2> QED
    BY <2>3, <2>6, <2>7
<1>3. T = Nat
  <2>1. T \in SUBSET Nat
    OBVIOUS
  <2> HIDE DEF T
  <2> QED
    BY <1>1, <1>2, <2>1, Counting
<1> QED
  BY <1>3

\* The sum of the costs c over S, as MapThenSumSet forms it.
Total(c, S) == MapThenSumSet(LAMBDA k : c[k].cost, S)

\* The fold of the community modules is one of these functions, and its values
\* are natural numbers.
LEMMA TotalSums ==
    ASSUME NEW S, IsFiniteSet(S), NEW c, \A k \in S : c[k].cost \in Nat
    PROVE  \E f \in [SUBSET S -> Nat] : Sums(f, c, S) /\ Total(c, S) = f[S]
<1> DEFINE body(f) == [s \in SUBSET S |-> IF s = {} THEN 0 ELSE c[First(s)].cost + f[s \ {First(s)}]]
           iter == CHOOSE f : f = body(f)
<1>1. Total(c, S) = iter[S]
  BY DEF Total, MapThenSumSet, MapThenFoldSet, First
<1> DEFINE n == Cardinality(S)
<1>2. n \in Nat /\ \A s \in SUBSET S : Cardinality(s) <= n
  BY FS_CardinalityType, FS_Subset
<1> HIDE DEF n
<1>3. PICK g \in [SUBSET S -> Nat] : SumsUpTo(g, c, S, n)
  BY <1>2, SumsUpToExist
<1>4. \A s \in SUBSET S : g[s] = IF s = {} THEN 0 ELSE c[First(s)].cost + g[s \ {First(s)}]
  BY <1>2, <1>3 DEF SumsUpTo
<1>5. g = body(g)
  BY <1>4
<1>6. iter = body(iter)
  BY <1>5
<1> HIDE DEF iter
<1>7. Sums(iter, c, S) /\ iter = [s \in SUBSET S |-> iter[s]]
  BY <1>6 DEF Sums
<1> DEFINE T == {s \in SUBSET S : iter[s] \in Nat}
<1>8. ASSUME NEW s \in SUBSET S, \A x \in s : s \ {x} \in T PROVE s \in T
  <2>1. CASE s = {}
    <3>1. iter[s] = 0
      BY <1>7, <2>1 DEF Sums
    <3> QED
      BY <3>1
  <2>2. CASE s # {}
    <3>1. First(s) \in s
      BY <2>2, FirstIsElement
    <3>2. iter[s] = c[First(s)].cost + iter[s \ {First(s)}]
      BY <1>7, <2>2 DEF Sums
    <3>3. iter[s \ {First(s)}] \in Nat /\ c[First(s)].cost \in Nat
      BY <1>8, <3>1
    <3>4. iter[s] \in Nat
      BY <3>2, <3>3
    <3> QED
      BY <3>4
  <2> QED
    BY <2>1, <2>2
<1>9. T = SUBSET S
  <2>1. T \in SUBSET SUBSET S
    OBVIOUS
  <2> HIDE DEF T
  <2> QED
    BY <1>8, <2>1, Shrinking
<1>10. iter \in [SUBSET S -> Nat]
  BY <1>7, <1>9
<1> QED
  BY <1>1, <1>7, <1>10

\* Any element may be taken first.
SumsInAnyOrder(f, c, S) == \A s \in SUBSET S : \A x \in s : f[s] = c[x].cost + f[s \ {x}]

LEMMA SumsAnyOrder ==
    ASSUME NEW S, IsFiniteSet(S), NEW c, \A k \in S : c[k].cost \in Nat, NEW f \in [SUBSET S -> Nat],
           Sums(f, c, S)
    PROVE  SumsInAnyOrder(f, c, S)
<1> DEFINE T == {s \in SUBSET S : \A x \in s : f[s] = c[x].cost + f[s \ {x}]}
<1>1. ASSUME NEW s \in SUBSET S, \A x \in s : s \ {x} \in T PROVE s \in T
  <2> SUFFICES ASSUME NEW x \in s PROVE f[s] = c[x].cost + f[s \ {x}]
    OBVIOUS
  <2> DEFINE y == First(s)
  <2>1. y \in s /\ f[s] = c[y].cost + f[s \ {y}]
    BY FirstIsElement DEF Sums
  <2> HIDE DEF y
  <2>2. CASE x = y
    BY <2>1, <2>2
  <2>3. CASE x # y
    <3>1. f[s \ {y}] = c[x].cost + f[(s \ {y}) \ {x}]
      BY <1>1, <2>1, <2>3
    <3>2. f[s \ {x}] = c[y].cost + f[(s \ {x}) \ {y}]
      BY <1>1, <2>1, <2>3
    <3>3. (s \ {y}) \ {x} = (s \ {x}) \ {y}
      OBVIOUS
    <3>4. PICK a \in Nat, b \in Nat, r \in Nat :
              c[x].cost = a /\ c[y].cost = b /\ f[(s \ {x}) \ {y}] = r
      BY <2>1
    <3>5. f[s] = b + (a + r) /\ f[s \ {x}] = b + r
      BY <2>1, <3>1, <3>2, <3>3, <3>4
    <3>6. b + (a + r) = a + (b + r)
      OBVIOUS
    <3> QED
      BY <3>4, <3>5, <3>6
  <2> QED
    BY <2>2, <2>3
<1>2. T = SUBSET S
  <2>1. T \in SUBSET SUBSET S
    OBVIOUS
  <2> HIDE DEF T
  <2> QED
    BY <1>1, <2>1, Shrinking
<1> QED
  BY <1>2 DEF SumsInAnyOrder

\* Costs that agree on R have the same sum over it.
LEMMA SumsAgree ==
    ASSUME NEW R, IsFiniteSet(R), NEW c, NEW d, \A k \in R : c[k].cost = d[k].cost,
           NEW f, NEW g, Sums(f, c, R), Sums(g, d, R)
    PROVE  f[R] = g[R]
<1> DEFINE T == {s \in SUBSET R : f[s] = g[s]}
<1>1. ASSUME NEW s \in SUBSET R, \A x \in s : s \ {x} \in T PROVE s \in T
  <2>1. CASE s = {}
    BY <2>1 DEF Sums
  <2>2. CASE s # {}
    <3>1. First(s) \in s
      BY <2>2, FirstIsElement
    <3>2. /\ f[s] = c[First(s)].cost + f[s \ {First(s)}]
          /\ g[s] = d[First(s)].cost + g[s \ {First(s)}]
      BY <2>2 DEF Sums
    <3> QED
      BY <1>1, <3>1, <3>2
  <2> QED
    BY <2>1, <2>2
<1>2. T = SUBSET R
  <2>1. T \in SUBSET SUBSET R
    OBVIOUS
  <2> HIDE DEF T
  <2> QED
    BY <1>1, <2>1, Shrinking
<1> QED
  BY <1>2

\* The sum over a set of which one element is taken out, or that is empty.
LEMMA TotalOfLess ==
    ASSUME NEW S, IsFiniteSet(S), NEW c, \A k \in S : c[k].cost \in Nat
    PROVE  /\ Total(c, S) \in Nat
           /\ S = {} => Total(c, S) = 0
           /\ \A x \in S : Total(c, S) = c[x].cost + Total(c, S \ {x})
<1>1. PICK f \in [SUBSET S -> Nat] : Sums(f, c, S) /\ Total(c, S) = f[S]
  BY TotalSums
<1>2. S = {} => Total(c, S) = 0
  BY <1>1 DEF Sums
<1>3. ASSUME NEW x \in S PROVE Total(c, S) = c[x].cost + Total(c, S \ {x})
  <2> DEFINE R == S \ {x}
  <2>1. IsFiniteSet(R) /\ R \in SUBSET S
    BY FS_RemoveElement
  <2>2. \A k \in R : c[k].cost \in Nat
    OBVIOUS
  <2>3. f[S] = c[x].cost + f[R]
    <3>1. SumsInAnyOrder(f, c, S)
      BY <1>1, SumsAnyOrder
    <3> QED
      BY <3>1 DEF SumsInAnyOrder
  <2> HIDE DEF R
  <2>4. PICK g \in [SUBSET R -> Nat] : Sums(g, c, R) /\ Total(c, R) = g[R]
    BY <2>1, <2>2, TotalSums
  <2>5. Sums(f, c, R)
    BY <1>1, <2>1 DEF Sums
  <2>6. f[R] = g[R]
    BY <2>1, <2>4, <2>5, SumsAgree
  <2> QED
    BY <1>1, <2>3, <2>4, <2>6 DEF R
<1> QED
  BY <1>1, <1>2, <1>3

\* Only the costs of the elements matter.
LEMMA TotalAgrees ==
    ASSUME NEW S, IsFiniteSet(S), NEW c, NEW d,
           \A k \in S : c[k].cost \in Nat /\ c[k].cost = d[k].cost
    PROVE  Total(c, S) = Total(d, S)
<1>1. PICK f \in [SUBSET S -> Nat] : Sums(f, c, S) /\ Total(c, S) = f[S]
  BY TotalSums
<1>2. PICK g \in [SUBSET S -> Nat] : Sums(g, d, S) /\ Total(d, S) = g[S]
  BY TotalSums
<1> QED
  BY <1>1, <1>2, SumsAgree

-----------------------------------------------------------------------------
(***************************************************************************)
(* The inductive invariant.  Types first: size_ is an integer here, since  *)
(* that it is never negative rests on the sum of the costs.                *)
(***************************************************************************)
Types ==
    /\ key_tracker_ \in Seq(Keys)
    /\ key_to_value_ \in [Keys -> Entry \cup {NoEntry}]
    /\ size_ \in Int
    /\ mutex_ \in Threads \cup {Free}
    /\ pending \in [Threads -> Fetch \cup {NoFetch}]
    /\ source \in [Keys -> Versions]
    /\ floor \in [Keys -> Versions]

\* A key that is being loaded is not recorded yet: insert() may assume it.
LoadingIsMissing == \A t \in Threads : pending[t].active => ~contains(pending[t].key)

FloorBelowSource == \A k \in Keys : floor[k] <= source[k]

IInv ==
    /\ Types
    /\ NoDuplicates(key_tracker_)
    /\ ToSet(key_tracker_) = Cached
    /\ Ordered(key_tracker_, usedAfter)
    /\ LoaderHoldsMutex
    /\ LoadingIsMissing
    /\ FloorBelowSource
    /\ FreshSinceInvalidation

LEMMA EntryFacts == NoEntry \notin Entry /\ \A e \in Entry : e.version \in Nat /\ e.cost \in Nat
<1>1. \A v \in Versions : v \in Nat
  BY MaxVersionAssumption DEF Versions
<1>2. ASSUME NEW e \in Entry
      PROVE  e.version \in Nat /\ e.cost \in Nat /\ e \in [version : Nat, cost : Nat]
  BY <1>1, CostsAssumption DEF Entry
<1> QED
  BY <1>2, KeysAssumption

LEMMA PendingFacts ==
    ASSUME Types, NEW t \in Threads
    PROVE  /\ pending[t].active \in BOOLEAN
           /\ pending[t].active => /\ pending[t] \in Fetch
                                   /\ pending[t].key \in Keys
                                   /\ pending[t].version \in Versions
           /\ ~pending[t].active => pending[t] = NoFetch
<1>1. pending[t] \in Fetch \cup {NoFetch}
  BY DEF Types
<1>2. CASE pending[t] = NoFetch
  BY <1>2 DEF NoFetch
<1>3. CASE pending[t] \in Fetch
  <2>1. PICK k \in Keys, v \in Versions :
           pending[t] = [active |-> TRUE, key |-> k, version |-> v]
    BY <1>3 DEF Fetch
  <2> QED
    BY <1>3, <2>1
<1> QED
  BY <1>1, <1>2, <1>3

\* The iterator kept with a recorded key points at its list node.
LEMMA IteratorOfCached ==
    ASSUME Types, ToSet(key_tracker_) = Cached, NEW k \in Keys, contains(k)
    PROVE  /\ Iterator(k) \in 1..Len(key_tracker_)
           /\ key_tracker_[Iterator(k)] = k
<1>1. k \in ToSet(key_tracker_)
  BY DEF contains, Cached
<1>2. PICK i \in DOMAIN key_tracker_ : key_tracker_[i] = k
  BY <1>1 DEF ToSet
<1>3. DOMAIN key_tracker_ = 1..Len(key_tracker_)
  BY DEF Types
<1>4. Iterator(k) \in DOMAIN key_tracker_ /\ key_tracker_[Iterator(k)] = k
  BY <1>2 DEF Iterator
<1> QED
  BY <1>3, <1>4

LEMMA InitIInv == Init => IInv
<1> SUFFICES ASSUME Init PROVE IInv
  OBVIOUS
<1>1. key_tracker_ \in Seq(Keys) /\ DOMAIN key_tracker_ = {} /\ ToSet(key_tracker_) = {}
  BY DEF Init, ToSet
<1>2. Types
  BY <1>1, MaxVersionAssumption DEF Init, Types, Versions, Fetch, NoFetch
<1>3. NoDuplicates(key_tracker_) /\ Ordered(key_tracker_, usedAfter)
  BY <1>1 DEF NoDuplicates, Ordered
<1>4. Cached = {}
  BY DEF Init, Cached
<1>5. \A t \in Threads : ~pending[t].active
  BY DEF Init, NoFetch
<1>6. LoaderHoldsMutex /\ LoadingIsMissing /\ FreshSinceInvalidation
  BY <1>4, <1>5 DEF LoaderHoldsMutex, LoadingIsMissing, FreshSinceInvalidation
<1>7. FloorBelowSource
  BY DEF Init, FloorBelowSource
<1> QED
  BY <1>1, <1>2, <1>3, <1>4, <1>6, <1>7 DEF IInv

\* Marking k as just used only adds pairs that end in k, and keeps the order
\* of any list without k.
LEMMA UseKeepsOrder ==
    ASSUME NEW k \in Keys, NEW s \in Seq(Keys), k \notin ToSet(s), Use(k), Ordered(s, usedAfter)
    PROVE  Ordered(s, usedAfter') /\ \A x \in ToSet(s) : <<x, k>> \in usedAfter'
<1>1. \A i \in DOMAIN s : s[i] \in ToSet(s) /\ s[i] \in Keys /\ s[i] # k
  BY DEF ToSet
<1>2. \A a, b : <<a, b>> \in usedAfter /\ a # k => <<a, b>> \in usedAfter'
  BY DEF Use
<1>3. Ordered(s, usedAfter')
  BY <1>1, <1>2 DEF Ordered
<1>4. \A x \in ToSet(s) : x \in Keys \ {k}
  BY <1>1 DEF ToSet
<1>5. \A x \in ToSet(s) : <<x, k>> \in usedAfter'
  BY <1>4 DEF Use
<1> QED
  BY <1>3, <1>5

\* What both branches of fetch() do to the list: k goes to the back.
LEMMA PushUsed ==
    ASSUME NEW k \in Keys, NEW s \in Seq(Keys), k \notin ToSet(s),
           NoDuplicates(s), Ordered(s, usedAfter), Use(k), key_tracker_' = Append(s, k)
    PROVE  /\ key_tracker_' \in Seq(Keys)
           /\ NoDuplicates(key_tracker_')
           /\ Ordered(key_tracker_', usedAfter')
           /\ ToSet(key_tracker_') = ToSet(s) \cup {k}
<1>1. Ordered(s, usedAfter') /\ \A x \in ToSet(s) : <<x, k>> \in usedAfter'
  BY UseKeepsOrder
<1> QED
  BY <1>1, PushBack

LEMMA FetchHitStep ==
    ASSUME IInv, NEW t \in Threads, NEW k \in Keys, FetchHit(t, k)
    PROVE  IInv'
<1> USE DEF IInv
<1> DEFINE s == RemoveAt(key_tracker_, Iterator(k))
<1>1. /\ Iterator(k) \in 1..Len(key_tracker_)
      /\ key_tracker_[Iterator(k)] = k
  BY IteratorOfCached DEF FetchHit
<1>2. key_tracker_ \in Seq(Keys)
  BY DEF Types
<1>3. /\ s \in Seq(Keys) /\ NoDuplicates(s) /\ Ordered(s, usedAfter)
      /\ ToSet(s) = ToSet(key_tracker_) \ {k}
  BY <1>1, <1>2, EraseNode
<1>4. key_tracker_' = Append(s, k) /\ Use(k)
  BY DEF FetchHit
<1> HIDE DEF s
<1>5. /\ key_tracker_' \in Seq(Keys) /\ NoDuplicates(key_tracker_')
      /\ Ordered(key_tracker_', usedAfter') /\ ToSet(key_tracker_') = ToSet(s) \cup {k}
  BY <1>3, <1>4, PushUsed
<1>6. UNCHANGED <<key_to_value_, size_, mutex_, pending, source, floor>>
  BY DEF FetchHit
<1>7. Cached' = Cached /\ k \in Cached
  BY <1>6 DEF Cached, FetchHit, contains
<1>8. Types'
  BY <1>5, <1>6 DEF Types
<1>9. LoaderHoldsMutex' /\ LoadingIsMissing' /\ FloorBelowSource' /\ FreshSinceInvalidation'
  BY <1>6, <1>7
     DEF LoaderHoldsMutex, LoadingIsMissing, FloorBelowSource, FreshSinceInvalidation, contains
<1> QED
  BY <1>3, <1>5, <1>7, <1>8, <1>9

LEMMA FetchMissStep ==
    ASSUME IInv, NEW t \in Threads, NEW k \in Keys, FetchMiss(t, k)
    PROVE  IInv'
<1> USE DEF IInv
<1>1. /\ mutex_ = Free /\ ~contains(k) /\ mutex_' = t
      /\ pending' = [pending EXCEPT ![t] = [active |-> TRUE, key |-> k, version |-> source[k]]]
      /\ UNCHANGED <<key_tracker_, key_to_value_, size_, source, floor, usedAfter>>
  BY DEF FetchMiss, CanLock, cache, history
<1>2. \A x \in Threads : ~pending[x].active
  BY <1>1, ThreadsAssumption DEF LoaderHoldsMutex
<1>3. Types'
  <2>1. [active |-> TRUE, key |-> k, version |-> source[k]] \in Fetch
    BY DEF Types, Fetch
  <2> QED
    BY <1>1, <2>1 DEF Types
<1>4. Cached' = Cached
  BY <1>1 DEF Cached
<1>5. \A x \in Threads : pending'[x].active =>
         x = t /\ pending'[x].key = k /\ pending'[x].version = source[k]
  BY <1>1, <1>2 DEF Types
<1>6. LoaderHoldsMutex' /\ LoadingIsMissing'
  BY <1>1, <1>5 DEF LoaderHoldsMutex, LoadingIsMissing, contains
<1>7. source[k] \in floor[k]..source[k]
  BY MaxVersionAssumption DEF FloorBelowSource, Types, Versions
<1>8. FloorBelowSource' /\ FreshSinceInvalidation'
  BY <1>1, <1>4, <1>5, <1>7 DEF FloorBelowSource, FreshSinceInvalidation
<1> QED
  BY <1>1, <1>3, <1>4, <1>6, <1>8

LEMMA LoaderThrowsStep ==
    ASSUME IInv, NEW t \in Threads, LoaderThrows(t)
    PROVE  IInv'
<1> USE DEF IInv
<1>1. /\ pending[t].active /\ mutex_' = Free /\ pending' = [pending EXCEPT ![t] = NoFetch]
      /\ UNCHANGED <<key_tracker_, key_to_value_, size_, source, floor, usedAfter>>
  BY DEF LoaderThrows, cache, history
<1>2. Types' /\ Cached' = Cached
  BY <1>1 DEF Types, Cached
<1>3. \A x \in Threads : ~pending'[x].active
  BY <1>1 DEF LoaderHoldsMutex, Types, NoFetch
<1>4. LoaderHoldsMutex' /\ LoadingIsMissing' /\ FloorBelowSource' /\ FreshSinceInvalidation'
  BY <1>1, <1>2, <1>3
     DEF LoaderHoldsMutex, LoadingIsMissing, FloorBelowSource, FreshSinceInvalidation
<1> QED
  BY <1>1, <1>2, <1>4

\* What evict() leaves: the list and the map without the victim, if any.
LEMMA AfterEvict ==
    ASSUME IInv, NEW c \in Costs
    PROVE  /\ TrackerAfterEvict(c) \in Seq(Keys)
           /\ NoDuplicates(TrackerAfterEvict(c))
           /\ Ordered(TrackerAfterEvict(c), usedAfter)
           /\ ToSet(TrackerAfterEvict(c)) = Cached \ Victims(c)
           /\ Victims(c) \subseteq Cached
           /\ \A v \in Victims(c) : \A other \in Cached \ {v} : <<v, other>> \in usedAfter
           /\ SizeAfterEvict(c) \in Int
<1> USE DEF IInv
<1>0. key_tracker_ \in Seq(Keys)
  BY DEF Types
<1>1. CASE NeedsRoom(c) /\ key_tracker_ # <<>>
  <2>1. /\ TrackerAfterEvict(c) = Tail(key_tracker_)
        /\ Victims(c) = {Head(key_tracker_)}
        /\ SizeAfterEvict(c) = size_ - key_to_value_[Head(key_tracker_)].cost
    BY <1>1 DEF TrackerAfterEvict, Victims, SizeAfterEvict
  <2>2. /\ Tail(key_tracker_) \in Seq(Keys)
        /\ NoDuplicates(Tail(key_tracker_))
        /\ Ordered(Tail(key_tracker_), usedAfter)
        /\ ToSet(Tail(key_tracker_)) = ToSet(key_tracker_) \ {Head(key_tracker_)}
        /\ Head(key_tracker_) \in ToSet(key_tracker_)
        /\ \A x \in ToSet(key_tracker_) \ {Head(key_tracker_)} :
              <<Head(key_tracker_), x>> \in usedAfter
    BY <1>0, <1>1, PopFront
  <2>3. key_to_value_[Head(key_tracker_)] \in Entry
    BY <2>2 DEF Cached, Types
  <2>4. size_ - key_to_value_[Head(key_tracker_)].cost \in Int
    BY <2>3, EntryFacts DEF Types
  <2> QED
    BY <2>1, <2>2, <2>4
<1>2. CASE ~(NeedsRoom(c) /\ key_tracker_ # <<>>)
  <2>1. /\ TrackerAfterEvict(c) = key_tracker_ /\ Victims(c) = {}
        /\ SizeAfterEvict(c) = size_
    BY <1>2 DEF TrackerAfterEvict, Victims, SizeAfterEvict
  <2> QED
    BY <1>0, <2>1 DEF Types
<1> QED
  BY <1>1, <1>2

\* The records after an insertion of k.
LEMMA CachedAfterInsert ==
    ASSUME IInv, NEW t \in Threads, NEW c \in Costs, FetchInsert(t, c)
    PROVE  Cached' = (Cached \ Victims(c)) \cup {pending[t].key}
<1> DEFINE k == pending[t].key
           e == [version |-> pending[t].version, cost |-> c]
<1>1. k \in Keys /\ e \in Entry
  BY PendingFacts DEF IInv, FetchInsert, Entry
<1>2. e # NoEntry
  BY <1>1, EntryFacts
<1> HIDE DEF e
<1>3. key_to_value_' = [x \in Keys |-> IF x = k THEN e
                                       ELSE IF x \in Victims(c) THEN NoEntry
                                       ELSE key_to_value_[x]]
  BY DEF FetchInsert, e
<1> QED
  BY <1>1, <1>2, <1>3 DEF Cached

LEMMA FetchInsertStep ==
    ASSUME IInv, NEW t \in Threads, NEW c \in Costs, FetchInsert(t, c)
    PROVE  IInv'
<1> USE DEF IInv
<1> DEFINE k == pending[t].key
           e == [version |-> pending[t].version, cost |-> c]
           s == TrackerAfterEvict(c)
<1>1. k \in Keys /\ e \in Entry /\ pending[t].version \in Versions /\ c \in Nat
  BY PendingFacts, CostsAssumption DEF FetchInsert, Entry
<1>2. k \notin Cached
  BY <1>1 DEF FetchInsert, LoadingIsMissing, contains, Cached
<1>3. /\ s \in Seq(Keys) /\ NoDuplicates(s) /\ Ordered(s, usedAfter)
      /\ ToSet(s) = Cached \ Victims(c) /\ Victims(c) \subseteq Cached
      /\ SizeAfterEvict(c) \in Int
  BY AfterEvict
<1>4. /\ key_tracker_' = Append(s, k) /\ Use(k) /\ size_' = SizeAfterEvict(c) + c
      /\ mutex_' = Free /\ pending' = [pending EXCEPT ![t] = NoFetch]
      /\ UNCHANGED <<source, floor>>
  BY DEF FetchInsert
<1>5. key_to_value_' = [x \in Keys |-> IF x = k THEN e
                                       ELSE IF x \in Victims(c) THEN NoEntry
                                       ELSE key_to_value_[x]]
  BY DEF FetchInsert
<1>6. e.version = pending[t].version
  OBVIOUS
<1> HIDE DEF s, e
<1>7. /\ key_tracker_' \in Seq(Keys) /\ NoDuplicates(key_tracker_')
      /\ Ordered(key_tracker_', usedAfter') /\ ToSet(key_tracker_') = ToSet(s) \cup {k}
  BY <1>1, <1>2, <1>3, <1>4, PushUsed
<1>8. Cached' = (Cached \ Victims(c)) \cup {k}
  BY CachedAfterInsert
<1>9. Types'
  <2>1. size_' \in Int
    BY <1>1, <1>3, <1>4
  <2>2. key_to_value_' \in [Keys -> Entry \cup {NoEntry}]
    BY <1>1, <1>5 DEF Types
  <2>3. pending' \in [Threads -> Fetch \cup {NoFetch}]
    BY <1>4 DEF Types
  <2> QED
    BY <1>4, <1>7, <2>1, <2>2, <2>3 DEF Types
<1>10. \A x \in Threads : ~pending'[x].active
  BY <1>4 DEF LoaderHoldsMutex, FetchInsert, Types, NoFetch
<1>11. LoaderHoldsMutex' /\ LoadingIsMissing' /\ FloorBelowSource'
  BY <1>4, <1>10 DEF LoaderHoldsMutex, LoadingIsMissing, FloorBelowSource
<1>12. FreshSinceInvalidation'
  <2>1. pending[t].version \in floor[k]..source[k]
    BY DEF FreshSinceInvalidation, FetchInsert
  <2>2. ASSUME NEW x \in Cached' PROVE key_to_value_'[x].version \in floor'[x]..source'[x]
    <3>1. CASE x = k
      BY <1>1, <1>4, <1>5, <1>6, <2>1, <3>1
    <3>2. CASE x # k
      <4>1. x \in Cached /\ x \notin Victims(c) /\ x \in Keys
        BY <1>8, <3>2 DEF Cached
      <4>2. key_to_value_'[x] = key_to_value_[x]
        BY <1>5, <3>2, <4>1
      <4> QED
        BY <1>4, <4>1, <4>2 DEF FreshSinceInvalidation
    <3> QED
      BY <3>1, <3>2
  <2> QED
    BY <1>10, <2>2 DEF FreshSinceInvalidation
<1> QED
  BY <1>3, <1>7, <1>8, <1>9, <1>11, <1>12

LEMMA RemoveKeyStep ==
    ASSUME IInv, NEW t \in Threads, NEW k \in Keys, RemoveKey(t, k)
    PROVE  IInv'
<1> USE DEF IInv
<1>1. /\ mutex_ = Free /\ floor' = [floor EXCEPT ![k] = source[k]]
      /\ UNCHANGED <<mutex_, pending, source, usedAfter>>
  BY DEF RemoveKey, CanLock
<1>2. \A x \in Threads : ~pending[x].active
  BY <1>1, ThreadsAssumption DEF LoaderHoldsMutex
<1>3. floor' \in [Keys -> Versions] /\ FloorBelowSource'
  <2>1. \A x \in Keys : source[x] \in Nat
    BY MaxVersionAssumption DEF Types, Versions
  <2> QED
    BY <1>1, <2>1 DEF Types, FloorBelowSource
<1>4. LoaderHoldsMutex' /\ LoadingIsMissing'
  BY <1>1, <1>2 DEF LoaderHoldsMutex, LoadingIsMissing
<1>5. CASE contains(k)
  <2> DEFINE s == RemoveAt(key_tracker_, Iterator(k))
  <2>1. /\ size_' = size_ - key_to_value_[k].cost /\ key_tracker_' = s
        /\ key_to_value_' = [key_to_value_ EXCEPT ![k] = NoEntry]
    BY <1>5 DEF RemoveKey
  <2>2. Iterator(k) \in 1..Len(key_tracker_) /\ key_tracker_[Iterator(k)] = k
    BY <1>5, IteratorOfCached
  <2>3. key_tracker_ \in Seq(Keys)
    BY DEF Types
  <2>4. /\ s \in Seq(Keys) /\ NoDuplicates(s) /\ Ordered(s, usedAfter)
        /\ ToSet(s) = Cached \ {k}
    BY <2>2, <2>3, EraseNode
  <2> HIDE DEF s
  <2>5. Cached' = Cached \ {k}
    BY <2>1 DEF Cached, Types
  <2>6. Types'
    <3>1. size_' \in Int
      BY <1>5, <2>1, EntryFacts DEF Types, contains
    <3> QED
      BY <1>1, <1>3, <2>1, <2>4, <3>1 DEF Types
  <2>7. FreshSinceInvalidation'
    BY <1>1, <1>2, <2>1, <2>5 DEF FreshSinceInvalidation, Types, Cached
  <2> QED
    BY <1>1, <1>3, <1>4, <2>1, <2>4, <2>5, <2>6, <2>7
<1>6. CASE ~contains(k)
  <2>1. UNCHANGED <<key_tracker_, key_to_value_, size_>>
    BY <1>6 DEF RemoveKey, cache
  <2>2. Types' /\ Cached' = Cached
    BY <1>1, <1>3, <2>1 DEF Types, Cached
  <2>3. FreshSinceInvalidation'
    BY <1>1, <1>2, <1>6, <2>1, <2>2 DEF FreshSinceInvalidation, Types, Cached, contains
  <2> QED
    BY <1>1, <1>3, <1>4, <2>1, <2>2, <2>3
<1> QED
  BY <1>5, <1>6

LEMMA ClearStep ==
    ASSUME IInv, NEW t \in Threads, Clear(t)
    PROVE  IInv'
<1> USE DEF IInv
<1>1. /\ mutex_ = Free /\ floor' = source /\ key_tracker_' = <<>>
      /\ key_to_value_' = [k \in Keys |-> NoEntry]
      /\ UNCHANGED <<size_, mutex_, pending, source>>
  BY DEF Clear, CanLock
<1>2. \A x \in Threads : ~pending[x].active
  BY <1>1, ThreadsAssumption DEF LoaderHoldsMutex
<1>3. key_tracker_' \in Seq(Keys) /\ DOMAIN key_tracker_' = {} /\ ToSet(key_tracker_') = {}
  BY <1>1 DEF ToSet
<1>4. NoDuplicates(key_tracker_') /\ Ordered(key_tracker_', usedAfter')
  BY <1>3 DEF NoDuplicates, Ordered
<1>5. Cached' = {}
  BY <1>1 DEF Cached
<1>6. Types'
  BY <1>1, <1>3 DEF Types
<1>7. FloorBelowSource'
  BY <1>1, MaxVersionAssumption DEF FloorBelowSource, Types, Versions
<1>8. LoaderHoldsMutex' /\ LoadingIsMissing' /\ FreshSinceInvalidation'
  BY <1>1, <1>2, <1>5 DEF LoaderHoldsMutex, LoadingIsMissing, FreshSinceInvalidation
<1> QED
  BY <1>3, <1>4, <1>5, <1>6, <1>7, <1>8

LEMMA EditStep ==
    ASSUME IInv, NEW k \in Keys, Edit(k)
    PROVE  IInv'
<1> USE DEF IInv
<1>1. /\ source[k] < MaxVersion /\ source' = [source EXCEPT ![k] = @ + 1]
      /\ UNCHANGED <<key_tracker_, key_to_value_, size_, mutex_, pending, floor, usedAfter>>
  BY DEF Edit, cache, history
<1>2. \A x \in Keys : source[x] \in Nat /\ source'[x] \in Versions /\ source[x] <= source'[x]
  BY <1>1, MaxVersionAssumption DEF Types, Versions
<1>3. Types'
  BY <1>1, <1>2 DEF Types
<1>4. Cached' = Cached /\ FloorBelowSource'
  BY <1>1, <1>2, <1>3, MaxVersionAssumption DEF Cached, FloorBelowSource, Types, Versions
<1>5. LoaderHoldsMutex' /\ LoadingIsMissing'
  BY <1>1 DEF LoaderHoldsMutex, LoadingIsMissing, contains
<1>6. ASSUME NEW x \in Keys, NEW v \in floor[x]..source[x] PROVE v \in floor'[x]..source'[x]
  BY <1>1, <1>2, <1>3, MaxVersionAssumption DEF Types, Versions
<1>7. \A x \in Threads : pending[x].active => pending[x].key \in Keys
  BY PendingFacts
<1>8. FreshSinceInvalidation'
  BY <1>1, <1>4, <1>6, <1>7 DEF FreshSinceInvalidation, Cached
<1> QED
  BY <1>1, <1>3, <1>4, <1>5, <1>8

\* A step that changes none of the variables the invariant speaks of.
LEMMA IInvUnchanged ==
    ASSUME IInv,
           UNCHANGED <<key_tracker_, key_to_value_, size_, mutex_, pending, source, floor, usedAfter>>
    PROVE  IInv'
BY DEF IInv, Types, Cached, LoaderHoldsMutex, LoadingIsMissing, FloorBelowSource,
       FreshSinceInvalidation, contains

LEMMA NextKeepsIInv == IInv /\ [Next]_vars => IInv'
<1> SUFFICES ASSUME IInv, [Next]_vars PROVE IInv'
  OBVIOUS
<1>1. ASSUME NEW t \in Threads, NEW k \in Keys, FetchHit(t, k) PROVE IInv'
  BY <1>1, FetchHitStep
<1>2. ASSUME NEW t \in Threads, NEW k \in Keys, FetchMiss(t, k) PROVE IInv'
  BY <1>2, FetchMissStep
<1>3. ASSUME NEW t \in Threads, NEW k \in Keys, RemoveKey(t, k) PROVE IInv'
  BY <1>3, RemoveKeyStep
<1>4. ASSUME NEW t \in Threads, NEW k \in Keys, RemoveFaults(t, k) PROVE IInv'
  BY <1>4, IInvUnchanged DEF RemoveFaults, cache, history
<1>5. ASSUME NEW t \in Threads, NEW c \in Costs, FetchInsert(t, c) PROVE IInv'
  BY <1>5, FetchInsertStep
<1>6. ASSUME NEW t \in Threads, NEW c \in Costs, FetchInsertAborts(t, c) PROVE IInv'
  BY <1>6, IInvUnchanged DEF FetchInsertAborts, cache, history
<1>7. ASSUME NEW t \in Threads, LoaderThrows(t) PROVE IInv'
  BY <1>7, LoaderThrowsStep
<1>8. ASSUME NEW t \in Threads, Clear(t) PROVE IInv'
  BY <1>8, ClearStep
<1>9. ASSUME NEW k \in Keys, Edit(k) PROVE IInv'
  BY <1>9, EditStep
<1>10. CASE Ended \/ UNCHANGED vars
  BY <1>10, IInvUnchanged DEF Ended, vars
<1> QED
  BY <1>1, <1>2, <1>3, <1>4, <1>5, <1>6, <1>7, <1>8, <1>9, <1>10 DEF Next

LEMMA IInvAlways == Spec => []IInv
<1>1. QED
  BY InitIInv, NextKeepsIInv, PTL DEF Spec

-----------------------------------------------------------------------------
(***************************************************************************)
(* The accounting.  SizeAccounting is inductive relative to IInv: the      *)
(* victim of evict() is a cached key, the inserted one is not.             *)
(***************************************************************************)
LEMMA RetainedIsTotal ==
    Retained = Total(key_to_value_, Cached) /\ Retained' = Total(key_to_value_', Cached')
<1>1. Retained = Total(key_to_value_, Cached)
  BY DEF Retained, Total, MapThenSumSet, MapThenFoldSet
<1>2. Retained' = Total(key_to_value_', Cached')
  BY DEF Retained, Total, MapThenSumSet, MapThenFoldSet
<1> QED
  BY <1>1, <1>2

\* The cached keys are finitely many: they are the elements of the list.
LEMMA CachedFacts ==
    ASSUME IInv
    PROVE  /\ IsFiniteSet(Cached)
           /\ \A k \in Cached : k \in Keys /\ key_to_value_[k].cost \in Nat
           /\ Retained \in Nat
<1> DEFINE n == Len(key_tracker_)
<1>1. n \in Nat /\ key_tracker_ \in [1..n -> Keys]
  BY LenProperties DEF IInv, Types
<1>2. Cached = {key_tracker_[i] : i \in 1..n}
  BY <1>1 DEF IInv, ToSet
<1> HIDE DEF n
<1>3. key_tracker_ \in Surjection(1..n, Cached)
  BY <1>1, <1>2 DEF Surjection
<1>4. ExistsSurjection(1..n, Cached)
  BY <1>3 DEF ExistsSurjection
<1>5. IsFiniteSet(Cached)
  BY <1>1, <1>4, FS_NatSurjection
<1>6. \A k \in Cached : k \in Keys /\ key_to_value_[k] \in Entry
  BY DEF Cached, IInv, Types
<1>7. \A k \in Cached : k \in Keys /\ key_to_value_[k].cost \in Nat
  BY <1>6, EntryFacts
<1>8. Total(key_to_value_, Cached) \in Nat
  BY <1>5, <1>7, TotalOfLess
<1> QED
  BY <1>5, <1>7, <1>8, RetainedIsTotal

\* What is retained apart from one of the records.
LEMMA RetainedWithout ==
    ASSUME IInv, NEW k \in Cached
    PROVE  /\ Total(key_to_value_, Cached \ {k}) \in Nat
           /\ Retained = key_to_value_[k].cost + Total(key_to_value_, Cached \ {k})
<1> DEFINE R == Cached \ {k}
<1>1. IsFiniteSet(Cached) /\ IsFiniteSet(R) /\ \A x \in Cached : key_to_value_[x].cost \in Nat
  BY CachedFacts, FS_RemoveElement
<1>2. \A x \in R : key_to_value_[x].cost \in Nat
  BY <1>1
<1>3. Total(key_to_value_, Cached) = key_to_value_[k].cost + Total(key_to_value_, R)
  BY <1>1, TotalOfLess
<1> HIDE DEF R
<1>4. Total(key_to_value_, R) \in Nat
  BY <1>1, <1>2, TotalOfLess
<1> QED
  BY <1>3, <1>4, RetainedIsTotal DEF R

\* insert() adds the new cost and takes off the one of the victim.
LEMMA FetchInsertAccounts ==
    ASSUME IInv, NEW t \in Threads, NEW c \in Costs, FetchInsert(t, c), SizeAccounting
    PROVE  SizeAccounting'
<1> DEFINE k == pending[t].key
           e == [version |-> pending[t].version, cost |-> c]
           R == Cached \ Victims(c)
<1>1. k \in Keys /\ k \notin Cached /\ c \in Nat
  BY PendingFacts, CostsAssumption DEF IInv, FetchInsert, LoadingIsMissing, contains, Cached
<1>2. /\ size_' = SizeAfterEvict(c) + c /\ cleared' = cleared
      /\ key_to_value_' = [x \in Keys |-> IF x = k THEN e
                                          ELSE IF x \in Victims(c) THEN NoEntry
                                          ELSE key_to_value_[x]]
  BY DEF FetchInsert
<1>3. Cached' = R \cup {k}
  BY CachedAfterInsert
<1>4. /\ IsFiniteSet(Cached) /\ \A x \in Cached : x \in Keys /\ key_to_value_[x].cost \in Nat
      /\ Retained \in Nat /\ size_ \in Int
  BY CachedFacts DEF IInv, Types
<1>5. e.cost = c
  OBVIOUS
<1> HIDE DEF e
<1>6. \A x \in R : key_to_value_'[x] = key_to_value_[x]
  BY <1>1, <1>2, <1>4
<1>7. key_to_value_'[k].cost = c
  BY <1>1, <1>2, <1>5
<1>8. IsFiniteSet(R)
  BY <1>4, FS_Subset
<1>9. IsFiniteSet(R \cup {k}) /\ (R \cup {k}) \ {k} = R
  BY <1>1, <1>8, FS_AddElement
<1>10. \A x \in R : key_to_value_[x].cost \in Nat
  BY <1>4
<1>11. Total(key_to_value_', R) = Total(key_to_value_, R)
  BY <1>6, <1>8, <1>10, TotalAgrees
<1>12. Total(key_to_value_', R \cup {k}) = c + Total(key_to_value_', R)
  <2> DEFINE S == R \cup {k}
  <2>1. IsFiniteSet(S) /\ S \ {k} = R /\ k \in S
    BY <1>9
  <2>2. \A x \in S : key_to_value_'[x].cost \in Nat
    BY <1>1, <1>6, <1>7, <1>10
  <2> HIDE DEF S
  <2>3. Total(key_to_value_', S) = key_to_value_'[k].cost + Total(key_to_value_', S \ {k})
    BY <2>1, <2>2, TotalOfLess
  <2> QED
    BY <1>7, <2>1, <2>3 DEF S
<1>13. Retained' = c + Total(key_to_value_, R)
  BY <1>3, <1>11, <1>12, RetainedIsTotal
<1>14. CASE NeedsRoom(c) /\ key_tracker_ # <<>>
  <2> DEFINE h == Head(key_tracker_)
  <2>1. Victims(c) = {h} /\ SizeAfterEvict(c) = size_ - key_to_value_[h].cost
    BY <1>14 DEF Victims, SizeAfterEvict
  <2>2. h \in Cached
    BY <2>1, AfterEvict
  <2> HIDE DEF h
  <2>3. /\ Total(key_to_value_, Cached \ {h}) \in Nat
        /\ Retained = key_to_value_[h].cost + Total(key_to_value_, Cached \ {h})
    BY <2>2, RetainedWithout
  <2>4. PICK a \in Nat, r \in Nat :
           a = key_to_value_[h].cost /\ r = Total(key_to_value_, Cached \ {h})
    BY <1>4, <2>2, <2>3
  <2>5. Retained = a + r /\ Retained' = c + r /\ size_' = size_ - a + c
    BY <1>2, <1>13, <2>1, <2>3, <2>4
  <2>6. Retained <= size_ => Retained' <= size_'
    BY <1>1, <1>4, <2>5
  <2>7. size_ = Retained => size_' = Retained'
    BY <1>1, <1>4, <2>5
  <2> QED
    BY <1>2, <2>6, <2>7 DEF SizeAccounting
<1>15. CASE ~(NeedsRoom(c) /\ key_tracker_ # <<>>)
  <2>1. R = Cached /\ SizeAfterEvict(c) = size_
    BY <1>15 DEF Victims, SizeAfterEvict
  <2>2. Retained' = c + Retained /\ size_' = size_ + c
    BY <1>2, <1>13, <2>1, RetainedIsTotal
  <2>3. Retained <= size_ => Retained' <= size_'
    BY <1>1, <1>4, <2>2
  <2>4. size_ = Retained => size_' = Retained'
    BY <1>1, <1>4, <2>2
  <2> QED
    BY <1>2, <2>3, <2>4 DEF SizeAccounting
<1> QED
  BY <1>14, <1>15

\* remove() takes off the cost of what it erases.
LEMMA RemoveKeyAccounts ==
    ASSUME IInv, NEW t \in Threads, NEW k \in Keys, RemoveKey(t, k), SizeAccounting
    PROVE  SizeAccounting'
<1>1. /\ IsFiniteSet(Cached) /\ \A x \in Cached : x \in Keys /\ key_to_value_[x].cost \in Nat
      /\ Retained \in Nat /\ size_ \in Int
  BY CachedFacts DEF IInv, Types
<1>2. cleared' = cleared
  BY DEF RemoveKey
<1>3. CASE contains(k)
  <2> DEFINE R == Cached \ {k}
  <2>1. /\ k \in Cached /\ size_' = size_ - key_to_value_[k].cost
        /\ key_to_value_' = [key_to_value_ EXCEPT ![k] = NoEntry]
    BY <1>3 DEF RemoveKey, contains, Cached
  <2>2. Cached' = R
    BY <2>1 DEF Cached, IInv, Types
  <2>3. /\ Total(key_to_value_, R) \in Nat
        /\ Retained = key_to_value_[k].cost + Total(key_to_value_, R)
    BY <2>1, RetainedWithout
  <2>4. /\ IsFiniteSet(R)
        /\ \A x \in R : key_to_value_[x].cost \in Nat /\ key_to_value_'[x] = key_to_value_[x]
    BY <1>1, <2>1, FS_RemoveElement DEF IInv, Types
  <2> HIDE DEF R
  <2>5. Total(key_to_value_', R) = Total(key_to_value_, R)
    BY <2>4, TotalAgrees
  <2>6. Retained' = Total(key_to_value_, R)
    BY <2>2, <2>5, RetainedIsTotal
  <2>7. PICK a \in Nat, r \in Nat : a = key_to_value_[k].cost /\ r = Total(key_to_value_, R)
    BY <1>1, <2>1, <2>3
  <2>8. Retained = a + r /\ Retained' = r /\ size_' = size_ - a
    BY <2>1, <2>3, <2>6, <2>7
  <2> QED
    BY <1>1, <1>2, <2>8 DEF SizeAccounting
<1>4. CASE ~contains(k)
  <2>1. UNCHANGED <<key_to_value_, size_>>
    BY <1>4 DEF RemoveKey, cache
  <2>2. Retained' = Retained
    BY <2>1, RetainedIsTotal DEF Cached
  <2> QED
    BY <1>2, <2>1, <2>2 DEF SizeAccounting
<1> QED
  BY <1>3, <1>4

\* clear() leaves nothing that is retained; size_ keeps its value.
LEMMA ClearAccounts ==
    ASSUME IInv, NEW t \in Threads, Clear(t), SizeAccounting
    PROVE  SizeAccounting'
<1>1. size_' = size_ /\ cleared' = TRUE /\ key_to_value_' = [k \in Keys |-> NoEntry]
  BY DEF Clear
<1>2. Cached' = {}
  BY <1>1 DEF Cached
<1> DEFINE S == Cached'
<1>3. IsFiniteSet(S) /\ S = {}
  BY <1>2, FS_EmptySet
<1> HIDE DEF S
<1>4. Total(key_to_value_', S) = 0
  BY <1>3, TotalOfLess
<1>5. Retained' = 0
  BY <1>4, RetainedIsTotal DEF S
<1>6. size_ >= 0
  BY CachedFacts DEF SizeAccounting, IInv, Types
<1> QED
  BY <1>1, <1>5, <1>6 DEF SizeAccounting

LEMMA AccountsInit == Init => SizeAccounting
<1> SUFFICES ASSUME Init PROVE SizeAccounting
  OBVIOUS
<1> DEFINE S == Cached
<1>1. IsFiniteSet(S) /\ S = {}
  BY FS_EmptySet DEF Init, Cached
<1> HIDE DEF S
<1>2. Total(key_to_value_, S) = 0
  BY <1>1, TotalOfLess
<1>3. Retained = 0
  BY <1>2, RetainedIsTotal DEF S
<1> QED
  BY <1>3 DEF SizeAccounting, Init

LEMMA AccountsUnchanged ==
    ASSUME SizeAccounting, UNCHANGED <<key_to_value_, size_, cleared>>
    PROVE  SizeAccounting'
<1>1. Retained' = Retained
  BY RetainedIsTotal DEF Cached
<1> QED
  BY <1>1 DEF SizeAccounting

LEMMA NextAccounts == IInv /\ SizeAccounting /\ [Next]_vars => SizeAccounting'
<1> SUFFICES ASSUME IInv, SizeAccounting, [Next]_vars PROVE SizeAccounting'
  OBVIOUS
<1>1. ASSUME NEW t \in Threads, NEW k \in Keys, FetchHit(t, k) \/ FetchMiss(t, k) \/ RemoveFaults(t, k)
      PROVE  SizeAccounting'
  BY <1>1, AccountsUnchanged DEF FetchHit, FetchMiss, RemoveFaults, cache, history
<1>2. ASSUME NEW t \in Threads, NEW k \in Keys, RemoveKey(t, k) PROVE SizeAccounting'
  BY <1>2, RemoveKeyAccounts
<1>3. ASSUME NEW t \in Threads, NEW c \in Costs, FetchInsert(t, c) PROVE SizeAccounting'
  BY <1>3, FetchInsertAccounts
<1>4. ASSUME NEW t \in Threads, NEW c \in Costs, FetchInsertAborts(t, c) PROVE SizeAccounting'
  BY <1>4, AccountsUnchanged DEF FetchInsertAborts, cache, history
<1>5. ASSUME NEW t \in Threads, LoaderThrows(t) PROVE SizeAccounting'
  BY <1>5, AccountsUnchanged DEF LoaderThrows, cache, history
<1>6. ASSUME NEW t \in Threads, Clear(t) PROVE SizeAccounting'
  BY <1>6, ClearAccounts
<1>7. ASSUME NEW k \in Keys, Edit(k) PROVE SizeAccounting'
  BY <1>7, AccountsUnchanged DEF Edit, cache, history
<1>8. CASE Ended \/ UNCHANGED vars
  BY <1>8, AccountsUnchanged DEF Ended, vars
<1> QED
  BY <1>1, <1>2, <1>3, <1>4, <1>5, <1>6, <1>7, <1>8 DEF Next

-----------------------------------------------------------------------------
(* The results. *)

\* evict() and splice() dereference list and map entries without a check: the
\* usage list and the map always hold the same keys, each once.
THEOREM TrackerMatches == Spec => []TrackerMatchesMap
<1>1. IInv => TrackerMatchesMap
  BY DEF IInv, TrackerMatchesMap, NoDuplicates
<1> QED
  BY <1>1, IInvAlways, PTL

\* The unsigned running total of the cache never falls below what is retained,
\* so that subtracting the cost of a record never wraps, and it is exact until
\* clear() is called.
THEOREM Accounting == Spec => []SizeAccounting
<1>1. Init => SizeAccounting
  BY AccountsInit
<1>2. IInv /\ SizeAccounting /\ [Next]_vars => SizeAccounting'
  BY NextAccounts
<1> QED
  BY <1>1, <1>2, IInvAlways, PTL DEF Spec

\* The usage list is in order of last use.
THEOREM Recency == Spec => []RecencyOrder
<1>1. IInv => RecencyOrder
  BY DEF IInv, RecencyOrder, Ordered
<1> QED
  BY <1>1, IInvAlways, PTL

\* Whatever fetches are under way, no version older than the last
\* invalidation of its key is in the cache or about to enter it.
THEOREM Fresh == Spec => []FreshSinceInvalidation
<1>1. IInv => FreshSinceInvalidation
  BY DEF IInv
<1> QED
  BY <1>1, IInvAlways, PTL

\* A record dropped to make room was used before every other one.
THEOREM EvictsLRU == Spec => EvictsLeastRecentlyUsed
<1> DEFINE A == \A t \in Threads : (pending[t].active /\ ~pending'[t].active) =>
                   \A k \in Cached : key_to_value_'[k] = NoEntry =>
                       \A other \in Cached \ {k} : <<k, other>> \in usedAfter
<1>1. ASSUME IInv, Next PROVE A
  <2> SUFFICES ASSUME NEW t \in Threads, pending[t].active, ~pending'[t].active,
                      NEW k \in Cached, key_to_value_'[k] = NoEntry
               PROVE  \A other \in Cached \ {k} : <<k, other>> \in usedAfter
    OBVIOUS
  <2>0. k \in Keys /\ key_to_value_[k] # NoEntry /\ key_to_value_' # key_to_value_
        /\ pending' # pending
    BY DEF Cached
  <2>1. ASSUME NEW x \in Threads, NEW c \in Costs, FetchInsert(x, c)
        PROVE  \A other \in Cached \ {k} : <<k, other>> \in usedAfter
    <3>1. k \notin Cached'
      BY DEF Cached
    <3>2. k \in Victims(c)
      BY <1>1, <2>1, <3>1, CachedAfterInsert
    <3> QED
      BY <1>1, <3>2, AfterEvict
  <2>2. ASSUME NEW x \in Threads, NEW y \in Keys, FetchMiss(x, y)
        PROVE  FALSE
    BY <2>0, <2>2 DEF FetchMiss, cache
  <2>3. ASSUME NEW x \in Threads, NEW y \in Keys,
               FetchHit(x, y) \/ RemoveKey(x, y) \/ RemoveFaults(x, y)
        PROVE  FALSE
    BY <2>0, <2>3 DEF FetchHit, RemoveKey, RemoveFaults
  <2>4. ASSUME NEW x \in Threads, NEW c \in Costs, FetchInsertAborts(x, c)
        PROVE  FALSE
    BY <2>0, <2>4 DEF FetchInsertAborts
  <2>5. ASSUME NEW x \in Threads, LoaderThrows(x) \/ Clear(x)
        PROVE  FALSE
    BY <2>0, <2>5 DEF LoaderThrows, Clear, cache
  <2>6. ASSUME NEW y \in Keys, Edit(y)
        PROVE  FALSE
    BY <2>0, <2>6 DEF Edit
  <2>7. ~Ended
    BY <2>0 DEF Ended, vars
  <2> QED
    BY <1>1, <2>1, <2>2, <2>3, <2>4, <2>5, <2>6, <2>7 DEF Next
<1>2. IInv /\ [Next]_vars => [A]_vars
  BY <1>1
<1>3. QED
  BY <1>2, IInvAlways, PTL DEF Spec, EvictsLeastRecentlyUsed

\* The cache behaves, for its clients, as a table that may forget anything at
\* any time but never remembers a version older than the last invalidation.
THEOREM Implements == Spec => ImplementsMemoTable
<1>1. Init => Memo!Init
  BY DEF Init, Memo!Init, Table, contains
<1>2. ASSUME IInv, [Next]_vars PROVE [Memo!Next]_(Memo!vars)
  <2>0. ASSUME UNCHANGED <<key_to_value_, source, floor>> PROVE [Memo!Next]_(Memo!vars)
    BY <2>0 DEF Memo!vars, Table, contains
  <2>1. ASSUME NEW t \in Threads, NEW c \in Costs, FetchInsert(t, c)
        PROVE  Memo!Next
    <3> DEFINE k == pending[t].key
               v == pending[t].version
    <3>1. k \in Keys /\ v \in floor[k]..source[k]
      BY <1>2, <2>1, PendingFacts DEF IInv, FetchInsert, FreshSinceInvalidation
    <3>2. [version |-> v, cost |-> c] # NoEntry
      BY <1>2, <2>1, EntryFacts, PendingFacts DEF IInv, FetchInsert, Entry
    <3>3. Victims(c) \in SUBSET Keys
      BY <1>2, AfterEvict DEF Cached
    <3>4. /\ key_to_value_' = [x \in Keys |-> IF x = k THEN [version |-> v, cost |-> c]
                                              ELSE IF x \in Victims(c) THEN NoEntry
                                              ELSE key_to_value_[x]]
          /\ UNCHANGED <<source, floor>>
      BY <2>1 DEF FetchInsert
    <3> HIDE DEF k, v
    <3>5. Table' = [x \in Keys |-> IF x = k THEN v
                                   ELSE IF x \in Victims(c) THEN NoEntry ELSE Table[x]]
      BY <3>1, <3>2, <3>4 DEF Table, contains
    <3>6. Memo!Fill(k, Victims(c))
      BY <3>1, <3>4, <3>5 DEF Memo!Fill
    <3> QED
      BY <3>1, <3>3, <3>6 DEF Memo!Next
  <2>2. ASSUME NEW t \in Threads, NEW k \in Keys, RemoveKey(t, k)
        PROVE  Memo!Next
    <3>1. floor' = [floor EXCEPT ![k] = source[k]] /\ UNCHANGED source
      BY <2>2 DEF RemoveKey
    <3>2. key_to_value_' = [key_to_value_ EXCEPT ![k] = NoEntry]
      BY <1>2, <2>2 DEF RemoveKey, IInv, Types, contains, cache
    <3>3. Table' = [x \in Keys |-> IF x \in {k} THEN NoEntry ELSE Table[x]]
      BY <1>2, <3>2 DEF Table, contains, IInv, Types
    <3>4. floor' = [x \in Keys |-> IF x \in {k} THEN source[x] ELSE floor[x]]
      BY <1>2, <3>1 DEF IInv, Types
    <3>5. Memo!Invalidate({k})
      BY <3>1, <3>3, <3>4 DEF Memo!Invalidate
    <3> QED
      BY <3>5 DEF Memo!Next
  <2>3. ASSUME NEW t \in Threads, Clear(t)
        PROVE  Memo!Next
    <3>1. Table' = [x \in Keys |-> NoEntry] /\ floor' = source /\ UNCHANGED source
      BY <2>3 DEF Clear, Table, contains
    <3>2. Table' = [x \in Keys |-> IF x \in Keys THEN NoEntry ELSE Table[x]]
      BY <3>1
    <3>3. floor' = [x \in Keys |-> IF x \in Keys THEN source[x] ELSE floor[x]]
      BY <1>2, <3>1 DEF IInv, Types
    <3>4. Memo!Invalidate(Keys)
      BY <3>1, <3>2, <3>3 DEF Memo!Invalidate
    <3> QED
      BY <3>4 DEF Memo!Next
  <2>4. ASSUME NEW k \in Keys, Edit(k)
        PROVE  Memo!Next
    <3>1. Memo!Edit(k)
      BY <2>4 DEF Edit, Memo!Edit, cache, history, Table, contains
    <3> QED
      BY <3>1 DEF Memo!Next
  <2>5. ASSUME NEW t \in Threads, NEW k \in Keys,
               FetchHit(t, k) \/ FetchMiss(t, k) \/ RemoveFaults(t, k)
        PROVE  UNCHANGED <<key_to_value_, source, floor>>
    BY <2>5 DEF FetchHit, FetchMiss, RemoveFaults, cache, history
  <2>6. ASSUME NEW t \in Threads, NEW c \in Costs, FetchInsertAborts(t, c)
        PROVE  UNCHANGED <<key_to_value_, source, floor>>
    BY <2>6 DEF FetchInsertAborts, cache, history
  <2>7. ASSUME NEW t \in Threads, LoaderThrows(t)
        PROVE  UNCHANGED <<key_to_value_, source, floor>>
    BY <2>7 DEF LoaderThrows, cache, history
  <2>8. CASE Ended \/ UNCHANGED vars
    BY <2>0, <2>8 DEF Ended, vars
  <2> QED
    BY <1>2, <2>0, <2>1, <2>2, <2>3, <2>4, <2>5, <2>6, <2>7, <2>8 DEF Next
<1>3. QED
  BY <1>1, <1>2, IInvAlways, PTL DEF Spec, Memo!Spec, ImplementsMemoTable

=============================================================================
