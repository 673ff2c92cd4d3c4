-------------------------- MODULE FiguresTheorems --------------------------
(***************************************************************************)
(* The screens agree on whatever the books may hold: any customers, items, *)
(* days, entries and payments.                                             *)
(*                                                                         *)
(* A figure is a sum over a set of rows, and the prover has no induction   *)
(* over the definition of a sum.  The first part makes one: a sum of a     *)
(* function over a finite set is built by a function of the subsets, which *)
(* exists by an induction over their sizes; from it come the sum of two    *)
(* parts, of the parts of a partition, of a difference, and the order of   *)
(* sums.  LedgerInv is then what business can make of the tables, and each *)
(* property follows from it without a further induction over steps: first  *)
(* the screens of Figures, then the Today page, the brief and the          *)
(* suggestions of Pulse.  No urgent card misses the brief, suggestions can *)
(* be judged and are judged fairly, payments inferred from the copies are  *)
(* payments, and the cards say what the screens say.                       *)
(***************************************************************************)
EXTENDS Pulse, FiniteSetTheorems, NaturalsInduction, WellFoundedInduction, TLAPS

-----------------------------------------------------------------------------
(* Sums over finite sets.                                                  *)

\* The sum of a function over a set.
Over(f, S) == SumFunctionOnSet(f, S)

\* it is what adding f up, member by member, makes of each set of U.
Iterates(it, f, U) ==
    it = [s \in U |-> IF s = {} THEN 0
                      ELSE LET x == CHOOSE x \in s : TRUE IN f[x] + it[s \ {x}]]

\* The subsets of at most n members.
Small(S, n) == {s \in SUBSET S : Cardinality(s) <= n}

\* Induction over the natural numbers, of a set.
LEMMA SetInduction ==
    ASSUME NEW G, 0 \in G, \A n \in Nat : n \in G => n + 1 \in G
    PROVE  Nat \subseteq G
<1> DEFINE R == OpToRel(<, Nat)
           B == Nat \ G
<1>1. IsWellFoundedOn(R, Nat)
  BY NatLessThanWellFounded
<1>2. \A x, y \in Nat : y < x => <<y, x>> \in R
  BY DEF OpToRel
<1> HIDE DEF R
<1>3. SUFFICES ASSUME B # {} PROVE FALSE
  OBVIOUS
<1>4. PICK n \in B : \A y \in B : ~(<<y, n>> \in R)
  BY <1>1, <1>3, WFMin, Zenon
<1>5. n \in Nat /\ n # 0
  BY <1>4
<1>6. n - 1 \in Nat /\ n - 1 < n /\ (n - 1) + 1 = n
  BY <1>5
<1>7. n - 1 \in B
  BY <1>4, <1>6
<1>8. QED
  BY <1>2, <1>4, <1>5, <1>6, <1>7

\* A set without one of its members is smaller.
LEMMA SmallSets ==
    ASSUME NEW S, IsFiniteSet(S), NEW n \in Nat, NEW s \in Small(S, n + 1), NEW x \in s
    PROVE  s \ {x} \in Small(S, n) /\ s \in SUBSET S
<1>1. s \in SUBSET S /\ Cardinality(s) <= n + 1 /\ IsFiniteSet(s)
  BY FS_Subset DEF Small
<1>2. Cardinality(s \ {x}) = Cardinality(s) - 1 /\ Cardinality(s) \in Nat
  BY <1>1, FS_RemoveElement, FS_CardinalityType
<1>3. QED
  BY <1>1, <1>2 DEF Small

\* A function of the subsets that adds up f member by member exists.
LEMMA IterateExists ==
    ASSUME NEW f, NEW S, IsFiniteSet(S)
    PROVE  \E it : Iterates(it, f, SUBSET S)
<1> DEFINE G == {n \in Nat : \E it : Iterates(it, f, Small(S, n))}
<1>1. 0 \in G
  <2> DEFINE it == [s \in Small(S, 0) |-> 0]
  <2>1. \A s \in Small(S, 0) : s = {}
    <3> TAKE s \in Small(S, 0)
    <3>1. s \in SUBSET S /\ Cardinality(s) <= 0 /\ IsFiniteSet(s)
      BY FS_Subset DEF Small
    <3>2. QED
      BY <3>1, FS_EmptySet, FS_CardinalityType
  <2>2. Iterates(it, f, Small(S, 0))
    BY <2>1 DEF Iterates
  <2>3. QED
    BY <2>2
<1>2. ASSUME NEW n \in Nat, n \in G PROVE n + 1 \in G
  <2>1. PICK it : Iterates(it, f, Small(S, n))
    BY <1>2
  <2> DEFINE more == [s \in Small(S, n + 1) |->
                        IF s = {} THEN 0
                        ELSE LET x == CHOOSE x \in s : TRUE IN f[x] + it[s \ {x}]]
  <2>2. ASSUME NEW t \in Small(S, n) PROVE more[t] = it[t]
    <3>1. t \in Small(S, n + 1)
      <4>1. t \in SUBSET S /\ Cardinality(t) <= n /\ IsFiniteSet(t) /\ Cardinality(t) \in Nat
        BY FS_Subset, FS_CardinalityType DEF Small
      <4>2. QED
        BY <4>1 DEF Small
    <3>2. it[t] = IF t = {} THEN 0 ELSE LET x == CHOOSE x \in t : TRUE IN f[x] + it[t \ {x}]
      BY <2>1 DEF Iterates
    <3>3. QED
      BY <3>1, <3>2
  <2>3. ASSUME NEW s \in Small(S, n + 1), s # {}
        PROVE  LET x == CHOOSE x \in s : TRUE IN it[s \ {x}] = more[s \ {x}]
    <3> DEFINE x == CHOOSE x \in s : TRUE
    <3>1. x \in s
      BY <2>3
    <3>2. s \ {x} \in Small(S, n)
      BY <3>1, SmallSets
    <3>3. QED
      BY <3>2, <2>2
  <2>4. Iterates(more, f, Small(S, n + 1))
    <3> DEFINE body(g, s) == IF s = {} THEN 0
                             ELSE LET x == CHOOSE x \in s : TRUE IN f[x] + g[s \ {x}]
    <3>1. ASSUME NEW s \in Small(S, n + 1) PROVE body(it, s) = body(more, s)
      <4>1. CASE s = {}
        BY <4>1
      <4>2. CASE s # {}
        <5> DEFINE x == CHOOSE x \in s : TRUE
        <5>1. it[s \ {x}] = more[s \ {x}]
          BY <2>3, <4>2
        <5> HIDE DEF more, x
        <5>2. body(it, s) = f[x] + it[s \ {x}] /\ body(more, s) = f[x] + more[s \ {x}]
          BY <4>2 DEF x
        <5>3. QED
          BY <5>1, <5>2
      <4>3. QED
        BY <4>1, <4>2
    <3>2. more = [s \in Small(S, n + 1) |-> body(it, s)]
      OBVIOUS
    <3> HIDE DEF more, body
    <3>3. more = [s \in Small(S, n + 1) |-> body(more, s)]
      BY <3>1, <3>2
    <3>4. QED
      BY <3>3 DEF Iterates, body
  <2>5. QED
    BY <2>4
<1>3. Nat \subseteq G
  <2> HIDE DEF G
  <2> QED BY <1>1, <1>2, SetInduction
<1>4. Cardinality(S) \in Nat /\ Small(S, Cardinality(S)) = SUBSET S
  BY FS_CardinalityType, FS_Subset DEF Small
<1>5. QED
  BY <1>3, <1>4

\* It is the same function on the subsets of a subset.
LEMMA IteratesAgree ==
    ASSUME NEW f, NEW S, IsFiniteSet(S), NEW T \in SUBSET S, NEW a, NEW b,
           Iterates(a, f, SUBSET S), Iterates(b, f, SUBSET T)
    PROVE  \A s \in SUBSET T : a[s] = b[s]
<1> DEFINE G == {n \in Nat : \A s \in Small(T, n) : a[s] = b[s]}
<1>0. IsFiniteSet(T)
  BY FS_Subset
<1>5. ASSUME NEW s \in SUBSET T, s # {}, LET x == CHOOSE x \in s : TRUE IN a[s \ {x}] = b[s \ {x}]
      PROVE  a[s] = b[s]
  <2>1. a[s] = LET x == CHOOSE x \in s : TRUE IN f[x] + a[s \ {x}]
    BY <1>5 DEF Iterates
  <2>2. b[s] = LET x == CHOOSE x \in s : TRUE IN f[x] + b[s \ {x}]
    BY <1>5 DEF Iterates
  <2>3. QED
    BY <1>5, <2>1, <2>2
<1>6. a[{}] = 0 /\ b[{}] = 0
  BY DEF Iterates
<1>1. 0 \in G
  <2>1. ASSUME NEW s \in Small(T, 0) PROVE s = {}
    <3>1. s \in SUBSET T /\ Cardinality(s) <= 0 /\ IsFiniteSet(s)
      BY <1>0, FS_Subset DEF Small
    <3>2. QED
      BY <3>1, FS_EmptySet, FS_CardinalityType
  <2>2. QED
    BY <1>6, <2>1
<1>2. ASSUME NEW n \in Nat, n \in G PROVE n + 1 \in G
  <2> SUFFICES ASSUME NEW s \in Small(T, n + 1) PROVE a[s] = b[s]
    OBVIOUS
  <2>1. CASE s = {}
    BY <1>6, <2>1
  <2>2. CASE s # {}
    <3> DEFINE x == CHOOSE x \in s : TRUE
    <3>1. x \in s
      BY <2>2
    <3>2. s \ {x} \in Small(T, n) /\ s \in SUBSET T
      BY <3>1, <1>0, SmallSets
    <3>3. a[s \ {x}] = b[s \ {x}]
      BY <3>2, <1>2
    <3>4. QED
      BY <1>5, <2>2, <3>2, <3>3
  <2>3. QED
    BY <2>1, <2>2
<1>3. Nat \subseteq G
  <2> HIDE DEF G
  <2> QED BY <1>1, <1>2, SetInduction
<1>4. Cardinality(T) \in Nat /\ Small(T, Cardinality(T)) = SUBSET T
  BY <1>0, FS_CardinalityType, FS_Subset DEF Small
<1>7. QED
  BY <1>3, <1>4

\* What a sum is, one by one.
LEMMA OverIs ==
    ASSUME NEW f, NEW S, IsFiniteSet(S)
    PROVE  \E it : Iterates(it, f, SUBSET S) /\ Over(f, S) = it[S]
<1> DEFINE it == CHOOSE it : Iterates(it, f, SUBSET S)
<1>1. Over(f, S) = it[S]
  BY DEF Over, SumFunctionOnSet, FoldFunctionOnSet, MapThenFoldSet, Iterates
<1>2. Iterates(it, f, SUBSET S)
  BY IterateExists
<1>3. QED
  BY <1>1, <1>2

\* A sum over nothing is nothing.
LEMMA OverNone == ASSUME NEW f PROVE Over(f, {}) = 0
<1>1. PICK it : Iterates(it, f, SUBSET {}) /\ Over(f, {}) = it[{}]
  BY OverIs, FS_EmptySet
<1>2. QED
  BY <1>1 DEF Iterates

\* A sum over something is one of its terms and the sum of the others.
LEMMA OverSome ==
    ASSUME NEW f, NEW S, IsFiniteSet(S), S # {}
    PROVE  \E x \in S : Over(f, S) = f[x] + Over(f, S \ {x})
<1>1. PICK a : Iterates(a, f, SUBSET S) /\ Over(f, S) = a[S]
  BY OverIs
<1> DEFINE x == CHOOSE x \in S : TRUE
           T == S \ {x}
<1>2. x \in S
  OBVIOUS
<1>3. a[S] = f[x] + a[T]
  BY <1>1 DEF Iterates
<1>4. IsFiniteSet(T)
  BY FS_Subset
<1>5. PICK b : Iterates(b, f, SUBSET T) /\ Over(f, T) = b[T]
  BY <1>4, OverIs
<1>6. a[T] = b[T]
  <2>1. T \in SUBSET S /\ Iterates(a, f, SUBSET S) /\ Iterates(b, f, SUBSET T)
    BY <1>1, <1>5
  <2> HIDE DEF T
  <2>2. \A s \in SUBSET T : a[s] = b[s]
    BY <2>1, IteratesAgree
  <2>3. QED
    BY <2>2
<1>7. QED
  BY <1>1, <1>2, <1>3, <1>5, <1>6

\* Induction over the subsets of a finite set, of a set of them.
LEMMA SubsetInduction ==
    ASSUME NEW S, IsFiniteSet(S), NEW G, {} \in G,
           \A T \in SUBSET S : T # {} /\ (\A x \in T : T \ {x} \in G) => T \in G
    PROVE  SUBSET S \subseteq G
<1> DEFINE N == {n \in Nat : Small(S, n) \subseteq G}
<1>1. 0 \in N
  <2> SUFFICES ASSUME NEW s \in Small(S, 0) PROVE s = {}
    OBVIOUS
  <2>1. s \in SUBSET S /\ Cardinality(s) <= 0 /\ IsFiniteSet(s)
    BY FS_Subset DEF Small
  <2>2. QED
    BY <2>1, FS_EmptySet, FS_CardinalityType
<1>2. ASSUME NEW n \in Nat, n \in N PROVE n + 1 \in N
  <2> SUFFICES ASSUME NEW s \in Small(S, n + 1) PROVE s \in G
    OBVIOUS
  <2>1. \A x \in s : s \ {x} \in Small(S, n)
    BY SmallSets
  <2>2. s \in SUBSET S
    BY DEF Small
  <2>3. QED
    BY <1>2, <2>1, <2>2
<1>3. Nat \subseteq N
  <2> HIDE DEF N
  <2> QED BY <1>1, <1>2, SetInduction
<1>4. Cardinality(S) \in Nat /\ Small(S, Cardinality(S)) = SUBSET S
  BY FS_CardinalityType, FS_Subset DEF Small
<1>5. QED
  BY <1>3, <1>4

\* A sum of whole numbers is one.
LEMMA OverInt ==
    ASSUME NEW f, NEW S, IsFiniteSet(S), \A x \in S : f[x] \in Int
    PROVE  Over(f, S) \in Int
<1> DEFINE G == {T \in SUBSET S : Over(f, T) \in Int}
<1>1. {} \in G
  BY OverNone
<1>2. ASSUME NEW T \in SUBSET S, T # {}, \A x \in T : T \ {x} \in G PROVE T \in G
  <2>1. PICK x \in T : Over(f, T) = f[x] + Over(f, T \ {x})
    BY <1>2, OverSome, FS_Subset
  <2>2. f[x] \in Int /\ Over(f, T \ {x}) \in Int
    BY <1>2
  <2>3. QED
    BY <2>1, <2>2
<1>3. SUBSET S \subseteq G
  <2> HIDE DEF G
  <2> QED BY <1>1, <1>2, SubsetInduction
<1>4. QED
  BY <1>3

\* It does not matter which one is taken out first.
LEMMA OverStep ==
    ASSUME NEW f, NEW S, IsFiniteSet(S), \A x \in S : f[x] \in Int, NEW y \in S
    PROVE  Over(f, S) = f[y] + Over(f, S \ {y})
<1> DEFINE G == {T \in SUBSET S : \A z \in T : Over(f, T) = f[z] + Over(f, T \ {z})}
<1>1. {} \in G
  OBVIOUS
<1>2. ASSUME NEW T \in SUBSET S, T # {}, \A x \in T : T \ {x} \in G PROVE T \in G
  <2> SUFFICES ASSUME NEW z \in T PROVE Over(f, T) = f[z] + Over(f, T \ {z})
    OBVIOUS
  <2>0. IsFiniteSet(T)
    BY FS_Subset
  <2>1. PICK x \in T : Over(f, T) = f[x] + Over(f, T \ {x})
    BY <1>2, <2>0, OverSome
  <2>2. CASE x = z
    BY <2>1, <2>2
  <2>3. CASE x # z
    <3> DEFINE U == (T \ {x}) \ {z}
    <3>1. U = (T \ {z}) \ {x} /\ z \in T \ {x} /\ x \in T \ {z} /\ IsFiniteSet(U)
      BY <2>0, <2>3, FS_Subset
    <3>2. Over(f, T \ {x}) = f[z] + Over(f, U)
      BY <1>2, <3>1
    <3>3. Over(f, T \ {z}) = f[x] + Over(f, U)
      BY <1>2, <3>1
    <3>4. f[x] \in Int /\ f[z] \in Int
      OBVIOUS
    <3>5. Over(f, U) \in Int
      BY <3>1, OverInt
    <3> HIDE DEF U
    <3>6. QED
      BY <2>1, <3>2, <3>3, <3>4, <3>5
  <2>4. QED
    BY <2>2, <2>3
<1>3. SUBSET S \subseteq G
  <2> HIDE DEF G
  <2> QED BY <1>1, <1>2, SubsetInduction
<1>4. QED
  BY <1>3

\* Functions that agree on a set have the same sum over it.
LEMMA OverSame ==
    ASSUME NEW S, IsFiniteSet(S), NEW f, NEW g, \A x \in S : f[x] = g[x] /\ f[x] \in Int
    PROVE  Over(f, S) = Over(g, S)
<1> DEFINE G == {T \in SUBSET S : Over(f, T) = Over(g, T)}
<1>1. {} \in G
  BY OverNone
<1>2. ASSUME NEW T \in SUBSET S, T # {}, \A x \in T : T \ {x} \in G PROVE T \in G
  <2>1. PICK x \in T : TRUE
    BY <1>2
  <2>2. IsFiniteSet(T) /\ \A y \in T : f[y] \in Int /\ g[y] \in Int
    BY FS_Subset
  <2>3. Over(f, T) = f[x] + Over(f, T \ {x}) /\ Over(g, T) = g[x] + Over(g, T \ {x})
    BY <2>2, OverStep
  <2>4. QED
    BY <1>2, <2>3
<1>3. SUBSET S \subseteq G
  <2> HIDE DEF G
  <2> QED BY <1>1, <1>2, SubsetInduction
<1>4. QED
  BY <1>3

\* The whole of two parts.
LEMMA OverUnion ==
    ASSUME NEW S, IsFiniteSet(S), NEW f, \A x \in S : f[x] \in Int,
           NEW A \in SUBSET S, NEW B \in SUBSET S, A \cap B = {}
    PROVE  Over(f, A \cup B) = Over(f, A) + Over(f, B)
<1> DEFINE G == {T \in SUBSET A : Over(f, T \cup B) = Over(f, T) + Over(f, B)}
<1>0. IsFiniteSet(A) /\ IsFiniteSet(B)
  BY FS_Subset
<1>1. {} \in G
  <2>1. Over(f, B) \in Int
    BY <1>0, OverInt
  <2>2. {} \cup B = B
    OBVIOUS
  <2>3. QED
    BY <2>1, <2>2, OverNone
<1>2. ASSUME NEW T \in SUBSET A, T # {}, \A x \in T : T \ {x} \in G PROVE T \in G
  <2>1. PICK x \in T : TRUE
    BY <1>2
  <2>2. IsFiniteSet(T) /\ IsFiniteSet(T \cup B) /\ IsFiniteSet(T \ {x})
    BY FS_Subset
  <2>3. Over(f, T) = f[x] + Over(f, T \ {x})
    BY <2>2, OverStep
  <2>4. (T \cup B) \ {x} = (T \ {x}) \cup B
    BY <2>1
  <2>5. Over(f, T \cup B) = f[x] + Over(f, (T \ {x}) \cup B)
    <3>1. Over(f, T \cup B) = f[x] + Over(f, (T \cup B) \ {x})
      BY <2>2, OverStep
    <3>2. QED
      BY <2>4, <3>1
  <2>6. f[x] \in Int /\ Over(f, T \ {x}) \in Int /\ Over(f, B) \in Int
    BY <1>0, <2>2, OverInt
  <2>7. Over(f, (T \ {x}) \cup B) = Over(f, T \ {x}) + Over(f, B)
    BY <1>2
  <2>8. QED
    BY <2>3, <2>5, <2>6, <2>7
<1>3. SUBSET A \subseteq G
  <2> HIDE DEF G
  <2> QED BY <1>0, <1>1, <1>2, SubsetInduction
<1>4. QED
  BY <1>3

\* Sums are ordered as what is summed.
LEMMA OverLess ==
    ASSUME NEW S, IsFiniteSet(S), NEW f, NEW g,
           \A x \in S : f[x] \in Int /\ g[x] \in Int /\ f[x] <= g[x]
    PROVE  Over(f, S) <= Over(g, S)
<1> DEFINE G == {T \in SUBSET S : Over(f, T) <= Over(g, T)}
<1>1. {} \in G
  <2>1. Over(f, {}) = 0 /\ Over(g, {}) = 0
    BY OverNone
  <2>2. QED
    BY <2>1
<1>2. ASSUME NEW T \in SUBSET S, T # {}, \A x \in T : T \ {x} \in G PROVE T \in G
  <2>1. PICK x \in T : TRUE
    BY <1>2
  <2>2. IsFiniteSet(T) /\ IsFiniteSet(T \ {x})
    BY FS_Subset
  <2>3. Over(f, T) = f[x] + Over(f, T \ {x}) /\ Over(g, T) = g[x] + Over(g, T \ {x})
    BY <2>2, OverStep
  <2>4. Over(f, T \ {x}) \in Int /\ Over(g, T \ {x}) \in Int /\ f[x] \in Int /\ g[x] \in Int
        /\ f[x] <= g[x]
    BY <2>2, OverInt
  <2>5. Over(f, T \ {x}) <= Over(g, T \ {x})
    BY <1>2
  <2>6. QED
    BY <2>3, <2>4, <2>5
<1>3. SUBSET S \subseteq G
  <2> HIDE DEF G
  <2> QED BY <1>1, <1>2, SubsetInduction
<1>4. QED
  BY <1>3

\* The sum of k times one function and m times another.
LEMMA OverLinear ==
    ASSUME NEW S, IsFiniteSet(S), NEW f, NEW g, NEW k \in Int, NEW m \in Int, NEW h,
           \A x \in S : f[x] \in Int /\ g[x] \in Int /\ h[x] = k * f[x] + m * g[x]
    PROVE  Over(h, S) = k * Over(f, S) + m * Over(g, S)
<1> DEFINE G == {T \in SUBSET S : Over(h, T) = k * Over(f, T) + m * Over(g, T)}
<1>1. {} \in G
  <2>1. Over(f, {}) = 0 /\ Over(g, {}) = 0 /\ Over(h, {}) = 0
    BY OverNone
  <2>2. QED
    BY <2>1
<1>2. ASSUME NEW T \in SUBSET S, T # {}, \A x \in T : T \ {x} \in G PROVE T \in G
  <2>1. PICK x \in T : TRUE
    BY <1>2
  <2>2. IsFiniteSet(T) /\ IsFiniteSet(T \ {x}) /\ \A y \in T : h[y] \in Int
    BY FS_Subset
  <2>3. Over(f, T) = f[x] + Over(f, T \ {x}) /\ Over(g, T) = g[x] + Over(g, T \ {x})
        /\ Over(h, T) = h[x] + Over(h, T \ {x})
    BY <2>2, OverStep
  <2>4. Over(f, T \ {x}) \in Int /\ Over(g, T \ {x}) \in Int /\ f[x] \in Int /\ g[x] \in Int
        /\ h[x] = k * f[x] + m * g[x]
    BY <2>2, OverInt
  <2>5. Over(h, T \ {x}) = k * Over(f, T \ {x}) + m * Over(g, T \ {x})
    BY <1>2
  <2> DEFINE a == Over(f, T \ {x})
             b == Over(g, T \ {x})
             c == f[x]
             d == g[x]
  <2>6. k * (c + a) + m * (d + b) = (k * c + m * d) + (k * a + m * b)
    <3>1. a \in Int /\ b \in Int /\ c \in Int /\ d \in Int
      BY <2>4
    <3> HIDE DEF a, b, c, d
    <3>2. QED
      BY <3>1
  <2>7. QED
    BY <2>3, <2>4, <2>5, <2>6
<1>3. SUBSET S \subseteq G
  <2> HIDE DEF G
  <2> QED BY <1>1, <1>2, SubsetInduction
<1>4. QED
  BY <1>3

\* A sum of figures that are not positive, and of figures that are not negative.
LEMMA OverSign ==
    ASSUME NEW S, IsFiniteSet(S), NEW f, \A x \in S : f[x] \in Int
    PROVE  /\ (\A x \in S : f[x] <= 0) => Over(f, S) <= 0
           /\ (\A x \in S : f[x] >= 0) => Over(f, S) >= 0
<1> DEFINE zero == [x \in S |-> 0]
<1>1. \A x \in S : zero[x] \in Int /\ zero[x] = 0 /\ zero[x] = 0 * f[x] + 0 * f[x]
  OBVIOUS
<1> HIDE DEF zero
<1>2. Over(f, S) \in Int
  BY OverInt
<1>3. Over(zero, S) = 0
  <2>1. \A x \in S : f[x] \in Int /\ f[x] \in Int /\ zero[x] = 0 * f[x] + 0 * f[x]
    BY <1>1
  <2>2. Over(zero, S) = 0 * Over(f, S) + 0 * Over(f, S)
    BY <2>1, OverLinear
  <2>3. QED
    BY <1>2, <2>2
<1>4. (\A x \in S : f[x] <= 0) => Over(f, S) <= Over(zero, S)
  BY <1>1, OverLess
<1>5. (\A x \in S : f[x] >= 0) => Over(zero, S) <= Over(f, S)
  BY <1>1, OverLess
<1>6. QED
  BY <1>3, <1>4, <1>5

\* A sum of ones counts.
LEMMA OverCount ==
    ASSUME NEW S, IsFiniteSet(S), NEW f, \A x \in S : f[x] = 1
    PROVE  Over(f, S) = Cardinality(S)
<1> DEFINE G == {T \in SUBSET S : Over(f, T) = Cardinality(T)}
<1>1. {} \in G
  BY OverNone, FS_EmptySet
<1>2. ASSUME NEW T \in SUBSET S, T # {}, \A x \in T : T \ {x} \in G PROVE T \in G
  <2>1. PICK x \in T : TRUE
    BY <1>2
  <2>2. IsFiniteSet(T) /\ IsFiniteSet(T \ {x})
    BY FS_Subset
  <2>3. Over(f, T) = 1 + Over(f, T \ {x})
    BY <2>2, OverStep
  <2>4. Cardinality(T \ {x}) = Cardinality(T) - 1 /\ Cardinality(T) \in Nat
    BY <2>2, FS_RemoveElement, FS_CardinalityType
  <2>5. QED
    BY <1>2, <2>3, <2>4
<1>3. SUBSET S \subseteq G
  <2> HIDE DEF G
  <2> QED BY <1>1, <1>2, SubsetInduction
<1>4. QED
  BY <1>3

\* A whole is the sum of its parts, whatever it is parted by.
Parted(part, K, S) ==
    /\ \A k \in K : part[k] \in SUBSET S
    /\ \A x \in S : \E k \in K : x \in part[k]
    /\ \A k, l \in K : k # l => part[k] \cap part[l] = {}

\* The sums over the parts of a partition add up to the sum over the whole.
LEMMA OverParts ==
    ASSUME NEW S, IsFiniteSet(S), NEW f, \A x \in S : f[x] \in Int,
           NEW K, IsFiniteSet(K), NEW part, Parted(part, K, S),
           NEW g, \A k \in K : g[k] = Over(f, part[k])
    PROVE  Over(g, K) = Over(f, S)
<1> DEFINE In(L) == {x \in S : \E k \in L : x \in part[k]}
           G == {L \in SUBSET K : Over(g, L) = Over(f, In(L))}
<1>0. ASSUME NEW k \in K PROVE g[k] \in Int
  <2>1. IsFiniteSet(part[k]) /\ \A x \in part[k] : f[x] \in Int
    BY FS_Subset DEF Parted
  <2>2. QED
    BY <2>1, OverInt
<1>1. {} \in G
  <2>1. In({}) = {}
    OBVIOUS
  <2>2. QED
    BY <2>1, OverNone
<1>2. ASSUME NEW L \in SUBSET K, L # {}, \A k \in L : L \ {k} \in G PROVE L \in G
  <2>1. PICK k \in L : TRUE
    BY <1>2
  <2>2. IsFiniteSet(L) /\ \A j \in L : g[j] \in Int
    BY <1>0, FS_Subset
  <2>3. Over(g, L) = g[k] + Over(g, L \ {k})
    BY <2>2, OverStep
  <2>4. Over(g, L \ {k}) = Over(f, In(L \ {k})) /\ g[k] = Over(f, part[k])
    BY <1>2
  <2>5. In(L) = part[k] \cup In(L \ {k})
    BY <2>1 DEF Parted
  <2> DEFINE A == part[k]
             B == In(L \ {k})
  <2>6. A \in SUBSET S /\ B \in SUBSET S /\ A \cap B = {}
    BY DEF Parted
  <2>7. Over(g, L) = Over(f, A) + Over(f, B) /\ In(L) = A \cup B
    BY <2>3, <2>4, <2>5
  <2> HIDE DEF A, B, In
  <2>8. Over(f, A \cup B) = Over(f, A) + Over(f, B)
    BY <2>6, OverUnion
  <2>9. QED
    BY <2>7, <2>8
<1>3. SUBSET K \subseteq G
  <2> HIDE DEF G
  <2> QED BY <1>1, <1>2, SubsetInduction
<1>4. In(K) = S
  BY DEF Parted
<1>5. QED
  BY <1>3, <1>4

-----------------------------------------------------------------------------
(* The columns of a table.                                                 *)

\* A column of a table, added up.
Column(rows, c) == Over([r \in rows |-> r[c]], rows)

\* The sums the queries are made of are sums of a column.
LEMMA ColumnsAre ==
    ASSUME NEW rows
    PROVE  /\ Goods(rows) = Column(rows, "goods")
           /\ Owed(rows) = Column(rows, "owed")
           /\ Value(rows) = Column(rows, "value")
BY DEF Goods, Owed, Value, Sum, SumFunction, Column, Over

\* A column may be given by any function that agrees with it.
LEMMA ColumnIs ==
    ASSUME NEW rows, IsFiniteSet(rows), NEW c, \A r \in rows : r[c] \in Int,
           NEW f, \A r \in rows : f[r] = r[c]
    PROVE  Column(rows, c) = Over(f, rows)
BY OverSame DEF Column

\* A column of whole numbers adds up to one.
LEMMA ColumnInt ==
    ASSUME NEW rows, IsFiniteSet(rows), NEW c, \A r \in rows : r[c] \in Int
    PROVE  Column(rows, c) \in Int
BY OverInt DEF Column

\* Two parts of a table add up to the whole.
LEMMA ColumnUnion ==
    ASSUME NEW rows, IsFiniteSet(rows), NEW c, \A r \in rows : r[c] \in Int,
           NEW A \in SUBSET rows, NEW B \in SUBSET rows, A \cap B = {}, A \cup B = rows
    PROVE  Column(rows, c) = Column(A, c) + Column(B, c)
<1> DEFINE f == [r \in rows |-> r[c]]
<1>1. IsFiniteSet(A) /\ IsFiniteSet(B)
  BY FS_Subset
<1>2. Column(A, c) = Over(f, A) /\ Column(B, c) = Over(f, B) /\ Column(rows, c) = Over(f, rows)
  BY <1>1, ColumnIs
<1>3. \A r \in rows : f[r] \in Int
  OBVIOUS
<1> HIDE DEF f
<1>4. QED
  BY <1>2, <1>3, OverUnion

\* The parts of a partition of a table add up to the whole.
LEMMA ColumnParts ==
    ASSUME NEW rows, IsFiniteSet(rows), NEW c, \A r \in rows : r[c] \in Int,
           NEW K, IsFiniteSet(K), NEW part, Parted(part, K, rows),
           NEW g, \A k \in K : g[k] = Column(part[k], c)
    PROVE  Over(g, K) = Column(rows, c)
<1> DEFINE f == [r \in rows |-> r[c]]
<1>1. \A r \in rows : f[r] \in Int /\ f[r] = r[c]
  OBVIOUS
<1>2. Column(rows, c) = Over(f, rows)
  BY DEF Column
<1> HIDE DEF f
<1>3. ASSUME NEW k \in K PROVE g[k] = Over(f, part[k])
  <2>1. IsFiniteSet(part[k]) /\ \A r \in part[k] : r[c] \in Int /\ f[r] = r[c]
    BY <1>1, FS_Subset DEF Parted
  <2>2. QED
    BY <2>1, ColumnIs
<1>4. Over(g, K) = Over(f, rows)
  BY <1>1, <1>3, OverParts
<1>5. QED
  BY <1>2, <1>4

\* Where what is left out is not negative, some rows come to no more than all.
LEMMA ColumnOfSome ==
    ASSUME NEW rows, IsFiniteSet(rows), NEW c, \A r \in rows : r[c] \in Int,
           NEW A \in SUBSET rows, \A r \in rows \ A : r[c] >= 0
    PROVE  Column(A, c) <= Column(rows, c)
<1> DEFINE B == rows \ A
           zero == [r \in B |-> 0]
           f == [r \in B |-> r[c]]
<1>1. IsFiniteSet(A) /\ IsFiniteSet(B) /\ B \in SUBSET rows /\ A \cap B = {} /\ A \cup B = rows
  BY FS_Subset
<1>2. Column(rows, c) = Column(A, c) + Column(B, c)
  <2> HIDE DEF B
  <2> QED BY <1>1, ColumnUnion
<1>3. Over(zero, B) = 0
  <2>1. \A x \in B : zero[x] \in Int /\ zero[x] = 0 * zero[x] + 0 * zero[x]
    OBVIOUS
  <2> HIDE DEF zero, B
  <2>2. Over(zero, B) = 0 * Over(zero, B) + 0 * Over(zero, B)
    BY <1>1, <2>1, OverLinear
  <2>3. Over(zero, B) \in Int
    BY <1>1, <2>1, OverInt
  <2>4. QED
    BY <2>2, <2>3
<1>4. Over(zero, B) <= Over(f, B)
  <2>1. \A x \in B : zero[x] \in Int /\ f[x] \in Int /\ zero[x] <= f[x]
    OBVIOUS
  <2> HIDE DEF zero, f, B
  <2>2. QED
    BY <1>1, <2>1, OverLess
<1>5. Column(A, c) \in Int /\ Column(B, c) \in Int /\ Column(B, c) = Over(f, B)
  <2>1. \A r \in A \cup B : r[c] \in Int
    OBVIOUS
  <2>2. QED
    BY <1>1, <2>1, ColumnInt DEF Column
<1>6. QED
  BY <1>2, <1>3, <1>4, <1>5

-----------------------------------------------------------------------------
(* Images, extremes.                                                       *)

\* What a finite set is mapped to is finite, and no larger.
LEMMA ImageFinite ==
    ASSUME NEW S, IsFiniteSet(S), NEW T, NEW f, \A y \in T : \E x \in S : y = f[x]
    PROVE  IsFiniteSet(T) /\ Cardinality(T) <= Cardinality(S)
<1> DEFINE A == {x \in S : f[x] \in T}
           h == [x \in A |-> f[x]]
<1>1. IsFiniteSet(A) /\ Cardinality(A) <= Cardinality(S)
  BY FS_Subset
<1>2. h \in Surjection(A, T)
  BY DEF Surjection
<1> HIDE DEF A, h
<1>3. IsFiniteSet(T) /\ Cardinality(T) <= Cardinality(A)
  BY <1>1, <1>2, FS_Surjection
<1>4. Cardinality(T) \in Nat /\ Cardinality(A) \in Nat /\ Cardinality(S) \in Nat
  BY <1>1, <1>3, FS_CardinalityType
<1>5. QED
  BY <1>1, <1>3, <1>4

\* A map that tells the members apart loses none of them.
LEMMA ImageOfEach ==
    ASSUME NEW S, IsFiniteSet(S), NEW T, NEW f, \A y \in T : \E x \in S : y = f[x],
           \A x \in S : f[x] \in T, \A x, y \in S : f[x] = f[y] => x = y
    PROVE  Cardinality(T) = Cardinality(S)
<1> DEFINE h == [x \in S |-> f[x]]
<1>1. h \in [S -> T]
  OBVIOUS
<1>2. \A y \in T : \E x \in S : h[x] = y
  OBVIOUS
<1>3. \A x, y \in S : h[x] = h[y] => x = y
  OBVIOUS
<1>4. h \in Surjection(S, T) /\ h \in Injection(S, T)
  BY <1>1, <1>2, <1>3 DEF Surjection, Injection, IsInjective
<1> HIDE DEF h
<1>5. QED
  BY <1>4, FS_Surjection

\* A finite set of whole numbers has a greatest member.
LEMMA MaxExists ==
    ASSUME NEW S, IsFiniteSet(S), S \subseteq Int, S # {}
    PROVE  \E x \in S : \A y \in S : x >= y
<1> DEFINE G == {T \in SUBSET S : T # {} => \E x \in T : \A y \in T : x >= y}
<1>1. {} \in G
  OBVIOUS
<1>2. ASSUME NEW T \in SUBSET S, T # {}, \A x \in T : T \ {x} \in G PROVE T \in G
  <2>1. PICK z \in T : TRUE
    BY <1>2
  <2>2. CASE T \ {z} = {}
    <3>1. \A y \in T : z >= y
      BY <2>2
    <3>2. QED
      BY <2>1, <3>1
  <2>3. CASE T \ {z} # {}
    <3>1. PICK x \in T \ {z} : \A y \in T \ {z} : x >= y
      BY <1>2, <2>1, <2>3
    <3>2. CASE z >= x
      <4>1. \A y \in T : z >= y
        BY <3>1, <3>2
      <4>2. QED
        BY <4>1
    <3>3. CASE ~(z >= x)
      <4>1. \A y \in T : x >= y
        BY <3>1, <3>3
      <4>2. QED
        BY <4>1
    <3>4. QED
      BY <3>2, <3>3
  <2>4. QED
    BY <2>2, <2>3
<1>3. SUBSET S \subseteq G
  <2> HIDE DEF G
  <2> QED BY <1>1, <1>2, SubsetInduction
<1>4. QED
  BY <1>3

\* Max is that member.
LEMMA MaxIs ==
    ASSUME NEW S, IsFiniteSet(S), S \subseteq Int, S # {}
    PROVE  Max(S) \in S /\ Max(S) \in Int /\ \A y \in S : Max(S) >= y
BY MaxExists DEF Max

\* Min is the least one.
LEMMA MinIs ==
    ASSUME NEW S, IsFiniteSet(S), S \subseteq Int, S # {}
    PROVE  Min(S) \in S /\ Min(S) \in Int /\ \A y \in S : Min(S) <= y
<1> DEFINE N == {-x : x \in S}
           neg == [x \in S |-> -x]
<1>1. IsFiniteSet(N)
  <2>1. \A y \in N : \E x \in S : y = neg[x]
    OBVIOUS
  <2> HIDE DEF N, neg
  <2>2. QED
    BY <2>1, ImageFinite
<1>2. N \subseteq Int /\ N # {}
  <2>1. \A x \in S : -x \in Int
    OBVIOUS
  <2>2. \E x \in S : -x \in N
    OBVIOUS
  <2>3. QED
    BY <2>1, <2>2
<1>3. PICK n \in N : \A m \in N : n >= m
  <2> HIDE DEF N
  <2> QED BY <1>1, <1>2, MaxExists
<1>4. PICK x \in S : n = -x
  OBVIOUS
<1>5. \A y \in S : x <= y
  BY <1>3, <1>4
<1>6. QED
  BY <1>4, <1>5 DEF Min

\* A pair is finite.
LEMMA PairFinite ==
    ASSUME NEW a, NEW b
    PROVE  IsFiniteSet({a, b})
<1>1. IsFiniteSet({a}) /\ {a, b} = {a} \cup {b}
  BY FS_Singleton
<1>2. IsFiniteSet({a} \cup {b})
  BY <1>1, FS_AddElement
<1>3. QED
  BY <1>1, <1>2

\* A figure with a floor or a ceiling.
LEMMA OfTwo ==
    ASSUME NEW a \in Int, NEW b \in Int
    PROVE  /\ Max({a, b}) = IF a >= b THEN a ELSE b
           /\ Min({a, b}) = IF a <= b THEN a ELSE b
<1>1. IsFiniteSet({a, b}) /\ {a, b} \subseteq Int /\ {a, b} # {}
  BY PairFinite
<1>2. QED
  BY <1>1, MaxIs, MinIs

-----------------------------------------------------------------------------
(* What the books look like, whatever happens to them.                     *)

\* The lines of invoices: invoices are numbered in order, the lines of one were made
\* out together, and what is printed on each is the goods and a tax of one.
LinesKept(rows, d) ==
    /\ IsFiniteSet(rows) /\ rows \subseteq SalesLine
    /\ Numbers(rows) = 1..Entries(rows)
    /\ \A r \in rows : /\ r.day <= d /\ r.goods = 1
                       /\ r.total = Cardinality({q \in rows : q.no = r.no}) + 1
    /\ \A r, q \in rows : r.no = q.no => r.day = q.day

\* One balance for each invoice, and a stored lateness that is of today or older.
BalancesKept(rows, n, d) ==
    /\ IsFiniteSet(rows)
    /\ \A r \in rows : r \in ArRow /\ r.no \in 1..n /\ r.day <= d /\ r.late <= d - r.due
    /\ \A r, q \in rows : r.no = q.no => r = q

\* The copies: one of an invoice on a day; what is owed is on every copy since it
\* was; and an invoice that is gone from a copy does not come back.
CopiesKept(copies, rows, d) ==
    /\ IsFiniteSet(copies) /\ copies \subseteq Snapshot
    /\ \A s \in copies : /\ s.day <= s.on /\ s.on <= d
                         /\ \E r \in rows : r.no = s.no /\ r.day = s.day
    /\ \A s, t \in copies : s.on = t.on /\ s.no = t.no => s = t
    /\ \A r \in rows, t \in copies :
          r.owed > 0 /\ t.on >= r.day => \E s \in copies : s.on = t.on /\ s.no = r.no
    /\ \A s, t, u \in copies :
          s.no = t.no /\ s.on < u.on /\ u.on < t.on => \E v \in copies : v.on = u.on /\ v.no = s.no

\* What is pending is open.
OrdersKept(rows) ==
    /\ IsFiniteSet(rows) /\ rows \subseteq OrderLine
    /\ \A r \in rows : r.pending > 0 => r.status = "open"

\* What the tables of a company are like, whatever happened.
LedgerInv ==
    /\ day \in Nat /\ stock \in [Skus -> Int]
    /\ LinesKept(sales, day) /\ LinesKept(bills, day)
    /\ BalancesKept(ar, Entries(sales), day)
    /\ CopiesKept(snaps, ar, day) /\ (sheet # "sales" => snaps = {})
    /\ OrdersKept(orders) /\ OrdersKept(pos)
    /\ IsFiniteSet(quotes) /\ quotes \subseteq Quote

\* Entries are counted by their numbers, and there are no more of them than rows.
LEMMA NumbersFinite ==
    ASSUME NEW rows, IsFiniteSet(rows)
    PROVE  /\ IsFiniteSet(Numbers(rows)) /\ Entries(rows) = Cardinality(Numbers(rows))
           /\ Entries(rows) \in Nat /\ Cardinality(Numbers(rows)) <= Cardinality(rows)
<1> DEFINE f == [r \in rows |-> r.no]
<1>1. \A n \in Numbers(rows) : \E r \in rows : n = f[r]
  BY DEF Numbers
<1> HIDE DEF f
<1>2. IsFiniteSet(Numbers(rows)) /\ Cardinality(Numbers(rows)) <= Cardinality(rows)
  BY <1>1, ImageFinite
<1>3. Entries(rows) = Cardinality(Numbers(rows))
  BY DEF Entries, Numbers
<1>4. QED
  BY <1>2, <1>3, FS_CardinalityType

\* One more invoice.
LEMMA LinesAdded ==
    ASSUME NEW rows, NEW d \in Nat, day = d, LinesKept(rows, d), NEW c \in Customers,
           NEW items \in SUBSET Skus, items # {}
    PROVE  LET all == rows \cup InvoiceLines(Entries(rows) + 1, c, items) IN
           LinesKept(all, d) /\ Entries(all) = Entries(rows) + 1
<1> DEFINE n == Entries(rows) + 1
           new == InvoiceLines(n, c, items)
           all == rows \cup new
           f == [k \in items |-> [no |-> n, party |-> c, sku |-> k, day |-> day, goods |-> 1,
                                  total |-> Cardinality(items) + 1]]
<1>0. IsFiniteSet(rows) /\ rows \subseteq SalesLine /\ Numbers(rows) = 1..Entries(rows)
  BY DEF LinesKept
<1>1. n \in Nat \ {0} /\ n - 1 = Entries(rows) /\ \A r \in rows : r.no \in 1..n - 1
  <2>1. Entries(rows) \in Nat
    BY <1>0, NumbersFinite
  <2>2. \A r \in rows : r.no \in 1..Entries(rows)
    BY <1>0 DEF Numbers
  <2>3. QED
    BY <2>1, <2>2
<1>2. IsFiniteSet(items) /\ Cardinality(items) \in Nat
  BY FS_Subset, FS_CardinalityType, LedgersAssumption
<1>3. /\ \A r \in new : \E k \in items : r = f[k]
      /\ \A k \in items : f[k] \in new
      /\ \A j, k \in items : f[j] = f[k] => j = k
  BY DEF InvoiceLines
<1>4. IsFiniteSet(new) /\ Cardinality(new) = Cardinality(items)
  <2> HIDE DEF new, f
  <2> QED BY <1>2, <1>3, ImageFinite, ImageOfEach
<1>5. \A r \in new : /\ r \in SalesLine /\ r.no = n /\ r.day = d /\ r.goods = 1
                     /\ r.total = Cardinality(items) + 1
  BY <1>1, <1>2 DEF InvoiceLines, SalesLine
<1>6. \E r \in new : TRUE
  BY <1>3
<1> HIDE DEF new, f, n
<1>7. Numbers(all) = 1..n
  <2>0. 1..n - 1 = Numbers(rows)
    BY <1>0, <1>1
  <2>1. \A i \in 1..n - 1 : \E r \in rows : r.no = i
    BY <2>0 DEF Numbers
  <2>2. \A i : i \in 1..n <=> i \in 1..n - 1 \/ i = n
    BY <1>1
  <2>3. QED
    BY <1>1, <1>5, <1>6, <2>1, <2>2 DEF Numbers
<1>8. Entries(all) = n
  <2>1. Cardinality(1..n) = n
    BY <1>1, FS_Interval
  <2>2. QED
    BY <1>7, <2>1 DEF Entries, Numbers
<1>9. \A r \in new : {q \in all : q.no = r.no} = new
  BY <1>1, <1>5
<1>10. \A r \in rows : {q \in all : q.no = r.no} = {q \in rows : q.no = r.no}
  BY <1>1, <1>5
<1>11. IsFiniteSet(all)
  BY <1>0, <1>4, FS_Union
<1>12. \A r \in all : r.day <= d /\ r.goods = 1 /\ r.total = Cardinality({q \in all : q.no = r.no}) + 1
  <2> TAKE r \in all
  <2>1. CASE r \in rows
    BY <1>10, <2>1 DEF LinesKept
  <2>2. CASE r \in new
    <3>1. Cardinality({q \in all : q.no = r.no}) = Cardinality(items)
      BY <1>4, <1>9, <2>2
    <3>2. QED
      BY <1>5, <2>2, <3>1
  <2>3. QED
    BY <2>1, <2>2
<1>13. \A r, q \in all : r.no = q.no => r.day = q.day
  BY <1>1, <1>5 DEF LinesKept
<1>14. LinesKept(all, d)
  BY <1>0, <1>5, <1>7, <1>8, <1>11, <1>12, <1>13 DEF LinesKept
<1>15. QED
  BY <1>8, <1>14 DEF n, new

\* A sync: the lateness of today, and a copy of what is owed.
LEMMA SyncKept ==
    ASSUME NEW rows, NEW n, day \in Nat, IsFiniteSet(rows),
           \A r \in rows : r \in ArRow /\ r.no \in 1..n /\ r.day <= day,
           \A r, q \in rows : r.no = q.no => r = q,
           CopiesKept(snaps, ar, day),
           \A q \in ar : \E r \in rows : r.no = q.no /\ r.day = q.day,
           \A r \in rows : r.owed > 0 => r.day = day \/ \E q \in ar : q.no = r.no /\ q.owed > 0 /\ q.day = r.day
    PROVE  /\ BalancesKept(Dated(rows), n, day)
           /\ CopiesKept(Recorded_debts(rows), Dated(rows), day)
           /\ CopiesKept({}, Dated(rows), day)
<1> DEFINE dated == Dated(rows)
           f == [r \in rows |-> [r EXCEPT !.late = day - r.due]]
           debts == {q \in rows : q.owed > 0}
           g == [r \in debts |-> [on |-> day, no |-> r.no, party |-> r.party, day |-> r.day,
                                  due |-> r.due, owed |-> r.owed]]
           now == {[on |-> day, no |-> r.no, party |-> r.party, day |-> r.day, due |-> r.due,
                    owed |-> r.owed] : r \in debts}
           kept == {s \in snaps : ~ \E t \in now : t.on = s.on /\ t.no = s.no}
           all == kept \cup now
<1>1. /\ \A r \in dated : \E q \in rows : r = f[q]
      /\ \A q \in rows : f[q] \in dated
  BY DEF Dated
<1>2. \A q \in rows : /\ f[q] \in ArRow /\ f[q].no = q.no /\ f[q].day = q.day /\ f[q].owed = q.owed
                      /\ f[q].late <= day - q.due /\ f[q].due = q.due
  BY DEF ArRow
<1>3. IsFiniteSet(dated)
  <2> HIDE DEF dated, f
  <2> QED BY <1>1, ImageFinite
<1>4. BalancesKept(dated, n, day)
  <2> HIDE DEF dated, f
  <2> QED BY <1>1, <1>2, <1>3 DEF BalancesKept
<1>5. Recorded_debts(rows) = all
  BY DEF Recorded_debts
<1>6. /\ \A s \in now : \E r \in debts : s = g[r]
      /\ \A r \in debts : g[r] \in now
  OBVIOUS
<1>7. \A r \in debts : /\ g[r] \in Snapshot /\ g[r].on = day /\ g[r].no = r.no /\ g[r].day = r.day
  BY DEF ArRow, Snapshot
<1>8. \A r \in debts : r \in rows /\ r.owed > 0
  OBVIOUS
<1>9. \A r \in rows : r.owed > 0 => r \in debts
  OBVIOUS
<1>10. \A s \in snaps : s \in kept \/ \E t \in now : t.on = s.on /\ t.no = s.no
  OBVIOUS
<1>11. \A s \in kept : s \in snaps /\ ~ \E t \in now : t.on = s.on /\ t.no = s.no
  OBVIOUS
<1>12. IsFiniteSet(now) /\ IsFiniteSet(kept)
  <2>1. IsFiniteSet(debts) /\ IsFiniteSet(kept)
    BY FS_Subset DEF CopiesKept
  <2> HIDE DEF now, debts, g
  <2>2. QED
    BY <1>6, <2>1, ImageFinite
<1> HIDE DEF dated, f, debts, g, now, kept
<1>13. IsFiniteSet(all) /\ all \subseteq Snapshot
  <2>1. IsFiniteSet(all)
    BY <1>12, FS_Union
  <2>2. \A s \in all : s \in Snapshot
    BY <1>6, <1>7, <1>11 DEF CopiesKept
  <2>3. QED
    BY <2>1, <2>2
<1>14. \A s \in snaps : s.on \in Nat /\ s.day \in Nat /\ s.day <= s.on /\ s.on <= day
  BY DEF CopiesKept, Snapshot
<1>15. \A s \in now : s.on = day /\ \E r \in rows : r.no = s.no /\ r.day = s.day /\ r.owed > 0
  BY <1>6, <1>7, <1>8
<1>16. \A s \in snaps : \E r \in rows : r.no = s.no /\ r.day = s.day
  BY DEF CopiesKept
<1>17. \A s \in all : /\ s.day <= s.on /\ s.on <= day
                      /\ \E r \in rows : r.no = s.no /\ r.day = s.day
  BY <1>11, <1>14, <1>15, <1>16
<1>18. \A s, t \in all : s.on = t.on /\ s.no = t.no => s = t
  <2>1. \A s, t \in now : s.no = t.no => s = t
    BY <1>6, <1>7, <1>8
  <2>2. QED
    BY <1>11, <2>1 DEF CopiesKept
<1>19. \A r \in rows : r.owed > 0 => \E s \in now : s.on = day /\ s.no = r.no
  BY <1>6, <1>7, <1>9
<1>20. \A s \in snaps : \E t \in all : t.on = s.on /\ t.no = s.no
  BY <1>10
<1>21. \A t \in all : t.on = day \/ t \in snaps
  BY <1>11, <1>15
<1>22. ASSUME NEW r \in rows, NEW t \in all, r.owed > 0, t.on >= r.day
       PROVE  \E s \in all : s.on = t.on /\ s.no = r.no
  <2>1. CASE t.on = day
    BY <1>19, <1>22, <2>1
  <2>2. CASE t.on # day
    <3>1. t \in snaps /\ t.on < day
      BY <1>14, <1>21, <2>2
    <3>2. PICK q \in ar : q.no = r.no /\ q.owed > 0 /\ q.day = r.day
      BY <1>14, <1>22, <3>1
    <3>3. \E s \in snaps : s.on = t.on /\ s.no = r.no
      BY <1>22, <3>1, <3>2 DEF CopiesKept
    <3>4. QED
      BY <1>20, <3>3
  <2>3. QED
    BY <2>1, <2>2
<1>23. ASSUME NEW s \in all, NEW t \in all, NEW u \in all, s.no = t.no, s.on < u.on, u.on < t.on
       PROVE  \E v \in all : v.on = u.on /\ v.no = s.no
  <2>1. s.on \in Nat /\ t.on \in Nat /\ u.on \in Nat /\ t.on <= day
    BY <1>13, <1>17 DEF Snapshot
  <2>2. s \in snaps /\ u \in snaps
    BY <1>21, <1>23, <2>1
  <2>3. CASE t \in snaps
    <3>1. \E v \in snaps : v.on = u.on /\ v.no = s.no
      BY <1>23, <2>2, <2>3 DEF CopiesKept
    <3>2. QED
      BY <1>20, <3>1
  <2>4. CASE t \in now
    <3>1. PICK r \in rows : r.no = t.no /\ r.owed > 0
      BY <1>15, <2>4
    <3>2. r.day = s.day
      BY <1>16, <1>23, <2>2, <3>1
    <3>3. u.on >= r.day
      BY <1>14, <1>23, <2>1, <2>2, <3>2
    <3>4. QED
      BY <1>22, <1>23, <3>1, <3>3
  <2>5. QED
    BY <1>11, <2>3, <2>4
<1>24. \A x \in rows : \E r \in dated : r.no = x.no /\ r.day = x.day
  BY <1>1, <1>2
<1>25. \A r \in dated : \E x \in rows : r.no = x.no /\ r.day = x.day /\ r.owed = x.owed
  BY <1>1, <1>2
<1>26. CopiesKept(all, dated, day)
  <2>1. \A s \in all : \E r \in dated : r.no = s.no /\ r.day = s.day
    BY <1>17, <1>24
  <2>2. \A r \in dated, t \in all : r.owed > 0 /\ t.on >= r.day => \E s \in all : s.on = t.on /\ s.no = r.no
    BY <1>22, <1>25
  <2> HIDE DEF all
  <2>3. QED
    BY <1>13, <1>17, <1>18, <1>23, <2>1, <2>2 DEF CopiesKept
<1>27. CopiesKept({}, dated, day)
  BY FS_EmptySet DEF CopiesKept
<1>28. QED
  BY <1>4, <1>5, <1>26, <1>27 DEF dated

\* Lines that are delivered, or added to the orders.
LEMMA OrdersDelivered ==
    ASSUME NEW rows, OrdersKept(rows), NEW r \in rows, NEW s \in {"open", "done", "cancelled"}
    PROVE  OrdersKept((rows \ {r}) \cup {[r EXCEPT !.pending = 0, !.status = s]})
<1> DEFINE new == [r EXCEPT !.pending = 0, !.status = s]
<1>1. new \in OrderLine /\ new.pending = 0
  BY DEF OrdersKept, OrderLine
<1>2. IsFiniteSet(rows \ {r})
  BY FS_Difference DEF OrdersKept
<1> HIDE DEF new
<1>3. IsFiniteSet((rows \ {r}) \cup {new})
  BY <1>2, FS_AddElement
<1>4. OrdersKept((rows \ {r}) \cup {new})
  BY <1>1, <1>3 DEF OrdersKept
<1>5. QED
  BY <1>4 DEF new

\* New lines of an order keep the table of orders in shape.
LEMMA OrdersAdded ==
    ASSUME NEW rows, OrdersKept(rows), NEW due \in Nat, NEW pending \in Nat,
           NEW new \in NewLines(rows, due, pending)
    PROVE  OrdersKept(rows \cup new)
<1>1. PICK last \in 1..2 :
         new = {[no |-> Entries(rows) + 1, line |-> l, value |-> 1, pending |-> pending,
                 due |-> due, status |-> "open"] : l \in 1..last}
  BY DEF NewLines
<1> DEFINE f == [l \in 1..last |-> [no |-> Entries(rows) + 1, line |-> l, value |-> 1,
                                    pending |-> pending, due |-> due, status |-> "open"]]
<1>2. \A r \in new : \E l \in 1..last : r = f[l]
  BY <1>1
<1>3. Entries(rows) \in Nat
  BY NumbersFinite DEF OrdersKept
<1>4. \A r \in new : r \in OrderLine /\ r.status = "open"
  BY <1>1, <1>3 DEF OrderLine
<1>5. IsFiniteSet(1..last)
  BY FS_Interval
<1> HIDE DEF f
<1>6. IsFiniteSet(new)
  BY <1>2, <1>5, ImageFinite
<1>7. IsFiniteSet(rows \cup new)
  BY <1>6, FS_Union DEF OrdersKept
<1>8. QED
  BY <1>4, <1>7 DEF OrdersKept

\* Nothing changes with the day but what has to be no later than it.
LEMMA LaterKept ==
    ASSUME NEW rows, NEW n, NEW d \in Nat
    PROVE  /\ LinesKept(rows, d) => LinesKept(rows, d + 1)
           /\ BalancesKept(rows, n, d) => BalancesKept(rows, n, d + 1)
           /\ \A copies : CopiesKept(copies, rows, d) => CopiesKept(copies, rows, d + 1)
<1>1. \A x \in Int : x <= d => x <= d + 1
  OBVIOUS
<1>2. \A x, y \in Int : x <= d - y => x <= (d + 1) - y
  OBVIOUS
<1>3. LinesKept(rows, d) => LinesKept(rows, d + 1)
  <2> SUFFICES ASSUME LinesKept(rows, d) PROVE LinesKept(rows, d + 1)
    OBVIOUS
  <2>1. \A r \in rows : r.day \in Int
    BY DEF LinesKept, SalesLine
  <2>2. \A r \in rows : r.day <= d + 1
    BY <1>1, <2>1 DEF LinesKept
  <2>3. QED
    BY <2>2 DEF LinesKept
<1>4. BalancesKept(rows, n, d) => BalancesKept(rows, n, d + 1)
  <2> SUFFICES ASSUME BalancesKept(rows, n, d) PROVE BalancesKept(rows, n, d + 1)
    OBVIOUS
  <2>1. \A r \in rows : r.day \in Int /\ r.late \in Int /\ r.due \in Int
    BY DEF BalancesKept, ArRow
  <2>2. \A r \in rows : r.day <= d + 1 /\ r.late <= (d + 1) - r.due
    BY <1>1, <1>2, <2>1 DEF BalancesKept
  <2>3. QED
    BY <2>2 DEF BalancesKept
<1>5. ASSUME NEW copies, CopiesKept(copies, rows, d) PROVE CopiesKept(copies, rows, d + 1)
  <2>1. \A s \in copies : s.on \in Int
    BY <1>5 DEF CopiesKept, Snapshot
  <2>2. \A s \in copies : s.on <= d + 1
    BY <1>1, <1>5, <2>1 DEF CopiesKept
  <2>3. QED
    BY <1>5, <2>2 DEF CopiesKept
<1>6. QED
  BY <1>3, <1>4, <1>5

\* The receivables after a sync that changes them as SyncKept asks.
LEMMA SyncedKept ==
    ASSUME NEW rows, NEW n, day \in Nat, day' = day, sheet' = sheet,
           sheet # "sales" => snaps = {}, IsFiniteSet(rows),
           \A r \in rows : r \in ArRow /\ r.no \in 1..n /\ r.day <= day,
           \A r, q \in rows : r.no = q.no => r = q,
           CopiesKept(snaps, ar, day),
           \A q \in ar : \E r \in rows : r.no = q.no /\ r.day = q.day,
           \A r \in rows : r.owed > 0 => r.day = day \/ \E q \in ar : q.no = r.no /\ q.owed > 0 /\ q.day = r.day,
           Synced(rows)
    PROVE  BalancesKept(ar', n, day') /\ CopiesKept(snaps', ar', day') /\ (sheet' # "sales" => snaps' = {})
<1>1. /\ BalancesKept(Dated(rows), n, day)
      /\ CopiesKept(Recorded_debts(rows), Dated(rows), day)
      /\ CopiesKept({}, Dated(rows), day)
  BY SyncKept
<1>2. ar' = Dated(rows) /\ snaps' = (IF sheet = "sales" THEN Recorded_debts(rows) ELSE snaps)
  BY DEF Synced
<1>3. QED
  BY <1>1, <1>2

\* So does every step keep all tables: an invoice,
LEMMA InvoiceKept ==
    ASSUME LedgerInv, NEW c \in Customers, NEW items \in (SUBSET Skus) \ {{}}, Invoice(c, items)
    PROVE  LedgerInv'
<1> DEFINE n == Entries(sales) + 1
           new == [no |-> n, party |-> c, day |-> day, due |-> day + Terms,
                   owed |-> Cardinality(items) + 1, late |-> 0]
           rows == ar \cup {new}
<1>1. /\ sales' = sales \cup InvoiceLines(n, c, items) /\ Synced(rows)
      /\ stock' = [k \in Skus |-> stock[k] - (IF k \in items THEN 1 ELSE 0)]
      /\ UNCHANGED <<sheet, day, bills, orders, pos, quotes>>
  BY DEF Invoice
<1>2. day \in Nat /\ LinesKept(sales, day)
  BY DEF LedgerInv
<1>3. LinesKept(sales', day) /\ Entries(sales') = n
  <2>1. items \in SUBSET Skus /\ items # {}
    OBVIOUS
  <2>2. /\ LinesKept(sales \cup InvoiceLines(Entries(sales) + 1, c, items), day)
        /\ Entries(sales \cup InvoiceLines(Entries(sales) + 1, c, items)) = Entries(sales) + 1
    BY <1>2, <2>1, LinesAdded
  <2>3. QED
    BY <1>1, <2>2
<1>4. Entries(sales) \in Nat
  BY <1>2, NumbersFinite DEF LinesKept
<1>5. Cardinality(items) \in Nat
  BY FS_Subset, FS_CardinalityType, LedgersAssumption
<1>6. new \in ArRow /\ new.no = n /\ new.day = day
  BY <1>2, <1>4, <1>5, LedgersAssumption DEF ArRow
<1>7. \A r \in ar : r \in ArRow /\ r.no \in 1..Entries(sales) /\ r.day <= day
  BY DEF LedgerInv, BalancesKept
<1>8. \A r, q \in ar : r.no = q.no => r = q
  BY DEF LedgerInv, BalancesKept
<1>9. IsFiniteSet(rows)
  BY FS_AddElement DEF LedgerInv, BalancesKept
<1> HIDE DEF new
<1>10. \A r \in rows : r \in ArRow /\ r.no \in 1..n /\ r.day <= day
  BY <1>2, <1>4, <1>6, <1>7
<1>11. \A r, q \in rows : r.no = q.no => r = q
  <2>1. \A r \in ar : r.no # new.no
    BY <1>4, <1>6, <1>7
  <2>2. QED
    BY <1>8, <2>1
<1>12. \A r \in rows : r.owed > 0 => r.day = day \/ \E q \in ar : q.no = r.no /\ q.owed > 0 /\ q.day = r.day
  BY <1>6
<1>13. \A q \in ar : \E r \in rows : r.no = q.no /\ r.day = q.day
  OBVIOUS
<1>14. CopiesKept(snaps, ar, day) /\ (sheet # "sales" => snaps = {}) /\ day' = day /\ sheet' = sheet
  BY <1>1 DEF LedgerInv
<1> HIDE DEF rows, n
<1>15. BalancesKept(ar', n, day') /\ CopiesKept(snaps', ar', day') /\ (sheet' # "sales" => snaps' = {})
  BY <1>1, <1>2, <1>9, <1>10, <1>11, <1>12, <1>13, <1>14, SyncedKept
<1>16. stock' \in [Skus -> Int]
  BY <1>1 DEF LedgerInv
<1>17. QED
  BY <1>1, <1>3, <1>14, <1>15, <1>16 DEF LedgerInv

\* a payment,
LEMMA PaymentKept ==
    ASSUME LedgerInv, NEW r \in ar, Payment(r)
    PROVE  LedgerInv'
<1>1. PICK left \in {0, -1} : Synced((ar \ {r}) \cup {[r EXCEPT !.owed = left]})
  BY DEF Payment
<1> DEFINE new == [r EXCEPT !.owed = left]
           rows == (ar \ {r}) \cup {new}
           n == Entries(sales)
<1>2. UNCHANGED <<sheet, day, sales, bills, stock, orders, pos, quotes>>
  BY DEF Payment
<1>3. \A q \in ar : q \in ArRow /\ q.no \in 1..n /\ q.day <= day
  BY DEF LedgerInv, BalancesKept
<1>4. \A q, p \in ar : q.no = p.no => q = p
  BY DEF LedgerInv, BalancesKept
<1>5. new \in ArRow /\ new.no = r.no /\ new.day = r.day /\ new.owed <= 0
  BY <1>3 DEF ArRow
<1>6. IsFiniteSet(rows)
  <2>1. IsFiniteSet(ar \ {r})
    BY FS_Difference DEF LedgerInv, BalancesKept
  <2>2. QED
    BY <2>1, FS_AddElement
<1>7. Synced(rows)
  BY <1>1
<1> HIDE DEF new, n
<1>8. \A q \in rows : q \in ArRow /\ q.no \in 1..n /\ q.day <= day
  BY <1>3, <1>5
<1>9. \A q, p \in rows : q.no = p.no => q = p
  BY <1>4, <1>5
<1>10. \A q \in ar : \E p \in rows : p.no = q.no /\ p.day = q.day
  BY <1>5
<1>11. \A q \in rows : q.owed > 0 => q.day = day \/ \E p \in ar : p.no = q.no /\ p.owed > 0 /\ p.day = q.day
  <2>1. ~(new.owed > 0)
    BY <1>5 DEF ArRow
  <2>2. QED
    BY <2>1
<1>12. CopiesKept(snaps, ar, day) /\ (sheet # "sales" => snaps = {}) /\ day' = day /\ sheet' = sheet /\ day \in Nat
  BY <1>2 DEF LedgerInv
<1> HIDE DEF rows
<1>13. BalancesKept(ar', n, day') /\ CopiesKept(snaps', ar', day') /\ (sheet' # "sales" => snaps' = {})
  BY <1>6, <1>7, <1>8, <1>9, <1>10, <1>11, <1>12, SyncedKept
<1>14. QED
  BY <1>2, <1>13 DEF LedgerInv, n

\* a bill,
LEMMA BillKept ==
    ASSUME LedgerInv, NEW c \in Customers, NEW k \in Skus, Bill(c, k)
    PROVE  LedgerInv'
<1>1. /\ bills' = bills \cup InvoiceLines(Entries(bills) + 1, c, {k}) /\ Synced(ar)
      /\ stock' = [stock EXCEPT ![k] = @ + 1]
      /\ UNCHANGED <<sheet, day, sales, orders, pos, quotes>>
  BY DEF Bill
<1>2. day \in Nat /\ LinesKept(bills, day) /\ {k} \in SUBSET Skus /\ {k} # {}
  BY DEF LedgerInv
<1>3. LinesKept(bills \cup InvoiceLines(Entries(bills) + 1, c, {k}), day)
  BY <1>2, LinesAdded
<1>4. /\ IsFiniteSet(ar)
      /\ \A r \in ar : r \in ArRow /\ r.no \in 1..Entries(sales) /\ r.day <= day
      /\ \A r, q \in ar : r.no = q.no => r = q
  BY DEF LedgerInv, BalancesKept
<1>5. CopiesKept(snaps, ar, day) /\ (sheet # "sales" => snaps = {}) /\ day' = day /\ sheet' = sheet
  BY <1>1 DEF LedgerInv
<1>6. /\ \A q \in ar : \E r \in ar : r.no = q.no /\ r.day = q.day
      /\ \A r \in ar : r.owed > 0 => r.day = day \/ \E q \in ar : q.no = r.no /\ q.owed > 0 /\ q.day = r.day
  OBVIOUS
<1>7. BalancesKept(ar', Entries(sales), day') /\ CopiesKept(snaps', ar', day') /\ (sheet' # "sales" => snaps' = {})
  BY <1>1, <1>2, <1>4, <1>5, <1>6, SyncedKept
<1>8. stock' \in [Skus -> Int]
  BY <1>1 DEF LedgerInv
<1>9. QED
  BY <1>1, <1>3, <1>5, <1>7, <1>8 DEF LedgerInv

\* an order,
LEMMA OrderKept ==
    ASSUME LedgerInv, NEW due \in {day, day + 1}, Order(due)
    PROVE  LedgerInv'
<1>1. OrdersKept(orders) /\ OrdersKept(pos) /\ due \in Nat
  BY DEF LedgerInv
<1>2. \/ \E new \in NewLines(orders, due, 1) : orders' = orders \cup new /\ pos' = pos
      \/ \E new \in NewLines(pos, due, 0) : pos' = pos \cup new /\ orders' = orders
  BY DEF Order
<1>3. OrdersKept(orders') /\ OrdersKept(pos')
  BY <1>1, <1>2, OrdersAdded
<1>4. UNCHANGED <<sheet, day, sales, bills, ar, snaps, stock, quotes>>
  BY DEF Order
<1>5. QED
  BY <1>3, <1>4 DEF LedgerInv

\* a delivery,
LEMMA DeliverKept ==
    ASSUME LedgerInv, NEW r \in orders \cup pos, Deliver(r)
    PROVE  LedgerInv'
<1>1. OrdersKept(orders) /\ OrdersKept(pos)
  BY DEF LedgerInv
<1>2. PICK s \in {"open", "done", "cancelled"} :
         /\ orders' = IF r \in orders THEN (orders \ {r}) \cup {[r EXCEPT !.pending = 0, !.status = s]} ELSE orders
         /\ pos' = IF r \in pos THEN (pos \ {r}) \cup {[r EXCEPT !.pending = 0, !.status = s]} ELSE pos
  BY DEF Deliver
<1>3. OrdersKept(orders')
  <2>1. CASE r \in orders
    BY <1>1, <1>2, <2>1, OrdersDelivered
  <2>2. QED
    BY <1>1, <1>2, <2>1
<1>4. OrdersKept(pos')
  <2>1. CASE r \in pos
    BY <1>1, <1>2, <2>1, OrdersDelivered
  <2>2. QED
    BY <1>1, <1>2, <2>1
<1>5. UNCHANGED <<sheet, day, sales, bills, ar, snaps, stock, quotes>>
  BY DEF Deliver
<1>6. QED
  BY <1>3, <1>4, <1>5 DEF LedgerInv

\* a quote,
LEMMA QuotedKept ==
    ASSUME LedgerInv, NEW converted \in BOOLEAN, NEW status \in {"sent", "won", "lost"},
           Quoted(converted, status)
    PROVE  LedgerInv'
<1>1. IsFiniteSet(quotes) /\ quotes \subseteq Quote
  BY DEF LedgerInv
<1> DEFINE new == [no |-> Entries(quotes) + 1, value |-> 1, converted |-> converted, status |-> status]
<1>2. quotes' = quotes \cup {new} /\ UNCHANGED <<sheet, day, sales, bills, ar, snaps, stock, orders, pos>>
  BY DEF Quoted
<1>3. new \in Quote
  BY <1>1, NumbersFinite DEF Quote
<1> HIDE DEF new
<1>4. IsFiniteSet(quotes') /\ quotes' \subseteq Quote
  BY <1>1, <1>2, <1>3, FS_AddElement
<1>5. QED
  BY <1>2, <1>4 DEF LedgerInv

\* and midnight.
LEMMA MidnightKept ==
    ASSUME LedgerInv, Midnight
    PROVE  LedgerInv'
<1>1. day \in Nat /\ day' = day + 1 /\ UNCHANGED <<sheet, sales, bills, ar, snaps, stock, orders, pos, quotes>>
  BY DEF LedgerInv, Midnight
<1>2. /\ LinesKept(sales, day + 1) /\ LinesKept(bills, day + 1)
      /\ BalancesKept(ar, Entries(sales), day + 1) /\ CopiesKept(snaps, ar, day + 1)
  BY <1>1, LaterKept DEF LedgerInv
<1>3. QED
  BY <1>1, <1>2 DEF LedgerInv

\* Empty books are in shape.
LEMMA LedgerInvInit ==
    ASSUME LedgersInit
    PROVE  LedgerInv
<1>1. day = 0 /\ sales = {} /\ bills = {} /\ ar = {} /\ snaps = {} /\ orders = {} /\ pos = {} /\ quotes = {}
  BY DEF LedgersInit
<1>2. stock \in [Skus -> Int]
  BY DEF LedgersInit
<1>3. IsFiniteSet({}) /\ Cardinality({}) = 0
  BY FS_EmptySet
<1>4. Numbers({}) = {} /\ Entries({}) = 0
  BY <1>3 DEF Numbers, Entries
<1>5. 1..0 = {}
  OBVIOUS
<1>6. LinesKept({}, 0) /\ BalancesKept({}, 0, 0) /\ CopiesKept({}, {}, 0) /\ OrdersKept({})
  BY <1>3, <1>4, <1>5 DEF LinesKept, BalancesKept, CopiesKept, OrdersKept
<1>7. QED
  BY <1>1, <1>2, <1>3, <1>4, <1>6 DEF LedgerInv

\* The books keep the shape the figures rely on (the sync, the rebuild and the daily
\* copies of the receivables, external to the queries).
THEOREM BooksKeepTheirShape == LedgersSpec => []LedgerInv
<1>1. ASSUME LedgerInv, [LedgersNext]_ledgerVars PROVE LedgerInv'
  <2>1. CASE LedgersNext
    BY <1>1, <2>1, InvoiceKept, PaymentKept, BillKept, OrderKept, DeliverKept, QuotedKept, MidnightKept
    DEF LedgersNext
  <2>2. CASE UNCHANGED ledgerVars
    BY <1>1, <2>2 DEF LedgerInv, ledgerVars
  <2>3. QED
    BY <1>1, <2>1, <2>2
<1>2. QED
  BY LedgerInvInit, <1>1, PTL DEF LedgersSpec

\* The sign of a sum of figures that all have it.
LEMMA ColumnSign ==
    ASSUME NEW A, IsFiniteSet(A), NEW c, \A r \in A : r[c] \in Int
    PROVE  /\ (\A r \in A : r[c] >= 0) => Column(A, c) >= 0
           /\ (\A r \in A : r[c] <= 0) => Column(A, c) <= 0
           /\ (\A r \in A : r[c] = 0) => Column(A, c) = 0
           /\ (\A r \in A : r[c] > 0) /\ A # {} => Column(A, c) > 0
<1> DEFINE f == [r \in A |-> r[c]]
           zero == [r \in A |-> 0]
           one == [r \in A |-> 1]
<1>1. IsFiniteSet(A) /\ Column(A, c) = Over(f, A) /\ Column(A, c) \in Int
  BY ColumnInt DEF Column
<1>2. \A r \in A : f[r] \in Int /\ f[r] = r[c] /\ zero[r] = 0 /\ one[r] = 1
  OBVIOUS
<1> HIDE DEF f, zero, one
<1>3. Over(zero, A) = 0
  <2>1. \A r \in A : zero[r] \in Int /\ zero[r] = 0 * one[r] + 0 * one[r] /\ one[r] \in Int
    BY <1>2
  <2>2. Over(zero, A) = 0 * Over(one, A) + 0 * Over(one, A)
    BY <1>1, <2>1, OverLinear
  <2>3. Over(one, A) \in Int
    BY <1>1, <2>1, OverInt
  <2>4. QED
    BY <2>2, <2>3
<1>4. (\A r \in A : r[c] >= 0) => Column(A, c) >= 0
  <2> SUFFICES ASSUME \A r \in A : r[c] >= 0 PROVE Column(A, c) >= 0
    OBVIOUS
  <2>1. \A r \in A : zero[r] \in Int /\ f[r] \in Int /\ zero[r] <= f[r]
    BY <1>2
  <2>2. Over(zero, A) <= Over(f, A)
    BY <1>1, <2>1, OverLess
  <2>3. QED
    BY <1>1, <1>3, <2>2
<1>5. (\A r \in A : r[c] <= 0) => Column(A, c) <= 0
  <2> SUFFICES ASSUME \A r \in A : r[c] <= 0 PROVE Column(A, c) <= 0
    OBVIOUS
  <2>1. \A r \in A : zero[r] \in Int /\ f[r] \in Int /\ f[r] <= zero[r]
    BY <1>2
  <2>2. Over(f, A) <= Over(zero, A)
    BY <1>1, <2>1, OverLess
  <2>3. QED
    BY <1>1, <1>3, <2>2
<1>6. (\A r \in A : r[c] > 0) /\ A # {} => Column(A, c) > 0
  <2> SUFFICES ASSUME \A r \in A : r[c] > 0, A # {} PROVE Column(A, c) > 0
    OBVIOUS
  <2>1. \A r \in A : one[r] \in Int /\ f[r] \in Int /\ one[r] <= f[r]
    BY <1>2
  <2>2. Over(one, A) <= Over(f, A)
    BY <1>1, <2>1, OverLess
  <2>3. Over(one, A) = Cardinality(A)
    BY <1>1, <1>2, OverCount
  <2>4. Cardinality(A) > 0
    BY <1>1, FS_EmptySet, FS_CardinalityType
  <2>5. QED
    BY <1>1, <2>2, <2>3, <2>4, FS_CardinalityType
<1>7. QED
  BY <1>1, <1>4, <1>5, <1>6

-----------------------------------------------------------------------------
(* Lists.                                                                  *)

\* The total of a function is its sum over its domain.
LEMMA TotalIs ==
    ASSUME NEW g
    PROVE  Total(g) = Over(g, DOMAIN g)
BY DEF Total, SumFunction, Over

\* The n greatest exist.
LEMMA TopExists ==
    ASSUME NEW S, IsFiniteSet(S), NEW f, \A x \in S : f[x] \in Int, NEW n \in Nat
    PROVE  \E T \in SUBSET S :
              /\ Cardinality(T) = (IF Cardinality(S) < n THEN Cardinality(S) ELSE n)
              /\ \A x \in T, y \in S \ T : f[x] >= f[y]
<1> DEFINE G == {m \in Nat : m <= Cardinality(S) => \E T \in SUBSET S :
                                /\ Cardinality(T) = m
                                /\ \A x \in T, y \in S \ T : f[x] >= f[y]}
<1>0. Cardinality(S) \in Nat
  BY FS_CardinalityType
<1>1. 0 \in G
  <2>1. Cardinality({}) = 0 /\ {} \in SUBSET S
    BY FS_EmptySet
  <2>2. QED
    BY <2>1
<1>2. ASSUME NEW m \in Nat, m \in G PROVE m + 1 \in G
  <2> SUFFICES ASSUME m + 1 <= Cardinality(S)
               PROVE  \E T \in SUBSET S : /\ Cardinality(T) = m + 1
                                          /\ \A x \in T, y \in S \ T : f[x] >= f[y]
    OBVIOUS
  <2>1. PICK T \in SUBSET S : Cardinality(T) = m /\ \A x \in T, y \in S \ T : f[x] >= f[y]
    BY <1>0, <1>2
  <2> DEFINE R == S \ T
             V == {f[y] : y \in R}
  <2>2. IsFiniteSet(T) /\ IsFiniteSet(R) /\ R # {}
    <3>1. IsFiniteSet(T) /\ IsFiniteSet(R)
      BY FS_Subset
    <3>2. T # S
      BY <1>0, <2>1
    <3>3. QED
      BY <3>1, <3>2
  <2>3. V # {} /\ V \subseteq Int /\ \A v \in V : \E y \in R : v = f[y]
    BY <2>2
  <2>4. \A y \in R : f[y] \in V
    OBVIOUS
  <2> HIDE DEF V
  <2>5. IsFiniteSet(V)
    BY <2>2, <2>3, ImageFinite
  <2>6. PICK v \in V : \A u \in V : v >= u
    BY <2>3, <2>5, MaxExists
  <2>7. PICK z \in R : v = f[z]
    BY <2>3
  <2>8. Cardinality(T \cup {z}) = m + 1
    BY <2>1, <2>2, <2>7, FS_AddElement
  <2>9. \A x \in T \cup {z}, y \in S \ (T \cup {z}) : f[x] >= f[y]
    BY <2>1, <2>4, <2>6, <2>7
  <2>10. QED
    BY <2>8, <2>9
<1>3. Nat \subseteq G
  <2> HIDE DEF G
  <2> QED BY <1>1, <1>2, SetInduction
<1>4. QED
  BY <1>0, <1>3

\* A list cut at n is all of it if there are no more, and empty only if there are none.
LEMMA CutIs ==
    ASSUME NEW S, IsFiniteSet(S), NEW n \in Nat, NEW T \in SUBSET S,
           Cardinality(T) = (IF Cardinality(S) < n THEN Cardinality(S) ELSE n)
    PROVE  /\ IsFiniteSet(T)
           /\ Cardinality(S) <= n => T = S
           /\ n > 0 /\ S # {} => T # {}
<1>1. IsFiniteSet(T) /\ Cardinality(T) \in Nat /\ Cardinality(S) \in Nat
  BY FS_Subset, FS_CardinalityType
<1>2. Cardinality(S) <= n => T = S
  BY <1>1, FS_Subset
<1>3. n > 0 /\ S # {} => T # {}
  BY <1>1, FS_EmptySet
<1>4. QED
  BY <1>1, <1>2, <1>3

\* What a list shows of some figures: all of them if none that counts is left out, and
\* never more where none is negative.
LEMMA ListIs ==
    ASSUME NEW K, IsFiniteSet(K), NEW T \in SUBSET K,
           NEW all, DOMAIN all = K, \A k \in K : all[k] \in Int,
           NEW g, DOMAIN g = T, \A k \in T : g[k] = all[k]
    PROVE  /\ Total(g) \in Int /\ Total(all) \in Int
           /\ (\A k \in K \ T : all[k] = 0) => Total(g) = Total(all)
           /\ (\A k \in K \ T : all[k] >= 0) => Total(g) <= Total(all)
<1> DEFINE rest == K \ T
<1>1. IsFiniteSet(T) /\ IsFiniteSet(rest) /\ rest \in SUBSET K /\ T \cap rest = {} /\ T \cup rest = K
  BY FS_Subset
<1>2. \A k \in T \cup rest : all[k] \in Int
  BY <1>1
<1>3. Over(all, T \cup rest) = Over(all, T) + Over(all, rest)
  BY <1>1, <1>2, OverUnion
<1>4. Over(all, T \cup rest) = Over(all, K)
  BY <1>1, Zenon
<1>5. Over(all, T) = Over(g, T)
  BY <1>1, OverSame
<1>6. Over(all, T) \in Int /\ Over(all, rest) \in Int
  BY <1>1, OverInt
<1>7. /\ (\A k \in rest : all[k] <= 0) => Over(all, rest) <= 0
      /\ (\A k \in rest : all[k] >= 0) => Over(all, rest) >= 0
  BY <1>1, OverSign
<1>8. Total(g) = Over(g, T) /\ Total(all) = Over(all, K)
  BY TotalIs
<1>9. (\A k \in rest : all[k] = 0) => (\A k \in rest : all[k] <= 0) /\ (\A k \in rest : all[k] >= 0)
  OBVIOUS
<1> HIDE DEF rest
<1>10. /\ Total(g) \in Int /\ Total(all) \in Int
       /\ (\A k \in rest : all[k] = 0) => Total(g) = Total(all)
       /\ (\A k \in rest : all[k] >= 0) => Total(g) <= Total(all)
  BY <1>3, <1>4, <1>5, <1>6, <1>7, <1>8, <1>9
<1>11. QED
  BY <1>10 DEF rest

-----------------------------------------------------------------------------
(* Receivables.                                                            *)

\* What the parts of a table come to, together.
LEMMA TotalOfParts ==
    ASSUME NEW rows, IsFiniteSet(rows), NEW c, \A r \in rows : r[c] \in Int,
           NEW K, IsFiniteSet(K), NEW part, Parted(part, K, rows),
           NEW g, DOMAIN g = K, \A k \in K : g[k] = Column(part[k], c)
    PROVE  Total(g) = Column(rows, c)
BY ColumnParts, TotalIs

\* A finite table has finitely many parties.
LEMMA PartiesFinite ==
    ASSUME NEW rows, IsFiniteSet(rows)
    PROVE  IsFiniteSet(Parties(rows))
<1> DEFINE f == [r \in rows |-> r.party]
<1>1. \A c \in Parties(rows) : \E r \in rows : c = f[r]
  BY DEF Parties
<1> HIDE DEF f
<1>2. QED
  BY <1>1, ImageFinite

\* The types of the receivables, and that what is owed on some of them is a sum of a column.
LEMMA Balances ==
    ASSUME LedgerInv
    PROVE  /\ day \in Nat /\ IsFiniteSet(ar)
           /\ \A r \in ar : /\ r \in ArRow /\ r.owed \in Int /\ r.due \in Nat /\ r.day \in Nat
                            /\ r.late \in Int /\ r.late <= day - r.due /\ r.party \in Customers
           /\ \A rows \in SUBSET ar : /\ IsFiniteSet(rows) /\ Owed(rows) = Column(rows, "owed")
                                      /\ Owed(rows) \in Int
<1>1. day \in Nat /\ IsFiniteSet(ar)
  BY DEF LedgerInv, BalancesKept
<1>2. \A r \in ar : /\ r \in ArRow /\ r.owed \in Int /\ r.due \in Nat /\ r.day \in Nat
                    /\ r.late \in Int /\ r.late <= day - r.due /\ r.party \in Customers
  BY DEF LedgerInv, BalancesKept, ArRow
<1>3. ASSUME NEW rows \in SUBSET ar
      PROVE  IsFiniteSet(rows) /\ Owed(rows) = Column(rows, "owed") /\ Owed(rows) \in Int
  <2>1. IsFiniteSet(rows) /\ \A r \in rows : r["owed"] \in Int
    BY <1>1, <1>2, FS_Subset
  <2>2. Column(rows, "owed") \in Int
    BY <2>1, ColumnInt
  <2>3. QED
    BY <2>1, <2>2, ColumnsAre
<1>4. QED
  BY <1>1, <1>2, <1>3

\* What is owed on some of the balances, and on the others.
LEMMA OwedOfTwo ==
    ASSUME LedgerInv, NEW A \in SUBSET ar, NEW B \in SUBSET ar, A \cap B = {}
    PROVE  Owed(A \cup B) = Owed(A) + Owed(B)
<1> DEFINE rows == A \cup B
<1>1. IsFiniteSet(rows) /\ \A r \in rows : r["owed"] \in Int
  BY Balances
<1>2. Owed(A) = Column(A, "owed") /\ Owed(B) = Column(B, "owed") /\ Owed(rows) = Column(rows, "owed")
  BY Balances
<1>3. A \in SUBSET rows /\ B \in SUBSET rows /\ A \cup B = rows
  OBVIOUS
<1> HIDE DEF rows
<1>4. Column(rows, "owed") = Column(A, "owed") + Column(B, "owed")
  BY <1>1, <1>3, ColumnUnion
<1>5. QED
  BY <1>2, <1>4 DEF rows

\* What is owed has the sign of the balances.
LEMMA OwedSign ==
    ASSUME LedgerInv, NEW A \in SUBSET ar
    PROVE  /\ (\A r \in A : r.owed >= 0) => Owed(A) >= 0
           /\ (\A r \in A : r.owed <= 0) => Owed(A) <= 0
           /\ (\A r \in A : r.owed = 0) => Owed(A) = 0
           /\ (\A r \in A : r.owed > 0) /\ A # {} => Owed(A) > 0
<1>1. IsFiniteSet(A) /\ Owed(A) = Column(A, "owed") /\ \A r \in A : r["owed"] \in Int
  BY Balances
<1>2. QED
  BY <1>1, ColumnSign

\* The balances of each customer, and of some balances by customer.
LEMMA OwedByCustomer ==
    ASSUME LedgerInv, NEW rows \in SUBSET ar, NEW K, Parties(rows) \subseteq K, IsFiniteSet(K),
           NEW g, DOMAIN g = K, \A c \in K : g[c] = Owed({r \in rows : r.party = c})
    PROVE  Total(g) = Owed(rows)
<1> DEFINE part == [c \in K |-> {r \in rows : r.party = c}]
<1>1. IsFiniteSet(rows) /\ Owed(rows) = Column(rows, "owed") /\ \A r \in rows : r["owed"] \in Int
  BY Balances
<1>2. Parted(part, K, rows)
  BY DEF Parted, Parties
<1>3. \A c \in K : g[c] = Column(part[c], "owed")
  <2> TAKE c \in K
  <2> DEFINE A == {r \in rows : r.party = c}
  <2>1. A \in SUBSET ar
    OBVIOUS
  <2>2. g[c] = Owed(A) /\ part[c] = A
    OBVIOUS
  <2> HIDE DEF A, part
  <2>3. QED
    BY <2>1, <2>2, Balances
<1> HIDE DEF part
<1>4. QED
  BY <1>1, <1>2, <1>3, TotalOfParts

\* The four buckets of ar_summary make up what is outstanding.
LEMMA BucketsMakeTheBook ==
    ASSUME LedgerInv
    PROVE  Total(ar_summary.buckets) = ar_summary.outstanding
<1> DEFINE g == [b \in 1..4 |-> Owed({r \in OpenBalances : BucketOf(day - r.day) = b})]
           part == [b \in 1..4 |-> {r \in OpenBalances : BucketOf(day - r.day) = b}]
<1>1. ar_summary.buckets = g /\ ar_summary.outstanding = Owed(OpenBalances)
  BY DEF ar_summary
<1>2. OpenBalances \in SUBSET ar
  BY DEF OpenBalances
<1>3. IsFiniteSet(1..4) /\ DOMAIN g = 1..4
  <2>1. IsFiniteSet(1..4)
    BY FS_Interval, 1 \in Int, 4 \in Int
  <2>2. DOMAIN g = 1..4
    OBVIOUS
  <2>3. QED
    BY <2>1, <2>2
<1>4. Parted(part, 1..4, OpenBalances)
  BY DEF Parted, BucketOf
<1>5. \A b \in 1..4 : g[b] = Column(part[b], "owed")
  <2> TAKE b \in 1..4
  <2> DEFINE A == {r \in OpenBalances : BucketOf(day - r.day) = b}
  <2>1. A \in SUBSET ar
    BY <1>2
  <2>2. g[b] = Owed(A) /\ part[b] = A
    OBVIOUS
  <2> HIDE DEF A, part, g
  <2>3. QED
    BY <2>1, <2>2, Balances
<1>6. /\ IsFiniteSet(OpenBalances) /\ Owed(OpenBalances) = Column(OpenBalances, "owed")
      /\ \A r \in OpenBalances : r["owed"] \in Int
  BY <1>2, Balances
<1> HIDE DEF part, g
<1>7. Total(g) = Column(OpenBalances, "owed")
  BY <1>3, <1>4, <1>5, <1>6, TotalOfParts
<1>8. QED
  BY <1>1, <1>6, <1>7

\* The customers the exposure lists.
LEMMA ExposureIs ==
    ASSUME LedgerInv
    PROVE  /\ IsFiniteSet(Parties(ar)) /\ \A c : BalanceOf(c) \in Int
           /\ DOMAIN ar_customer_exposure \in SUBSET Parties(ar)
           /\ Cardinality(Parties(ar)) <= MAX_CUSTOMERS => DOMAIN ar_customer_exposure = Parties(ar)
           /\ \A c \in DOMAIN ar_customer_exposure :
                 /\ ar_customer_exposure[c].outstanding = BalanceOf(c)
                 /\ ar_customer_exposure[c].overdue = Owed({r \in ar : r.party = c /\ r.late > 0})
<1> DEFINE S == Parties(ar)
           f == [c \in S |-> BalanceOf(c)]
           T == Top(MAX_CUSTOMERS, S, BalanceOf)
<1>1. IsFiniteSet(S) /\ MAX_CUSTOMERS \in Nat
  BY Balances, PartiesFinite, FiguresAssumption
<1>2. ASSUME NEW c PROVE BalanceOf(c) \in Int
  <2> DEFINE A == {r \in ar : r.party = c}
  <2>1. A \in SUBSET ar
    OBVIOUS
  <2> HIDE DEF A
  <2>2. Owed(A) \in Int
    BY <2>1, Balances
  <2>3. QED
    BY <2>2 DEF BalanceOf, A
<1>3. \A c \in S : f[c] \in Int /\ f[c] = BalanceOf(c)
  BY <1>2
<1>4. \E U \in SUBSET S :
         /\ Cardinality(U) = (IF Cardinality(S) < MAX_CUSTOMERS THEN Cardinality(S) ELSE MAX_CUSTOMERS)
         /\ \A x \in U, y \in S \ U : BalanceOf(x) >= BalanceOf(y)
  <2> HIDE DEF S, f
  <2>1. \E U \in SUBSET S :
           /\ Cardinality(U) = (IF Cardinality(S) < MAX_CUSTOMERS THEN Cardinality(S) ELSE MAX_CUSTOMERS)
           /\ \A x \in U, y \in S \ U : f[x] >= f[y]
    BY <1>1, <1>3, TopExists
  <2>2. QED
    BY <1>3, <2>1
<1>5. /\ T \in SUBSET S
      /\ Cardinality(T) = (IF Cardinality(S) < MAX_CUSTOMERS THEN Cardinality(S) ELSE MAX_CUSTOMERS)
  <2> HIDE DEF S
  <2> QED BY <1>4 DEF Top
<1>6. ar_customer_exposure =
         [c \in T |-> [outstanding |-> BalanceOf(c), overdue |-> Owed({r \in ar : r.party = c /\ r.late > 0})]]
  BY DEF ar_customer_exposure
<1> HIDE DEF S, T
<1>7. Cardinality(S) <= MAX_CUSTOMERS => T = S
  BY <1>1, <1>5, CutIs
<1>8. QED
  BY <1>1, <1>2, <1>5, <1>6, <1>7 DEF S

\* The exposures that are listed make up what is outstanding, or part of it.
LEMMA CustomersMakeTheBook ==
    ASSUME LedgerInv
    PROVE  /\ Cardinality(Parties(ar)) <= MAX_CUSTOMERS => Listed_exposure = ar_summary.outstanding
           /\ ~InCredit => Listed_exposure <= ar_summary.outstanding
<1> DEFINE K == Parties(ar)
           T == DOMAIN ar_customer_exposure
           all == [c \in K |-> BalanceOf(c)]
           g == [c \in T |-> ar_customer_exposure[c].outstanding]
           paid == ar \ OpenBalances
<1>1. Listed_exposure = Total(g)
  BY DEF Sum, Total, Listed_exposure
<1>2. Total(all) = Owed(ar)
  <2>1. DOMAIN all = Parties(ar) /\ \A c \in Parties(ar) : all[c] = Owed({r \in ar : r.party = c})
    BY DEF BalanceOf
  <2>2. IsFiniteSet(Parties(ar)) /\ ar \in SUBSET ar /\ Parties(ar) \subseteq Parties(ar)
    BY Balances, PartiesFinite
  <2> HIDE DEF all
  <2>3. QED
    BY <2>1, <2>2, OwedByCustomer
<1>7. /\ DOMAIN all = K /\ DOMAIN g = T /\ \A c \in K : all[c] = BalanceOf(c)
      /\ \A c \in T : g[c] = ar_customer_exposure[c].outstanding
  OBVIOUS
<1> HIDE DEF K, T, all, g
<1>8. IsFiniteSet(K) /\ T \in SUBSET K /\ \A c \in K : all[c] \in Int /\ all[c] = BalanceOf(c)
  BY <1>7, ExposureIs DEF K, T
<1>9. \A c \in T : g[c] = all[c]
  BY <1>7, <1>8, ExposureIs DEF T
<1>10. Cardinality(K) <= MAX_CUSTOMERS => Total(g) = Total(all)
  <2>1. Cardinality(K) <= MAX_CUSTOMERS => \A c \in K \ T : all[c] = 0
    BY ExposureIs DEF K, T
  <2>2. QED
    BY <1>7, <1>8, <1>9, <2>1, ListIs
<1>11. ~InCredit => Total(g) <= Total(all)
  <2> SUFFICES ASSUME ~InCredit PROVE Total(g) <= Total(all)
    OBVIOUS
  <2>1. ASSUME NEW c \in K \ T PROVE all[c] >= 0
    <3> DEFINE A == {r \in ar : r.party = c}
    <3>1. A \in SUBSET ar /\ \A r \in A : r.owed >= 0
      BY Balances DEF InCredit
    <3> HIDE DEF A
    <3>2. Owed(A) >= 0
      BY <3>1, OwedSign
    <3>3. QED
      BY <1>8, <3>2 DEF BalanceOf, A
  <2>2. QED
    BY <1>7, <1>8, <1>9, <2>1, ListIs
<1>3. paid \in SUBSET ar /\ OpenBalances \in SUBSET ar /\ paid \cap OpenBalances = {} /\ paid \cup OpenBalances = ar
  BY DEF OpenBalances
<1>4. \A r \in paid : r.owed = 0
  BY DEF OpenBalances
<1> HIDE DEF paid
<1>5. Owed(paid) = 0 /\ Owed(OpenBalances) \in Int
  BY <1>3, <1>4, OwedSign, Balances
<1>6. Owed(paid \cup OpenBalances) = Owed(paid) + Owed(OpenBalances)
  BY <1>3, OwedOfTwo
<1>12. Owed(ar) = Owed(OpenBalances) /\ ar_summary.outstanding = Owed(OpenBalances)
  <2>1. Owed(ar) = Owed(paid \cup OpenBalances)
    BY <1>3, Zenon
  <2>2. ar_summary.outstanding = Owed(OpenBalances)
    BY DEF ar_summary
  <2>3. QED
    BY <1>5, <1>6, <2>1, <2>2
<1>13. QED
  BY <1>1, <1>2, <1>10, <1>11, <1>12 DEF K

\* A set of latenesses.
LEMMA LatenessFinite ==
    ASSUME LedgerInv, NEW rows \in SUBSET ar
    PROVE  /\ IsFiniteSet({r.late : r \in rows}) /\ {r.late : r \in rows} \subseteq Int
           /\ IsFiniteSet({day - r.due : r \in rows}) /\ {day - r.due : r \in rows} \subseteq Int
<1> DEFINE f == [r \in rows |-> r.late]
           g == [r \in rows |-> day - r.due]
           F == {r.late : r \in rows}
           G == {day - r.due : r \in rows}
<1>1. IsFiniteSet(rows) /\ \A r \in rows : r.late \in Int /\ day - r.due \in Int
  BY Balances
<1>2. F \subseteq Int /\ G \subseteq Int
  BY <1>1
<1>3. (\A y \in F : \E r \in rows : y = f[r]) /\ (\A y \in G : \E r \in rows : y = g[r])
  OBVIOUS
<1> HIDE DEF f, g, F, G
<1>4. IsFiniteSet(F) /\ IsFiniteSet(G)
  BY <1>1, <1>3, ImageFinite
<1>5. QED
  BY <1>2, <1>4 DEF F, G

\* What a customer owes late, and what it counts for.
LEMMA LateIs ==
    ASSUME LedgerInv
    PROVE  /\ LateDebts \in SUBSET ar /\ IsFiniteSet(Parties(LateDebts))
           /\ \A c : LateOf(c) \in SUBSET ar /\ Owed(LateOf(c)) \in Int /\ Owed(LateOf(c)) >= 0
           /\ \A c \in Parties(LateDebts) : impact(c) \in Int
<1>1. LateDebts \in SUBSET ar /\ \A c : LateOf(c) \in SUBSET ar
  BY DEF LateDebts, LateOf, Debts
<1>2. IsFiniteSet(Parties(LateDebts))
  BY <1>1, Balances, PartiesFinite
<1>3. ASSUME NEW c PROVE Owed(LateOf(c)) \in Int /\ Owed(LateOf(c)) >= 0
  <2>1. \A r \in LateOf(c) : r.owed >= 0
    BY Balances DEF LateOf, LateDebts, Debts
  <2>2. QED
    BY <1>1, <2>1, Balances, OwedSign
<1>4. ASSUME NEW c \in Parties(LateDebts) PROVE impact(c) \in Int
  <2> DEFINE D == {day - r.due : r \in LateOf(c)}
             a == Owed(LateOf(c))
  <2>1. IsFiniteSet(D) /\ D \subseteq Int
    BY <1>1, LatenessFinite
  <2>2. D # {}
    BY DEF Parties, LateOf
  <2>3. impact(c) = a * Max(D)
    BY DEF impact
  <2>4. a \in Int
    BY <1>3
  <2> HIDE DEF D, a
  <2>5. Max(D) \in Int
    BY <2>1, <2>2, MaxIs
  <2>6. QED
    BY <2>3, <2>4, <2>5
<1>5. QED
  BY <1>1, <1>2, <1>3, <1>4

\* What is late of the customers listed by collections_priority makes up its total, or
\* part of it.
LEMMA ChasingMakesTheBook ==
    ASSUME LedgerInv
    PROVE  /\ Total(collections_priority.late) <= collections_priority.total
           /\ Cardinality(Parties(LateDebts)) <= MAX_ROWS =>
                 Total(collections_priority.late) = collections_priority.total
<1> DEFINE K == Parties(LateDebts)
           T == Top(MAX_ROWS, K, impact)
           f == [c \in K |-> impact(c)]
           all == [c \in K |-> Owed(LateOf(c))]
           g == [c \in T |-> Owed(LateOf(c))]
<1>1. collections_priority.late = g /\ collections_priority.total = Owed(LateDebts)
  BY DEF collections_priority
<1>2. LateDebts \in SUBSET ar /\ IsFiniteSet(K) /\ MAX_ROWS \in Nat
  BY LateIs, FiguresAssumption
<1>3. \A c \in K : f[c] \in Int /\ f[c] = impact(c)
  BY LateIs
<1>4. \E U \in SUBSET K :
         /\ Cardinality(U) = (IF Cardinality(K) < MAX_ROWS THEN Cardinality(K) ELSE MAX_ROWS)
         /\ \A x \in U, y \in K \ U : impact(x) >= impact(y)
  <2> HIDE DEF K, f
  <2>1. \E U \in SUBSET K :
           /\ Cardinality(U) = (IF Cardinality(K) < MAX_ROWS THEN Cardinality(K) ELSE MAX_ROWS)
           /\ \A x \in U, y \in K \ U : f[x] >= f[y]
    BY <1>2, <1>3, TopExists
  <2>2. QED
    BY <1>3, <2>1
<1>5. /\ T \in SUBSET K
      /\ Cardinality(T) = (IF Cardinality(K) < MAX_ROWS THEN Cardinality(K) ELSE MAX_ROWS)
  <2> HIDE DEF K
  <2> QED BY <1>4 DEF Top
<1>6. /\ DOMAIN all = K /\ DOMAIN g = T /\ \A c \in K : all[c] = Owed(LateOf(c))
      /\ \A c \in T : g[c] = Owed(LateOf(c))
  OBVIOUS
<1>7. Total(all) = Owed(LateDebts)
  <2>1. \A c \in K : all[c] = Owed({r \in LateDebts : r.party = c})
    BY <1>6 DEF LateOf
  <2>2. K \subseteq K /\ Parties(LateDebts) \subseteq K
    OBVIOUS
  <2> HIDE DEF K, all
  <2>3. QED
    BY <1>2, <1>6, <2>1, <2>2, OwedByCustomer
<1> HIDE DEF K, T, all, g
<1>8. \A c \in K : all[c] \in Int /\ all[c] >= 0
  BY <1>6, LateIs
<1>9. \A c \in T : g[c] = all[c]
  BY <1>5, <1>6
<1>10. Cardinality(K) <= MAX_ROWS => T = K
  BY <1>2, <1>5, CutIs
<1>11. Total(g) <= Total(all)
  BY <1>2, <1>5, <1>6, <1>8, <1>9, ListIs
<1>12. Cardinality(K) <= MAX_ROWS => Total(g) = Total(all)
  <2>1. Cardinality(K) <= MAX_ROWS => \A c \in K \ T : all[c] = 0
    BY <1>10
  <2>2. QED
    BY <1>2, <1>5, <1>6, <1>8, <1>9, <2>1, ListIs
<1>13. QED
  BY <1>1, <1>7, <1>11, <1>12 DEF K

\* The screens on receivables agree on the book.
LEMMA BookIsMade ==
    ASSUME LedgerInv
    PROVE  DebtsMakeTheBook
<1> DEFINE debts == Debts
           credits == {r \in ar : r.owed < 0}
<1>1. /\ Debts \in SUBSET ar /\ credits \in SUBSET ar /\ Debts \cap credits = {}
      /\ Debts \cup credits = OpenBalances
  BY Balances DEF Debts, OpenBalances
<1>2. Owed(OpenBalances) = Owed(Debts) + Owed(credits)
  BY <1>1, OwedOfTwo
<1>3. Owed(credits) <= 0
  <2>1. \A r \in credits : r.owed <= 0
    BY Balances
  <2>2. QED
    BY <1>1, <2>1, OwedSign
<1>4. Owed(Debts) \in Int /\ Owed(credits) \in Int
  BY <1>1, Balances
<1>5. dso.outstanding = Owed(Debts) /\ ar_summary.outstanding = Owed(OpenBalances)
  BY DEF dso, ar_summary
<1>6. finance_overview.outstanding <= dso.outstanding
  BY <1>2, <1>3, <1>4, <1>5 DEF finance_overview
<1>7. collections_priority.total = ar_ageing_over(0)
  BY DEF collections_priority, LateDebts, ar_ageing_over, Overdue
<1>8. ~InCredit => OpenBalances = Debts
  BY Balances DEF InCredit, Debts, OpenBalances
<1>9. ~InCredit => finance_overview.overdue = finance_overview.total_overdue
  BY <1>8 DEF finance_overview, ar_summary, collections_priority, LateDebts
<1>10. QED
  BY <1>5, <1>6, <1>7, <1>8, <1>9, BucketsMakeTheBook, CustomersMakeTheBook, ChasingMakesTheBook
  DEF DebtsMakeTheBook

-----------------------------------------------------------------------------
(* Credit.                                                                 *)

\* What a figure comes to at its worst, counting zero.
Worst(S) == Max(S \cup {0})

\* The worst of some latenesses, and no less than none.
LEMMA WorstIs ==
    ASSUME NEW S, IsFiniteSet(S), S \subseteq Int
    PROVE  /\ Worst(S) \in Nat /\ Worst(S) \in S \cup {0} /\ \A x \in S : Worst(S) >= x
<1> DEFINE T == S \cup {0}
<1>1. IsFiniteSet(T)
  BY FS_AddElement
<1>2. T \subseteq Int /\ T # {} /\ 0 \in T /\ \A x \in S : x \in T
  OBVIOUS
<1>3. Worst(S) = Max(T)
  BY DEF Worst
<1> HIDE DEF T
<1>4. Max(T) \in T /\ Max(T) \in Int /\ \A y \in T : Max(T) >= y
  BY <1>1, <1>2, MaxIs
<1>5. Worst(S) \in Nat /\ Worst(S) \in T /\ \A x \in S : Worst(S) >= x
  BY <1>2, <1>3, <1>4
<1>6. QED
  BY <1>5 DEF T

\* A customer's lateness that is no greater gives a verdict that is no harsher.
LEMMA VerdictsFollowLateness ==
    ASSUME NEW a \in Nat, NEW b \in Nat, a <= b, NEW e \in BOOLEAN, NEW f \in BOOLEAN
    PROVE  /\ credit_verdict(a, e, f) <= credit_verdict(b, e, f)
           /\ credit_verdict(a, e, f) \in 0..2
BY FiguresAssumption DEF credit_verdict

\* The share of the book a customer owes is high.
Exposed(rows, all) ==
    Owed(all) > 0 /\ 100 * Owed(rows) >= CREDIT_HIGH_EXPOSURE_SHARE * Owed(all)

\* So is the share of the sales.
Concentrated(c) ==
    Goods(sales) > 0 /\ 100 * RevenueOf(sales, c) >= CREDIT_CONCENTRATION_SHARE * Goods(sales)

\* A verdict is made of the worst lateness and the two shares.
LEMMA VerdictIs ==
    ASSUME NEW c, NEW rows, NEW all
    PROVE  /\ Verdict(c, rows, all, LAMBDA r : r.late)
                 = credit_verdict(Worst({r.late : r \in rows}), Exposed(rows, all), Concentrated(c))
           /\ Verdict(c, rows, all, LAMBDA r : day - r.due)
                 = credit_verdict(Worst({day - r.due : r \in rows}), Exposed(rows, all), Concentrated(c))
BY DEF Verdict, Worst, Exposed, Concentrated

\* The two shares are yes or no.
LEMMA BooleanShares ==
    ASSUME NEW c, NEW rows, NEW all
    PROVE  Exposed(rows, all) \in BOOLEAN /\ Concentrated(c) \in BOOLEAN
BY DEF Exposed, Concentrated

\* The gate, for one customer.
LEMMA GateIs ==
    ASSUME LedgerInv, NEW c
    PROVE  LET rows == {r \in Debts : r.party = c}
               today == IF Debts \cap {r \in ar : r.party = c} = {} THEN 0
                        ELSE Verdict(c, rows, Debts, LAMBDA r : day - r.due)
           IN  /\ credit_risk_flags(c) <= today
               /\ ar = Dated(ar) => credit_risk_flags(c) = today
<1> DEFINE rows == {r \in Debts : r.party = c}
           L == {r.late : r \in rows}
           D == {day - r.due : r \in rows}
           today == IF Debts \cap {r \in ar : r.party = c} = {} THEN 0
                    ELSE Verdict(c, rows, Debts, LAMBDA r : day - r.due)
<1>1. rows \in SUBSET ar /\ Considered(c) = rows /\ Debts \cap {r \in ar : r.party = c} = rows
  BY DEF Debts, Considered
<1>2. Worst(L) \in Nat /\ Worst(D) \in Nat /\ Worst(L) <= Worst(D)
  <2>1. /\ Worst(L) \in Nat /\ Worst(L) \in L \cup {0}
        /\ Worst(D) \in Nat /\ \A x \in D : Worst(D) >= x
    BY <1>1, LatenessFinite, WorstIs
  <2>2. \A x \in L : \E y \in D : x \in Int /\ y \in Int /\ x <= y
    BY <1>1, Balances
  <2> HIDE DEF L, D
  <2>3. QED
    BY <2>1, <2>2
<1>3. /\ credit_risk_flags(c) = IF rows = {} THEN 0
                                ELSE credit_verdict(Worst(L), Exposed(rows, Debts), Concentrated(c))
      /\ today = IF rows = {} THEN 0
                 ELSE credit_verdict(Worst(D), Exposed(rows, Debts), Concentrated(c))
  BY <1>1, VerdictIs DEF credit_risk_flags
<1>4. credit_risk_flags(c) <= today
  <2> HIDE DEF L, D, rows, today
  <2>1. credit_verdict(Worst(L), Exposed(rows, Debts), Concentrated(c))
           <= credit_verdict(Worst(D), Exposed(rows, Debts), Concentrated(c))
    BY <1>2, BooleanShares, VerdictsFollowLateness
  <2>2. QED
    BY <1>3, <2>1
<1>5. ar = Dated(ar) => L = D
  <2> SUFFICES ASSUME ar = Dated(ar) PROVE L = D
    OBVIOUS
  <2>1. \A r \in ar : r.late = day - r.due
    <3> TAKE r \in ar
    <3>1. PICK q \in ar : r = [q EXCEPT !.late = day - q.due]
      BY DEF Dated
    <3>2. q \in ArRow
      BY Balances
    <3>3. QED
      BY <3>1, <3>2 DEF ArRow
  <2>2. QED
    BY <1>1, <2>1
<1>6. QED
  BY <1>3, <1>4, <1>5

\* Nobody in credit: what is not owed does not count.
LEMMA PaidDoesNotCount ==
    ASSUME LedgerInv, ~InCredit, NEW A \in SUBSET ar
    PROVE  /\ Owed(A) = Owed(A \cap Debts)
           /\ \A B \in SUBSET ar : A \cap Debts \subseteq B => Owed(A) <= Owed(B)
<1>1. \A r \in ar : r \in Debts \/ r.owed = 0
  BY Balances DEF InCredit, Debts
<1>2. \A r \in Debts : r.owed > 0
  BY DEF Debts
<1>3. Owed(A) = Owed(A \cap Debts)
  <2> DEFINE P == A \cap Debts
             Q == A \ Debts
  <2>1. P \in SUBSET ar /\ Q \in SUBSET ar /\ P \cap Q = {} /\ P \cup Q = A
    OBVIOUS
  <2>0. Owed(A \cap Debts) = Owed(P)
    OBVIOUS
  <2>2. \A r \in Q : r.owed = 0
    BY <1>1
  <2> HIDE DEF P, Q
  <2>3. Owed(Q) = 0 /\ Owed(P) \in Int
    BY <2>1, <2>2, OwedSign, Balances
  <2>4. Owed(P \cup Q) = Owed(P) + Owed(Q)
    BY <2>1, OwedOfTwo
  <2>5. Owed(P \cup Q) = Owed(A)
    BY <2>1, Zenon
  <2>6. QED
    BY <2>0, <2>3, <2>4, <2>5
<1>4. ASSUME NEW B \in SUBSET ar, A \cap Debts \subseteq B PROVE Owed(A) <= Owed(B)
  <2> DEFINE P == A \cap Debts
             Q == B \ P
  <2>1. P \in SUBSET ar /\ Q \in SUBSET ar /\ P \cap Q = {} /\ P \cup Q = B
    BY <1>4
  <2>0. Owed(A \cap Debts) = Owed(P)
    OBVIOUS
  <2>2. \A r \in Q : r.owed >= 0
    BY <1>1, <1>4, Balances DEF InCredit
  <2> HIDE DEF P, Q
  <2>3. Owed(Q) >= 0 /\ Owed(P) \in Int /\ Owed(Q) \in Int
    BY <2>1, <2>2, OwedSign, Balances
  <2>4. Owed(P \cup Q) = Owed(P) + Owed(Q)
    BY <2>1, OwedOfTwo
  <2>5. Owed(P \cup Q) = Owed(B)
    BY <2>1, Zenon
  <2>6. QED
    BY <1>3, <2>0, <2>3, <2>4, <2>5
<1>5. QED
  BY <1>3, <1>4

\* The drill-down, for one customer, against the gate.
LEMMA DrillDownIs ==
    ASSUME LedgerInv, ~InCredit, NEW c
    PROVE  /\ c \in DOMAIN ar_customer_exposure => ar_customer_exposure[c].overdue <= LateToday(c)
           /\ credit_risk_flags(c) <= customer_finance(c)
<1> DEFINE all == {r \in ar : r.party = c}
           rows == {r \in Debts : r.party = c}
           P == {r \in ar : r.party = c /\ r.late > 0}
           Q == {r \in Debts : r.party = c /\ Overdue(r)}
           L == {r.late : r \in rows}
           A == {r.late : r \in all}
<1>1. /\ all \in SUBSET ar /\ rows \in SUBSET ar /\ P \in SUBSET ar /\ Q \in SUBSET ar
      /\ all \cap Debts = rows /\ ar \cap Debts = Debts
  BY DEF Debts
<1>2. P \cap Debts \subseteq Q
  BY Balances DEF Overdue
<1>3. /\ c \in DOMAIN ar_customer_exposure => ar_customer_exposure[c].overdue = Owed(P)
      /\ LateToday(c) = Owed(Q)
  <2>1. LateOf(c) = Q
    BY DEF LateOf, LateDebts
  <2>2. LateToday(c) = Owed(Q)
    BY <2>1, Zenon DEF LateToday
  <2> HIDE DEF Q
  <2>3. QED
    BY <2>2, ExposureIs
<1>4. c \in DOMAIN ar_customer_exposure => ar_customer_exposure[c].overdue <= LateToday(c)
  <2> HIDE DEF P, Q
  <2> QED BY <1>1, <1>2, <1>3, PaidDoesNotCount
<1>5. Owed(all) = Owed(rows) /\ Owed(ar) = Owed(Debts)
  <2> HIDE DEF all, rows
  <2>1. Owed(all) = Owed(all \cap Debts) /\ Owed(ar) = Owed(ar \cap Debts)
    BY <1>1, PaidDoesNotCount
  <2>2. QED
    BY <1>1, <2>1
<1>6. L \subseteq A
  BY DEF Debts
<1>7. /\ Worst(L) \in Nat /\ Worst(L) \in L \cup {0}
      /\ Worst(A) \in Nat /\ \A x \in A : Worst(A) >= x
  BY <1>1, LatenessFinite, WorstIs
<1>8. Worst(L) <= Worst(A)
  <2> HIDE DEF L, A
  <2> QED BY <1>6, <1>7
<1>9. /\ credit_risk_flags(c) = IF rows = {} THEN 0
                                ELSE credit_verdict(Worst(L), Exposed(rows, Debts), Concentrated(c))
      /\ customer_finance(c) = credit_verdict(Worst(A), Exposed(all, ar), Concentrated(c))
  BY VerdictIs DEF credit_risk_flags, customer_finance, Considered
<1> HIDE DEF all, rows, L, A
<1>10. Exposed(all, ar) = Exposed(rows, Debts)
  BY <1>5 DEF Exposed
<1>11. /\ credit_verdict(Worst(L), Exposed(rows, Debts), Concentrated(c))
            <= credit_verdict(Worst(A), Exposed(rows, Debts), Concentrated(c))
       /\ credit_verdict(Worst(A), Exposed(rows, Debts), Concentrated(c)) \in 0..2
  BY <1>7, <1>8, BooleanShares, VerdictsFollowLateness
<1>12. QED
  BY <1>4, <1>9, <1>10, <1>11

\* The credit gate is no harsher than the dates of today.
LEMMA GateIsFair ==
    ASSUME LedgerInv
    PROVE  GateIsNeverHarsher
<1> SUFFICES ASSUME NEW c \in Parties(ar)
             PROVE  LET true_late(r) == day - r.due
                        true == IF Debts \cap {r \in ar : r.party = c} = {} THEN 0
                                ELSE Verdict(c, {r \in Debts : r.party = c}, Debts, true_late)
                    IN  /\ credit_risk_flags(c) <= true
                        /\ ar = Dated(ar) => credit_risk_flags(c) = true
                        /\ ~InCredit => /\ c \in DOMAIN ar_customer_exposure =>
                                              ar_customer_exposure[c].overdue <= LateToday(c)
                                        /\ credit_risk_flags(c) <= customer_finance(c)
  BY DEF GateIsNeverHarsher
<1>1. QED
  BY GateIs, DrillDownIs

-----------------------------------------------------------------------------
(* Orders and quotes.                                                      *)

\* Some lines of the orders are worth no more than all.
LEMMA ValueOfSome ==
    ASSUME NEW rows, OrdersKept(rows), NEW A \in SUBSET rows
    PROVE  Value(A) <= Value(rows)
<1>1. IsFiniteSet(rows) /\ \A r \in rows : r["value"] \in Nat
  BY DEF OrdersKept, OrderLine
<1>2. \A r \in rows : r["value"] \in Int /\ r["value"] >= 0
  BY <1>1
<1>3. Column(A, "value") <= Column(rows, "value")
  BY <1>1, <1>2, ColumnOfSome
<1>4. QED
  BY <1>3, ColumnsAre

\* Two sets that share nothing have the members of both.
LEMMA CardinalityOfTwo ==
    ASSUME NEW A, NEW B, IsFiniteSet(A), IsFiniteSet(B), A \cap B = {}
    PROVE  IsFiniteSet(A \cup B) /\ Cardinality(A \cup B) = Cardinality(A) + Cardinality(B)
<1>1. IsFiniteSet(A \cup B)
      /\ Cardinality(A \cup B) = Cardinality(A) + Cardinality(B) - Cardinality(A \cap B)
  BY FS_Union
<1>2. Cardinality(A \cap B) = 0
  BY FS_EmptySet
<1>3. Cardinality(A) \in Nat /\ Cardinality(B) \in Nat
  BY FS_CardinalityType
<1>4. QED
  BY <1>1, <1>2, <1>3

\* Some rows have no more numbers than all.
LEMMA NumbersOfSome ==
    ASSUME NEW rows, IsFiniteSet(rows), NEW A \in SUBSET rows
    PROVE  Cardinality(Numbers(A)) <= Cardinality(Numbers(rows))
<1>1. IsFiniteSet(Numbers(rows)) /\ Numbers(A) \in SUBSET Numbers(rows)
  BY NumbersFinite DEF Numbers
<1>2. QED
  BY <1>1, FS_Subset

\* The lines the overdue orders list.
LEMMA ListedLines ==
    ASSUME LedgerInv
    PROVE  /\ overdue_orders.lines \in SUBSET LateLines
           /\ Cardinality(LateLines) <= MAX_INVOICES => overdue_orders.lines = LateLines
           /\ LateLines # {} => overdue_orders.lines # {}
<1> DEFINE S == LateLines
           f == [r \in S |-> day - r.due]
           T == Top(MAX_INVOICES, S, LAMBDA r : day - r.due)
<1>1. IsFiniteSet(S) /\ MAX_INVOICES \in Nat /\ MAX_INVOICES > 0
  <2>1. LateLines \in SUBSET orders /\ IsFiniteSet(orders)
    BY DEF LateLines, LedgerInv, OrdersKept
  <2>2. QED
    BY <2>1, FS_Subset, FiguresAssumption
<1>2. \A r \in S : f[r] \in Int /\ f[r] = day - r.due
  BY DEF LateLines, LedgerInv, OrdersKept, OrderLine
<1>3. \E U \in SUBSET S :
         /\ Cardinality(U) = (IF Cardinality(S) < MAX_INVOICES THEN Cardinality(S) ELSE MAX_INVOICES)
         /\ \A x \in U, y \in S \ U : day - x.due >= day - y.due
  <2> HIDE DEF S, f
  <2>1. \E U \in SUBSET S :
           /\ Cardinality(U) = (IF Cardinality(S) < MAX_INVOICES THEN Cardinality(S) ELSE MAX_INVOICES)
           /\ \A x \in U, y \in S \ U : f[x] >= f[y]
    BY <1>1, <1>2, TopExists
  <2>2. PICK U \in SUBSET S :
           /\ Cardinality(U) = (IF Cardinality(S) < MAX_INVOICES THEN Cardinality(S) ELSE MAX_INVOICES)
           /\ \A x \in U, y \in S \ U : f[x] >= f[y]
    BY <2>1
  <2>3. \A x \in U, y \in S \ U : f[x] = day - x.due /\ f[y] = day - y.due
    BY <1>2
  <2>4. QED
    BY <2>2, <2>3
<1>4. /\ T \in SUBSET S
      /\ Cardinality(T) = (IF Cardinality(S) < MAX_INVOICES THEN Cardinality(S) ELSE MAX_INVOICES)
  <2> HIDE DEF S
  <2> QED BY <1>3 DEF Top
<1>5. overdue_orders.lines = T
  BY DEF overdue_orders
<1> HIDE DEF S, T
<1>6. (Cardinality(S) <= MAX_INVOICES => T = S) /\ (S # {} => T # {})
  BY <1>1, <1>4, CutIs
<1>7. QED
  BY <1>4, <1>5, <1>6 DEF S

\* The screens on orders, purchase orders and quotes count the same.
LEMMA OrdersAre ==
    ASSUME LedgerInv
    PROVE  OrdersAreCounted
<1> DEFINE open == {r \in orders : so_open(r)}
           late == {r \in orders : r.due < day}
<1>1. OrdersKept(orders) /\ IsFiniteSet(orders) /\ open \in SUBSET orders /\ IsFiniteSet(pos)
  BY DEF LedgerInv, OrdersKept
<1>2. {r \in open : r.due < day} = {r \in late : so_open(r)}
  OBVIOUS
<1>3. order_book_summary.overdue = overdue_orders.count
  BY <1>2 DEF order_book_summary, overdue_orders
<1>4. order_book_summary.open + order_book_summary.dispatched = Entries(orders)
  <2>1. Cardinality(Numbers(open)) <= Entries(orders)
    <3> HIDE DEF open
    <3> QED BY <1>1, NumbersFinite, NumbersOfSome
  <2>2. Cardinality(Numbers(open)) \in Nat /\ Entries(orders) \in Nat
    <3>1. IsFiniteSet(open)
      BY <1>1, FS_Subset
    <3> HIDE DEF open
    <3>2. QED
      BY <1>1, <3>1, NumbersFinite, FS_CardinalityType
  <2>3. /\ order_book_summary.open = Cardinality(Numbers(open))
        /\ order_book_summary.dispatched = Max({0, Entries(orders) - Cardinality(Numbers(open))})
    BY DEF order_book_summary
  <2> HIDE DEF open
  <2> DEFINE left == Entries(orders) - Cardinality(Numbers(open))
  <2>4. left \in Int /\ left >= 0 /\ 0 \in Int
    BY <2>1, <2>2
  <2>5. Max({0, left}) = left
    <3> HIDE DEF left
    <3> QED BY <2>4, OfTwo
  <2>6. QED
    BY <2>2, <2>3, <2>5
<1>5. overdue_orders.value <= order_book_summary.value
  <2> DEFINE A == {r \in late : so_open(r)}
  <2>1. OrdersKept(open) /\ A \in SUBSET open
    BY <1>1, FS_Subset DEF OrdersKept
  <2>2. overdue_orders.value = Value(A) /\ order_book_summary.value = Value(open)
    BY DEF overdue_orders, order_book_summary
  <2> HIDE DEF A, open
  <2>3. QED
    BY <2>1, <2>2, ValueOfSome
<1>6. /\ Cardinality(LateLines) <= MAX_INVOICES =>
            overdue_orders.count <= Cardinality(Numbers(overdue_orders.lines))
      /\ overdue_orders.count > 0 => overdue_orders.lines # {}
  <2> DEFINE A == {r \in late : so_open(r)}
             B == LateLines
  <2>1. A \in SUBSET B
    BY DEF so_open, LedgerInv, OrdersKept, LateLines
  <2>2. IsFiniteSet(B)
    <3>1. B \in SUBSET orders
      BY DEF LateLines
    <3>2. QED
      BY <1>1, <3>1, FS_Subset
  <2>3. overdue_orders.count = Cardinality(Numbers(A))
    BY DEF overdue_orders
  <2> HIDE DEF A
  <2>4. Cardinality(Numbers(A)) <= Cardinality(Numbers(B))
    BY <2>1, <2>2, NumbersOfSome
  <2>5. B = {} => Cardinality(Numbers(B)) = 0
    BY FS_EmptySet DEF Numbers
  <2>6. Cardinality(Numbers(A)) \in Nat /\ Cardinality(Numbers(B)) \in Nat
    <3>1. IsFiniteSet(A)
      BY <2>1, <2>2, FS_Subset
    <3>2. QED
      BY <2>2, <3>1, NumbersFinite, FS_CardinalityType
  <2>7. overdue_orders.count > 0 => B # {}
    BY <2>3, <2>4, <2>5, <2>6
  <2>8. QED
    BY <2>3, <2>4, <2>7, ListedLines
<1>7. open_pos.overdue = overdue_pos.count /\ open_pos.overdue_value = overdue_pos.value
  <2>1. {r \in {q \in pos : q.status = "open"} : r.due < day} = {r \in pos : r.due < day /\ r.status = "open"}
    OBVIOUS
  <2>2. QED
    BY <2>1 DEF open_pos, overdue_pos
<1>8. open_pos.overdue <= open_pos.count
  <2> DEFINE A == {r \in pos : r.status = "open"}
             B == {r \in A : r.due < day}
  <2>1. IsFiniteSet(A) /\ B \in SUBSET A
    BY <1>1, FS_Subset
  <2>2. open_pos.overdue = Cardinality(Numbers(B)) /\ open_pos.count = Cardinality(Numbers(A))
    BY DEF open_pos
  <2> HIDE DEF A, B
  <2>3. QED
    BY <2>1, <2>2, NumbersOfSome
<1>9. quote_summary.won + quote_summary.open
          + Cardinality({q \in quotes : q.status = "lost" /\ ~q.converted}) = quote_summary.all
  <2> DEFINE won == Won_quotes
             lost == {q \in quotes : q.status = "lost" /\ ~q.converted}
  <2>1. /\ IsFiniteSet(Won_quotes) /\ IsFiniteSet(Open_quotes) /\ IsFiniteSet(lost)
    BY FS_Subset DEF LedgerInv, Won_quotes, Open_quotes
  <2>2. /\ Won_quotes \cap Open_quotes = {} /\ (Won_quotes \cup Open_quotes) \cap lost = {}
        /\ (Won_quotes \cup Open_quotes) \cup lost = quotes
    BY DEF LedgerInv, Quote, Won_quotes, Open_quotes
  <2> HIDE DEF lost
  <2>3. /\ IsFiniteSet(Won_quotes \cup Open_quotes)
        /\ Cardinality(Won_quotes \cup Open_quotes) = Cardinality(Won_quotes) + Cardinality(Open_quotes)
    BY <2>1, <2>2, CardinalityOfTwo
  <2>4. Cardinality(quotes) = Cardinality(Won_quotes \cup Open_quotes) + Cardinality(lost)
    BY <2>1, <2>2, <2>3, CardinalityOfTwo
  <2>5. QED
    BY <2>3, <2>4 DEF quote_summary, lost
<1>10. QED
  BY <1>3, <1>4, <1>5, <1>6, <1>7, <1>8, <1>9 DEF OrdersAreCounted

\* The screens on receivables, credit and orders agree, whatever the books look like
\* (queries.py: each figure is a query of its own).
THEOREM ReceivablesAlwaysAgree == LedgersSpec => []ReceivableScreensAgree
<1>1. LedgerInv => ReceivableScreensAgree
  BY BookIsMade, GateIsFair, OrdersAre DEF ReceivableScreensAgree
<1>2. QED
  BY BooksKeepTheirShape, <1>1, PTL

-----------------------------------------------------------------------------
(* Sales and purchases.                                                    *)

\* Division by a positive number keeps the order and makes nothing larger.
LEMMA Division ==
    ASSUME NEW D \in Nat \ {0}, NEW a \in Int, NEW b \in Int
    PROVE  /\ a \div D \in Int
           /\ a <= b => a \div D <= b \div D
           /\ a >= 0 => a \div D <= a /\ a \div D >= 0
           /\ a >= D => a \div D >= 1
OBVIOUS

\* The types of the lines, and that the goods of some of them are their number.
LEMMA LinesAre ==
    ASSUME NEW all, NEW d \in Nat, LinesKept(all, d)
    PROVE  /\ IsFiniteSet(all)
           /\ \A r \in all : /\ r.day \in Nat /\ r.goods = 1 /\ r.total \in Nat /\ r.no \in Nat
                             /\ r.party \in Customers /\ r.sku \in Skus /\ r.day <= d
           /\ \A rows \in SUBSET all : /\ IsFiniteSet(rows) /\ Goods(rows) = Column(rows, "goods")
                                       /\ Goods(rows) = Cardinality(rows) /\ Goods(rows) \in Nat
<1>1. IsFiniteSet(all)
  BY DEF LinesKept
<1>2. \A r \in all : /\ r.day \in Nat /\ r.goods = 1 /\ r.total \in Nat /\ r.no \in Nat
                     /\ r.party \in Customers /\ r.sku \in Skus /\ r.day <= d
  BY DEF LinesKept, SalesLine
<1>3. ASSUME NEW rows \in SUBSET all
      PROVE  /\ IsFiniteSet(rows) /\ Goods(rows) = Column(rows, "goods")
             /\ Goods(rows) = Cardinality(rows) /\ Goods(rows) \in Nat
  <2> DEFINE f == [r \in rows |-> r["goods"]]
  <2>1. IsFiniteSet(rows) /\ Goods(rows) = Column(rows, "goods") /\ Column(rows, "goods") = Over(f, rows)
    BY <1>1, FS_Subset, ColumnsAre DEF Column
  <2>2. \A r \in rows : f[r] = 1
    BY <1>2
  <2> HIDE DEF f
  <2>3. Over(f, rows) = Cardinality(rows)
    BY <2>1, <2>2, OverCount
  <2>4. QED
    BY <2>1, <2>3, FS_CardinalityType
<1>4. QED
  BY <1>1, <1>2, <1>3

\* What the parts of a list of lines come to, together.
LEMMA GoodsOfParts ==
    ASSUME NEW all, NEW d \in Nat, LinesKept(all, d), NEW rows \in SUBSET all,
           NEW K, IsFiniteSet(K), NEW part, Parted(part, K, rows),
           NEW g, DOMAIN g = K, \A k \in K : g[k] = Goods(part[k])
    PROVE  Total(g) = Goods(rows)
<1>1. IsFiniteSet(rows) /\ Goods(rows) = Column(rows, "goods") /\ \A r \in rows : r["goods"] \in Int
  BY LinesAre
<1>2. ASSUME NEW k \in K PROVE g[k] = Column(part[k], "goods")
  <2>1. part[k] \in SUBSET all
    BY DEF Parted
  <2>2. QED
    BY <2>1, LinesAre
<1>3. QED
  BY <1>1, <1>2, TotalOfParts

\* The goods of two parts, of a part, of nothing, and of something.
LEMMA GoodsOfTwo ==
    ASSUME NEW all, NEW d \in Nat, LinesKept(all, d), NEW A \in SUBSET all, NEW B \in SUBSET all
    PROVE  /\ A \cap B = {} => Goods(A \cup B) = Goods(A) + Goods(B)
           /\ A \subseteq B => Goods(A) <= Goods(B)
           /\ A = {} => Goods(A) = 0
           /\ A # {} => Goods(A) > 0
<1>1. /\ IsFiniteSet(A) /\ IsFiniteSet(B) /\ Goods(A) = Cardinality(A) /\ Goods(B) = Cardinality(B)
      /\ Goods(A) \in Nat /\ Goods(B) \in Nat
  BY LinesAre
<1>2. A \cap B = {} => Goods(A \cup B) = Goods(A) + Goods(B)
  <2> SUFFICES ASSUME A \cap B = {} PROVE Goods(A \cup B) = Goods(A) + Goods(B)
    OBVIOUS
  <2>1. A \cup B \in SUBSET all
    OBVIOUS
  <2>2. Goods(A \cup B) = Cardinality(A \cup B)
    BY <2>1, LinesAre
  <2>3. QED
    BY <1>1, <2>2, CardinalityOfTwo
<1>3. A \subseteq B => Goods(A) <= Goods(B)
  BY <1>1, FS_Subset
<1>4. QED
  BY <1>1, <1>2, <1>3, FS_EmptySet

\* The days and the months of some lines.
LEMMA DaysFinite ==
    ASSUME NEW all, NEW d \in Nat, LinesKept(all, d), NEW rows \in SUBSET all
    PROVE  /\ IsFiniteSet({r.day : r \in rows}) /\ {r.day : r \in rows} \subseteq Nat
           /\ IsFiniteSet({Month(r.day) : r \in rows}) /\ {Month(r.day) : r \in rows} \subseteq Int
<1> DEFINE f == [r \in rows |-> r.day]
           g == [r \in rows |-> Month(r.day)]
           F == {r.day : r \in rows}
           G == {Month(r.day) : r \in rows}
<1>1. IsFiniteSet(rows) /\ \A r \in rows : r.day \in Nat
  BY LinesAre
<1>2. F \subseteq Nat
  BY <1>1
<1>3. \A r \in rows : Month(r.day) \in Int
  BY <1>1, Division, LedgersAssumption DEF Month
<1>4. G \subseteq Int
  BY <1>3
<1>5. (\A y \in F : \E r \in rows : y = f[r]) /\ (\A y \in G : \E r \in rows : y = g[r])
  OBVIOUS
<1> HIDE DEF f, g, F, G
<1>6. IsFiniteSet(F) /\ IsFiniteSet(G)
  BY <1>1, <1>5, ImageFinite
<1>7. QED
  BY <1>2, <1>4, <1>6 DEF F, G

\* The days of a table that has rows.
LEMMA RangeIs ==
    ASSUME NEW rows, NEW d \in Nat, LinesKept(rows, d), rows # {}
    PROVE  /\ date_range(rows).from \in Nat /\ date_range(rows).to \in Nat /\ date_range(rows).to <= d
           /\ \A r \in rows : date_range(rows).from <= r.day /\ r.day <= date_range(rows).to
           /\ \E r \in rows : r.day = date_range(rows).to
           /\ date_range(rows).from <= date_range(rows).to
<1> DEFINE D == {r.day : r \in rows}
<1>1. date_range(rows).from = Min(D) /\ date_range(rows).to = Max(D)
  BY DEF date_range
<1>2. IsFiniteSet(D) /\ D \subseteq Nat
  BY DaysFinite, rows \in SUBSET rows
<1>3. (\A r \in rows : r.day \in D /\ r.day <= d) /\ \A x \in D : \E r \in rows : r.day = x
  BY LinesAre
<1>4. D # {}
  OBVIOUS
<1> HIDE DEF D
<1>5. D \subseteq Int
  BY <1>2
<1>6. /\ Max(D) \in D /\ \A y \in D : Max(D) >= y
      /\ Min(D) \in D /\ \A y \in D : Min(D) <= y
  BY <1>2, <1>4, <1>5, MaxIs, MinIs
<1>7. QED
  BY <1>1, <1>2, <1>3, <1>6

\* The window that is given when none is asked for holds every line.
LEMMA WholeIs ==
    ASSUME NEW rows, day \in Nat, LinesKept(rows, day)
    PROVE  Whole(rows).start \in Int /\ Whole(rows).end \in Int /\ Within(rows, Whole(rows)) = rows
<1>1. CASE rows = {}
  <2>1. date_range(rows).to = None /\ date_range(rows).from = None
    BY <1>1 DEF date_range
  <2>2. Whole(rows).start \in Int /\ Whole(rows).end \in Int
    BY <2>1, FiguresAssumption DEF Whole, resolve_window
  <2>3. QED
    BY <1>1, <2>2 DEF Within
<1>2. CASE rows # {}
  <2>1. /\ date_range(rows).from \in Nat /\ date_range(rows).to \in Nat
        /\ \A r \in rows : date_range(rows).from <= r.day /\ r.day <= date_range(rows).to
        /\ date_range(rows).from <= date_range(rows).to
    BY <1>2, RangeIs
  <2>2. Whole(rows) = [start |-> date_range(rows).from, end |-> date_range(rows).to]
    BY <2>1, FiguresAssumption DEF Whole, resolve_window
  <2>3. QED
    BY <2>1, <2>2 DEF Within
<1>3. QED
  BY <1>1, <1>2

\* The first few of a list are some of its parties.
LEMMA TopPartiesAre ==
    ASSUME NEW all, NEW d \in Nat, LinesKept(all, d), NEW rows \in SUBSET all, NEW n \in Nat
    PROVE  top_parties(rows, n) \in SUBSET Parties(rows) /\ IsFiniteSet(top_parties(rows, n))
<1> DEFINE S == Parties(rows)
           f == [c \in S |-> RevenueOf(rows, c)]
<1>1. IsFiniteSet(S)
  BY LinesAre, PartiesFinite
<1>2. \A c \in S : f[c] \in Int /\ f[c] = RevenueOf(rows, c)
  <2> SUFFICES ASSUME NEW c \in S PROVE RevenueOf(rows, c) \in Int
    OBVIOUS
  <2> DEFINE A == {r \in rows : r.party = c}
  <2>1. A \in SUBSET all
    OBVIOUS
  <2>2. RevenueOf(rows, c) = Goods(A)
    BY DEF RevenueOf
  <2> HIDE DEF A
  <2>3. QED
    BY <2>1, <2>2, LinesAre
<1> HIDE DEF f
<1>3. \E T \in SUBSET S :
         /\ Cardinality(T) = (IF Cardinality(S) < n THEN Cardinality(S) ELSE n)
         /\ \A x \in T, y \in S \ T : f[x] >= f[y]
  <2> HIDE DEF S
  <2> QED BY <1>1, <1>2, TopExists
<1>4. \E T \in SUBSET S :
         /\ Cardinality(T) = (IF Cardinality(S) < n THEN Cardinality(S) ELSE n)
         /\ \A x \in T, y \in S \ T : RevenueOf(rows, x) >= RevenueOf(rows, y)
  <2> HIDE DEF S
  <2> QED BY <1>2, <1>3
<1>5. top_parties(rows, n) \in SUBSET S
  <2> HIDE DEF S
  <2>1. top_parties(rows, n) = Top(n, S, LAMBDA c : RevenueOf(rows, c))
    BY DEF top_parties, S
  <2>2. QED
    BY <1>4, <2>1 DEF Top
<1>6. QED
  BY <1>1, <1>5, FS_Subset

\* The slices, and the others.
LEMMA SlicesMakeTheWhole ==
    ASSUME NEW d \in Nat, LinesKept(sales, d), NEW w
    PROVE  LET s == customer_concentration(w) IN
           Total(s.slices) + s.others = Goods(Within(sales, w))
<1> DEFINE rows == Within(sales, w)
           first == top_parties(rows, MAX_ROWS)
           g == [c \in first |-> RevenueOf(rows, c)]
           A == {r \in rows : r.party \in first}
           part == [c \in first |-> {r \in rows : r.party = c}]
           rest == Goods(rows) - Total(g)
<1>1. rows \in SUBSET sales
  BY DEF Within
<1>2. IsFiniteSet(first)
  <2> HIDE DEF rows
  <2> QED BY <1>1, TopPartiesAre, FiguresAssumption
<1>3. Parted(part, first, A) /\ DOMAIN g = first /\ \A c \in first : g[c] = Goods(part[c])
  BY DEF Parted, RevenueOf
<1>4. A \in SUBSET sales /\ A \subseteq rows
  BY <1>1
<1>5. customer_concentration(w).slices = g /\ customer_concentration(w).others = Max({0, rest})
  BY DEF customer_concentration, Total, Sum
<1> HIDE DEF rows, first, g, A, part
<1>6. Total(g) = Goods(A)
  BY <1>2, <1>3, <1>4, GoodsOfParts
<1>7. Goods(A) <= Goods(rows) /\ Goods(A) \in Nat /\ Goods(rows) \in Nat
  BY <1>1, <1>4, GoodsOfTwo, LinesAre
<1>8. rest \in Int /\ rest >= 0 /\ 0 \in Int
  BY <1>6, <1>7
<1>9. Max({0, rest}) = rest
  <2> HIDE DEF rest
  <2> QED BY <1>8, OfTwo
<1>10. Total(g) + rest = Goods(rows)
  BY <1>6, <1>7
<1>11. QED
  BY <1>5, <1>9, <1>10 DEF rows

\* The charts over time.
LEMMA TrendIs ==
    ASSUME NEW d \in Nat, LinesKept(sales, d), NEW w, w.start \in Int, w.end \in Int
    PROVE  Total(revenue_trend(w))
              = Goods({r \in sales : Month(w.start) <= Month(r.day) /\ Month(r.day) <= Month(w.end)})
<1> DEFINE K == Month(w.start)..Month(w.end)
           A == {r \in sales : Month(w.start) <= Month(r.day) /\ Month(r.day) <= Month(w.end)}
           g == [m \in K |-> Goods({r \in sales : Month(r.day) = m})]
           part == [m \in K |-> {r \in sales : Month(r.day) = m}]
<1>1. Month(w.start) \in Int /\ Month(w.end) \in Int /\ \A r \in sales : Month(r.day) \in Int
  BY LinesAre, Division, LedgersAssumption DEF Month
<1>2. IsFiniteSet(K)
  BY <1>1, FS_Interval
<1>3. A \in SUBSET sales
  OBVIOUS
<1>4. Parted(part, K, A)
  BY <1>1 DEF Parted
<1>5. DOMAIN g = K /\ \A m \in K : g[m] = Goods(part[m])
  OBVIOUS
<1>6. revenue_trend(w) = g
  BY DEF revenue_trend
<1> HIDE DEF K, A, g, part
<1>7. Total(g) = Goods(A)
  BY <1>2, <1>3, <1>4, <1>5, GoodsOfParts
<1>8. QED
  BY <1>6, <1>7 DEF A

\* The days that are charted show no more than the window, and all of it if they are all.
LEMMA DailyIs ==
    ASSUME NEW d \in Nat, LinesKept(sales, d), NEW w, w.start \in Int, w.end \in Int
    PROVE  /\ Total(revenue_daily(w)) <= window_goods(w)
           /\ w.end - w.start < MAX_POINTS => Total(revenue_daily(w)) = window_goods(w)
<1> DEFINE e == Min({w.end, w.start + MAX_POINTS - 1})
           K == w.start..e
           A == {r \in sales : w.start <= r.day /\ r.day <= e}
           B == Within(sales, w)
           g == [m \in K |-> Goods({r \in sales : r.day = m})]
           part == [m \in K |-> {r \in sales : r.day = m}]
<1>1. \A r \in sales : r.day \in Int
  BY LinesAre
<1>2. e \in Int /\ e <= w.end /\ (w.end - w.start < MAX_POINTS => e = w.end)
  <2> DEFINE l == w.start + MAX_POINTS - 1
  <2>1. l \in Int /\ (w.end - w.start < MAX_POINTS => w.end <= l)
    BY FiguresAssumption
  <2> HIDE DEF l
  <2>2. Min({w.end, l}) = IF w.end <= l THEN w.end ELSE l
    BY <2>1, OfTwo
  <2>3. QED
    BY <2>1, <2>2 DEF l
<1>3. IsFiniteSet(K)
  <2> HIDE DEF e
  <2> QED BY <1>2, FS_Interval
<1>4. DOMAIN g = K /\ (\A m \in K : g[m] = Goods(part[m])) /\ revenue_daily(w) = g
  BY DEF revenue_daily, Charted
<1> HIDE DEF e
<1>5. /\ A \in SUBSET sales /\ B \in SUBSET sales /\ A \subseteq B
      /\ w.end - w.start < MAX_POINTS => A = B
  BY <1>1, <1>2 DEF Within
<1>6. Parted(part, K, A)
  BY <1>1, <1>2 DEF Parted
<1>7. window_goods(w) = Goods(B)
  BY DEF window_goods
<1> HIDE DEF K, A, B, g, part
<1>8. Total(g) = Goods(A)
  BY <1>3, <1>4, <1>5, <1>6, GoodsOfParts
<1>9. Goods(A) <= Goods(B)
  BY <1>5, GoodsOfTwo
<1>10. A = B => Goods(A) = Goods(B)
  BY Zenon
<1>11. QED
  BY <1>4, <1>5, <1>7, <1>8, <1>9, <1>10

\* Whole months show all of the window's days.
LEMMA TrendCovers ==
    ASSUME NEW d \in Nat, LinesKept(sales, d), NEW w, w.start \in Int, w.end \in Int
    PROVE  /\ window_goods(w) <= Total(revenue_trend(w))
           /\ Within(sales, w) = sales => Total(revenue_trend(w)) = Goods(sales)
<1> DEFINE A == {r \in sales : Month(w.start) <= Month(r.day) /\ Month(r.day) <= Month(w.end)}
           B == Within(sales, w)
<1>1. A \in SUBSET sales /\ B \in SUBSET sales
  BY DEF Within
<1>2. \A r \in sales : r.day \in Int
  BY LinesAre
<1>3. \A x, y \in Int : x <= y => Month(x) <= Month(y)
  BY Division, LedgersAssumption DEF Month
<1>4. B \subseteq A
  BY <1>2, <1>3 DEF Within
<1>5. Total(revenue_trend(w)) = Goods(A)
  BY TrendIs
<1>6. window_goods(w) = Goods(B)
  BY DEF window_goods
<1> HIDE DEF A, B
<1>7. Goods(B) <= Goods(A)
  BY <1>1, <1>4, GoodsOfTwo
<1>8. B = sales => Goods(A) = Goods(sales)
  BY <1>1, <1>4, Zenon
<1>9. QED
  BY <1>5, <1>6, <1>7, <1>8 DEF B

\* A window is its days up to one, and its days after it.
LEMMA WindowsMeet ==
    ASSUME NEW d \in Nat, LinesKept(sales, d), NEW a \in Int, NEW b \in Int, NEW c \in Int, a <= b + 1, b <= c
    PROVE  Goods(Within(sales, [start |-> a, end |-> c]))
              = Goods(Within(sales, [start |-> a, end |-> b]))
                  + Goods(Within(sales, [start |-> b + 1, end |-> c]))
<1> DEFINE A == Within(sales, [start |-> a, end |-> b])
           B == Within(sales, [start |-> b + 1, end |-> c])
           C == Within(sales, [start |-> a, end |-> c])
<1>1. A \in SUBSET sales /\ B \in SUBSET sales
  BY DEF Within
<1>2. \A r \in sales : r.day \in Int
  BY LinesAre
<1>3. A \cap B = {} /\ A \cup B = C
  BY <1>2 DEF Within
<1> HIDE DEF A, B, C
<1>4. Goods(A \cup B) = Goods(A) + Goods(B)
  BY <1>1, <1>3, GoodsOfTwo
<1>5. Goods(A \cup B) = Goods(C)
  BY <1>3, Zenon
<1>6. QED
  BY <1>4, <1>5 DEF A, B, C

\* The categories that are listed add up to the sales, or to part of them.
LEMMA CategoriesMakeTheWhole ==
    ASSUME NEW d \in Nat, LinesKept(sales, d), NEW rows \in SUBSET sales
    PROVE  /\ Total(sales_by_category(rows)) <= Goods(rows)
           /\ Cardinality(Sold(rows)) <= MAX_CATEGORIES => Total(sales_by_category(rows)) = Goods(rows)
<1> DEFINE K == Sold(rows)
           T == Top(MAX_CATEGORIES, K, LAMBDA k : SoldOf(rows, k))
           all == [k \in K |-> SoldOf(rows, k)]
           g == [k \in T |-> SoldOf(rows, k)]
           part == [k \in K |-> {r \in rows : r.sku = k}]
<1>1. K \in SUBSET Skus /\ IsFiniteSet(K) /\ MAX_CATEGORIES \in Nat
  <2>1. K \in SUBSET Skus
    BY LinesAre DEF Sold
  <2>2. QED
    BY <2>1, FS_Subset, LedgersAssumption, FiguresAssumption
<1>2. Parted(part, K, rows) /\ DOMAIN all = K /\ \A k \in K : all[k] = Goods(part[k]) /\ all[k] = SoldOf(rows, k)
  BY DEF Parted, SoldOf, Sold
<1>3. \A k \in K : part[k] \in SUBSET sales
  OBVIOUS
<1>4. sales_by_category(rows) = g /\ DOMAIN g = T /\ \A k \in T : g[k] = SoldOf(rows, k)
  BY DEF sales_by_category
<1> HIDE DEF all, g, part
<1>5. \A k \in K : all[k] \in Int /\ all[k] >= 0
  BY <1>2, <1>3, LinesAre
<1>6. /\ T \in SUBSET K
      /\ Cardinality(T) = (IF Cardinality(K) < MAX_CATEGORIES THEN Cardinality(K) ELSE MAX_CATEGORIES)
  <2> HIDE DEF K
  <2>1. \E U \in SUBSET K :
           /\ Cardinality(U) = (IF Cardinality(K) < MAX_CATEGORIES THEN Cardinality(K) ELSE MAX_CATEGORIES)
           /\ \A x \in U, y \in K \ U : all[x] >= all[y]
    BY <1>1, <1>5, TopExists
  <2>2. \E U \in SUBSET K :
           /\ Cardinality(U) = (IF Cardinality(K) < MAX_CATEGORIES THEN Cardinality(K) ELSE MAX_CATEGORIES)
           /\ \A x \in U, y \in K \ U : SoldOf(rows, x) >= SoldOf(rows, y)
    BY <1>2, <2>1
  <2>3. QED
    BY <2>2 DEF Top
<1> HIDE DEF K, T
<1>7. Total(all) = Goods(rows)
  BY <1>1, <1>2, GoodsOfParts
<1>8. \A k \in T : g[k] = all[k]
  BY <1>2, <1>4, <1>6
<1>9. Total(g) <= Total(all)
  BY <1>1, <1>2, <1>4, <1>5, <1>6, <1>8, ListIs
<1>10. Cardinality(K) <= MAX_CATEGORIES => Total(g) = Total(all)
  <2>1. Cardinality(K) <= MAX_CATEGORIES => T = K
    BY <1>1, <1>6, CutIs
  <2>2. Cardinality(K) <= MAX_CATEGORIES => \A k \in K \ T : all[k] = 0
    BY <2>1
  <2>3. QED
    BY <1>1, <1>2, <1>4, <1>5, <1>6, <1>8, <2>2, ListIs
<1>11. QED
  BY <1>4, <1>7, <1>9, <1>10 DEF K

\* Months of some of the sales or purchases: all of their months, and maybe more.
LEMMA MonthsMakeTheWhole ==
    ASSUME NEW all, NEW d \in Nat, LinesKept(all, d), NEW rows \in SUBSET all,
           NEW K, IsFiniteSet(K), \A r \in rows : Month(r.day) \in K,
           NEW g, DOMAIN g = K, \A m \in K : g[m] = Goods({r \in rows : Month(r.day) = m})
    PROVE  Total(g) = Goods(rows) /\ \A m \in K : g[m] \in Int
<1> DEFINE part == [m \in K |-> {r \in rows : Month(r.day) = m}]
<1>1. Parted(part, K, rows)
  BY DEF Parted
<1>2. \A m \in K : g[m] = Goods(part[m]) /\ part[m] \in SUBSET all
  OBVIOUS
<1> HIDE DEF part
<1>3. Total(g) = Goods(rows)
  BY <1>1, <1>2, GoodsOfParts
<1>4. \A m \in K : g[m] \in Int
  BY <1>2, LinesAre
<1>5. QED
  BY <1>3, <1>4

\* The monthly cash flow is the monthly comparison, and its net is in less out.
LEMMA CashflowIs ==
    ASSUME NEW d \in Nat, LinesKept(sales, d), LinesKept(bills, d)
    PROVE  /\ monthly_cashflow.in = Total(sales_monthly_comparison)
           /\ Total(monthly_cashflow.net) = monthly_cashflow.in - monthly_cashflow.out
<1> DEFINE A == Trailing(sales, MONTHS)
           B == Trailing(bills, MONTHS)
           J == {Month(r.day) : r \in A}
           K == {Month(r.day) : r \in A \cup B}
           own == [m \in J |-> Goods({r \in A : Month(r.day) = m})]
           in == [m \in K |-> Goods({r \in A : Month(r.day) = m})]
           out == [m \in K |-> Goods({r \in B : Month(r.day) = m})]
           net == [m \in K |-> Goods({r \in A : Month(r.day) = m}) - Goods({r \in B : Month(r.day) = m})]
<1>1. A \in SUBSET sales /\ B \in SUBSET bills
  BY DEF Trailing
<1>2. /\ monthly_cashflow.in = Goods(A) /\ monthly_cashflow.out = Goods(B)
      /\ monthly_cashflow.net = net /\ sales_monthly_comparison = own
  BY DEF monthly_cashflow, sales_monthly_comparison
<1>3. IsFiniteSet(J) /\ IsFiniteSet(K)
  <2> DEFINE I == {Month(r.day) : r \in B}
  <2>1. K = J \cup I
    OBVIOUS
  <2> HIDE DEF A, B
  <2>2. IsFiniteSet(J) /\ IsFiniteSet(I)
    BY <1>1, DaysFinite
  <2> HIDE DEF I, J, K
  <2>3. IsFiniteSet(J \cup I)
    BY <2>2, FS_Union
  <2>4. QED
    BY <2>1, <2>2, <2>3
<1>4. /\ \A r \in A : Month(r.day) \in J /\ Month(r.day) \in K
      /\ \A r \in B : Month(r.day) \in K
  OBVIOUS
<1> HIDE DEF A, B, J, K
<1>5. /\ DOMAIN own = J /\ \A m \in J : own[m] = Goods({r \in A : Month(r.day) = m})
      /\ DOMAIN in = K /\ \A m \in K : in[m] = Goods({r \in A : Month(r.day) = m})
      /\ DOMAIN out = K /\ \A m \in K : out[m] = Goods({r \in B : Month(r.day) = m})
      /\ DOMAIN net = K
  OBVIOUS
<1>6. \A m \in K : net[m] = in[m] - out[m]
  OBVIOUS
<1> HIDE DEF own, in, out, net
<1>7. Total(own) = Goods(A)
  BY <1>1, <1>3, <1>4, <1>5, MonthsMakeTheWhole
<1>8. Total(in) = Goods(A) /\ \A m \in K : in[m] \in Int
  BY <1>1, <1>3, <1>4, <1>5, MonthsMakeTheWhole
<1>9. Total(out) = Goods(B) /\ \A m \in K : out[m] \in Int
  BY <1>1, <1>3, <1>4, <1>5, MonthsMakeTheWhole
<1>10. Over(net, K) = 1 * Over(in, K) + (-1) * Over(out, K)
  <2>1. \A m \in K : in[m] \in Int /\ out[m] \in Int /\ net[m] = 1 * in[m] + (-1) * out[m]
    BY <1>6, <1>8, <1>9
  <2>2. QED
    BY <1>3, <2>1, OverLinear
<1>11. Goods(A) \in Nat /\ Goods(B) \in Nat
  BY <1>1, LinesAre
<1>12. Total(net) = Goods(A) - Goods(B)
  BY <1>5, <1>8, <1>9, <1>10, <1>11, TotalIs
<1>13. QED
  BY <1>2, <1>7, <1>12

\* A monthly average is no more than everything sold.
LEMMA AverageIs ==
    ASSUME NEW d \in Nat, LinesKept(sales, d)
    PROVE  monthly_avg(sales) <= Goods(sales)
<1>1. CASE sales = {}
  BY <1>1, GoodsOfTwo DEF monthly_avg
<1>2. CASE sales # {}
  <2> DEFINE Y == YearOf(sales)
             M == {Month(r.day) : r \in Y}
  <2>1. Y \in SUBSET sales
    BY DEF YearOf
  <2>2. \E r \in Y : TRUE
    <3>1. PICK r \in sales : r.day = date_range(sales).to /\ date_range(sales).to \in Nat
      BY <1>2, RangeIs
    <3>2. 12 * DAYS > 0 /\ 12 * DAYS \in Nat
      BY LedgersAssumption
    <3>3. r.day > date_range(sales).to - 12 * DAYS
      BY <3>1, <3>2
    <3>4. QED
      BY <3>1, <3>3 DEF YearOf
  <2>3. M # {}
    BY <2>2
  <2>4. IsFiniteSet(M)
    <3> HIDE DEF Y
    <3> QED BY <2>1, DaysFinite
  <2>5. monthly_avg(sales) = Goods(Y) \div Cardinality(M)
    BY <1>2 DEF monthly_avg
  <2> HIDE DEF Y, M
  <2>6. Cardinality(M) \in Nat \ {0}
    BY <2>3, <2>4, FS_EmptySet, FS_CardinalityType
  <2>7. Goods(Y) \in Nat /\ Goods(Y) <= Goods(sales) /\ Goods(sales) \in Nat
    BY <2>1, LinesAre, GoodsOfTwo
  <2>8. Goods(Y) \div Cardinality(M) <= Goods(Y) /\ Goods(Y) \div Cardinality(M) \in Int
    BY <2>6, <2>7, Division
  <2>9. QED
    BY <2>5, <2>7, <2>8
<1>3. QED
  BY <1>1, <1>2

\* The charts, lists and slices of sales and purchases add up.
LEMMA PartsAreTheWhole ==
    ASSUME LedgerInv
    PROVE  PartsMakeTheWhole
<1>1. day \in Nat /\ LinesKept(sales, day) /\ LinesKept(bills, day)
  BY DEF LedgerInv
<1>2. LET w == Whole(sales)
          goods == revenue_summary(w).goods
          slices == customer_concentration(w)
      IN  /\ goods = Goods(sales)
          /\ Total(revenue_trend(w)) = goods
          /\ Total(slices.slices) + slices.others = goods
  <2> DEFINE w == Whole(sales)
             slices == customer_concentration(w)
  <2>1. w.start \in Int /\ w.end \in Int /\ Within(sales, w) = sales
    BY <1>1, WholeIs
  <2>2. revenue_summary(w).goods = Goods(Within(sales, w))
    BY DEF revenue_summary, window_goods
  <2> HIDE DEF w
  <2>3. Total(revenue_trend(w)) = Goods(sales)
    BY <1>1, <2>1, TrendCovers
  <2>4. Total(slices.slices) + slices.others = Goods(Within(sales, w))
    BY <1>1, SlicesMakeTheWhole
  <2>6. Goods(Within(sales, w)) = Goods(sales)
    BY <2>1, Zenon
  <2>7. /\ revenue_summary(w).goods = Goods(sales)
        /\ Total(revenue_trend(w)) = revenue_summary(w).goods
        /\ Total(slices.slices) + slices.others = revenue_summary(w).goods
    BY <2>2, <2>3, <2>4, <2>6
  <2>8. QED
    BY <2>7 DEF w
<1>3. monthly_cashflow.in = Total(sales_monthly_comparison)
      /\ Total(monthly_cashflow.net) = monthly_cashflow.in - monthly_cashflow.out
  BY <1>1, CashflowIs
<1>4. monthly_avg(sales) <= revenue_summary(Whole(sales)).goods
  BY <1>1, <1>2, AverageIs
<1>5. purchases_summary(Whole(bills)).spend = Goods(bills)
  <2>1. Within(bills, Whole(bills)) = bills
    BY <1>1, WholeIs
  <2>2. purchases_summary(Whole(bills)).spend = Goods(Within(bills, Whole(bills)))
    BY DEF purchases_summary
  <2>3. QED
    BY <2>1, <2>2, Zenon
<1>6. ASSUME NEW v \in Windows
      PROVE  /\ Total(revenue_daily(v)) <= window_goods(v)
             /\ v.end - v.start < MAX_POINTS => Total(revenue_daily(v)) = window_goods(v)
             /\ window_goods(v) <= Total(revenue_trend(v))
             /\ \A d \in v.start..v.end - 1 :
                   window_goods(v) = window_goods([v EXCEPT !.end = d])
                                       + window_goods([v EXCEPT !.start = d + 1])
  <2>1. /\ v.start \in Int /\ v.end \in Int /\ v.start <= v.end
        /\ v = [start |-> v.start, end |-> v.end]
    BY LedgersAssumption DEF Windows, Picked
  <2>2. /\ Total(revenue_daily(v)) <= window_goods(v)
        /\ v.end - v.start < MAX_POINTS => Total(revenue_daily(v)) = window_goods(v)
    BY <1>1, <2>1, DailyIs
  <2>3. window_goods(v) <= Total(revenue_trend(v))
    BY <1>1, <2>1, TrendCovers
  <2>4. ASSUME NEW d \in v.start..v.end - 1
        PROVE  window_goods(v) = window_goods([v EXCEPT !.end = d])
                                   + window_goods([v EXCEPT !.start = d + 1])
    <3>1. d \in Int /\ v.start <= d + 1 /\ d <= v.end
      BY <2>1
    <3>2. /\ [v EXCEPT !.end = d] = [start |-> v.start, end |-> d]
          /\ [v EXCEPT !.start = d + 1] = [start |-> d + 1, end |-> v.end]
      BY <2>1
    <3>3. Goods(Within(sales, [start |-> v.start, end |-> v.end]))
             = Goods(Within(sales, [start |-> v.start, end |-> d]))
                 + Goods(Within(sales, [start |-> d + 1, end |-> v.end]))
      BY <1>1, <2>1, <3>1, WindowsMeet
    <3>4. /\ window_goods(v) = Goods(Within(sales, [start |-> v.start, end |-> v.end]))
          /\ window_goods([v EXCEPT !.end = d]) = Goods(Within(sales, [start |-> v.start, end |-> d]))
          /\ window_goods([v EXCEPT !.start = d + 1]) = Goods(Within(sales, [start |-> d + 1, end |-> v.end]))
      BY <2>1, <3>2, Zenon DEF window_goods
    <3>5. QED
      BY <3>3, <3>4
  <2>5. QED
    BY <2>2, <2>3, <2>4
<1>7. /\ Total(sales_by_category(sales)) <= revenue_summary(Whole(sales)).goods
      /\ Cardinality(Sold(sales)) <= MAX_CATEGORIES =>
            Total(sales_by_category(sales)) = revenue_summary(Whole(sales)).goods
  BY <1>1, <1>2, CategoriesMakeTheWhole
<1>8. QED
  BY <1>2, <1>3, <1>4, <1>5, <1>6, <1>7 DEF PartsMakeTheWhole

\* What is invoiced in a window: the goods, and a tax of one on each invoice.
LEMMA InvoicedIs ==
    ASSUME NEW all, NEW d \in Nat, LinesKept(all, d), NEW w
    PROVE  invoiced(Within(all, w)) = Goods(Within(all, w)) + Cardinality(Numbers(Within(all, w)))
<1> DEFINE rows == Within(all, w)
           K == Numbers(rows)
           lines(n) == {q \in rows : q.no = n}
           printed == [n \in K |-> Max({r.total : r \in lines(n)})]
           own == [n \in K |-> Goods(lines(n))]
           one == [n \in K |-> 1]
           part == [n \in K |-> lines(n)]
<1>1. rows \in SUBSET all
  BY DEF Within
<1>2. IsFiniteSet(K)
  BY <1>1, LinesAre, NumbersFinite
<1>3. invoiced(rows) = Total(printed)
  BY DEF invoiced, Sum, Total
<1>4. ASSUME NEW n \in K
      PROVE  own[n] \in Int /\ printed[n] = own[n] + 1
  <2> DEFINE A == lines(n)
             T == {r.total : r \in A}
  <2>1. PICK q \in rows : q.no = n
    BY DEF Numbers
  <2>2. A = {p \in all : p.no = n}
    BY <1>1, <2>1 DEF Within, LinesKept
  <2>3. A \in SUBSET all /\ q \in A
    BY <1>1, <2>1
  <2>4. \A r \in A : r.total = Cardinality(A) + 1
    BY <1>1, <2>2 DEF LinesKept
  <2>5. T = {Cardinality(A) + 1}
    BY <2>3, <2>4
  <2>6. printed[n] = Max(T) /\ own[n] = Goods(A)
    OBVIOUS
  <2> HIDE DEF A, T, printed, own
  <2>7. Goods(A) = Cardinality(A) /\ Goods(A) \in Nat
    BY <2>3, LinesAre
  <2>8. IsFiniteSet(T) /\ T \subseteq Int /\ T # {}
    <3>1. IsFiniteSet(T)
      BY <2>5, FS_Singleton
    <3>2. QED
      BY <2>5, <2>7, <3>1
  <2>9. Max(T) \in T
    BY <2>8, MaxIs
  <2>10. QED
    BY <2>5, <2>6, <2>7, <2>9
<1>5. Parted(part, K, rows)
  BY DEF Parted, Numbers
<1>6. DOMAIN own = K /\ (\A n \in K : own[n] = Goods(part[n])) /\ (\A n \in K : one[n] = 1) /\ DOMAIN printed = K
  OBVIOUS
<1> HIDE DEF rows, K, lines, printed, own, one, part
<1>7. Total(own) = Goods(rows)
  BY <1>1, <1>2, <1>5, <1>6, GoodsOfParts
<1>8. Over(one, K) = Cardinality(K)
  BY <1>2, <1>6, OverCount
<1>9. Over(printed, K) = 1 * Over(own, K) + 1 * Over(one, K)
  <2>1. \A n \in K : own[n] \in Int /\ one[n] \in Int /\ printed[n] = 1 * own[n] + 1 * one[n]
    BY <1>4, <1>6
  <2>2. QED
    BY <1>2, <2>1, OverLinear
<1>10. Goods(rows) \in Nat /\ Cardinality(K) \in Nat
  BY <1>1, <1>2, LinesAre, FS_CardinalityType
<1>11. invoiced(rows) = Goods(rows) + Cardinality(K)
  BY <1>3, <1>6, <1>7, <1>8, <1>9, <1>10, TotalIs
<1>12. QED
  BY <1>11 DEF rows, K

\* An invoice counts once, whatever the window.
LEMMA InvoicesCountOnce ==
    ASSUME LedgerInv
    PROVE  EachInvoiceCountsOnce
<1>1. day \in Nat /\ LinesKept(sales, day) /\ LinesKept(bills, day)
  BY DEF LedgerInv
<1>2. ASSUME NEW w \in Windows
      PROVE  /\ revenue_summary(w).invoiced = revenue_summary(w).goods + revenue_summary(w).invoices
             /\ purchases_summary(w).invoiced
                   = purchases_summary(w).spend + Cardinality(Numbers(Within(bills, w)))
  BY <1>1, InvoicedIs DEF revenue_summary, purchases_summary, window_goods
<1>3. QED
  BY <1>2 DEF EachInvoiceCountsOnce

\* What each customer's purchases come to.
LEMMA RevenueByCustomer ==
    ASSUME NEW all, NEW d \in Nat, LinesKept(all, d), NEW rows \in SUBSET all,
           NEW K, IsFiniteSet(K), Parties(rows) \subseteq K,
           NEW g, DOMAIN g = K, \A c \in K : g[c] = RevenueOf(rows, c)
    PROVE  Total(g) = Goods(rows) /\ \A c \in K : g[c] \in Int
<1> DEFINE part == [c \in K |-> {r \in rows : r.party = c}]
<1>1. Parted(part, K, rows)
  BY DEF Parted, Parties
<1>2. \A c \in K : g[c] = Goods(part[c]) /\ part[c] \in SUBSET all
  BY DEF RevenueOf
<1> HIDE DEF part
<1>3. Total(g) = Goods(rows)
  BY <1>1, <1>2, GoodsOfParts
<1>4. \A c \in K : g[c] \in Int
  BY <1>2, LinesAre
<1>5. QED
  BY <1>3, <1>4

\* The changes of the customers are those of the two windows together.
LEMMA ChangesAddUp ==
    ASSUME NEW d \in Nat, LinesKept(sales, d), sales # {}
    PROVE  LET h == [c \in Customers |-> Change(c)] IN
           /\ \A c \in Customers : h[c] \in Int
           /\ \A c \in Customers \ Parties(sales) : h[c] = 0
           /\ Total(h) = 2 * window_goods(Recent) - window_goods([start |-> Prior.start, end |-> Recent.end])
<1> DEFINE to == date_range(sales).to
           A == Within(sales, Recent)
           B == Within(sales, Prior)
           a == [c \in Customers |-> RevenueOf(A, c)]
           b == [c \in Customers |-> RevenueOf(B, c)]
           h == [c \in Customers |-> RevenueOf(A, c) - RevenueOf(B, c)]
<1>1. A \in SUBSET sales /\ B \in SUBSET sales
  BY DEF Within
<1>2. Parties(A) \subseteq Customers /\ Parties(B) \subseteq Customers /\ IsFiniteSet(Customers)
  BY <1>1, LinesAre, LedgersAssumption DEF Parties
<1>3. [c \in Customers |-> Change(c)] = h
  BY DEF Change
<1>17. \A c \in Customers \ Parties(sales) : h[c] = 0
  <2> TAKE c \in Customers \ Parties(sales)
  <2>1. {r \in A : r.party = c} = {} /\ {r \in B : r.party = c} = {}
    BY <1>1 DEF Parties
  <2>2. RevenueOf(A, c) = Goods({}) /\ RevenueOf(B, c) = Goods({})
    BY <2>1, Zenon DEF RevenueOf
  <2>3. Goods({}) = 0
    BY GoodsOfTwo
  <2>4. QED
    BY <2>2, <2>3
<1>4. /\ DOMAIN a = Customers /\ \A c \in Customers : a[c] = RevenueOf(A, c)
      /\ DOMAIN b = Customers /\ \A c \in Customers : b[c] = RevenueOf(B, c)
      /\ DOMAIN h = Customers /\ \A c \in Customers : h[c] = a[c] - b[c]
  OBVIOUS
<1> HIDE DEF A, B, a, b, h
<1>5. Total(a) = Goods(A) /\ \A c \in Customers : a[c] \in Int
  BY <1>1, <1>2, <1>4, RevenueByCustomer
<1>6. Total(b) = Goods(B) /\ \A c \in Customers : b[c] \in Int
  BY <1>1, <1>2, <1>4, RevenueByCustomer
<1>7. Over(h, Customers) = 1 * Over(a, Customers) + (-1) * Over(b, Customers)
  <2>1. \A c \in Customers : a[c] \in Int /\ b[c] \in Int /\ h[c] = 1 * a[c] + (-1) * b[c]
    BY <1>4, <1>5, <1>6
  <2>2. QED
    BY <1>2, <2>1, OverLinear
<1>8. Goods(A) \in Nat /\ Goods(B) \in Nat
  BY <1>1, LinesAre
<1>9. Total(h) = Goods(A) - Goods(B)
  BY <1>4, <1>5, <1>6, <1>7, <1>8, TotalIs
<1>10. to \in Nat
  BY RangeIs
<1>11. /\ Recent = [start |-> to - (TRAIL - 1), end |-> to]
       /\ Prior = [start |-> to - (2 * TRAIL - 1), end |-> to - TRAIL]
  BY DEF Recent, Prior
<1> HIDE DEF to
<1>12. Goods(Within(sales, [start |-> to - (2 * TRAIL - 1), end |-> to]))
          = Goods(Within(sales, [start |-> to - (2 * TRAIL - 1), end |-> to - TRAIL]))
              + Goods(Within(sales, [start |-> (to - TRAIL) + 1, end |-> to]))
  <2>1. /\ to - (2 * TRAIL - 1) \in Int /\ to - TRAIL \in Int /\ to \in Int
        /\ to - (2 * TRAIL - 1) <= (to - TRAIL) + 1 /\ to - TRAIL <= to
    BY <1>10, FiguresAssumption
  <2>2. QED
    BY <2>1, WindowsMeet
<1>13. to - (TRAIL - 1) = (to - TRAIL) + 1
  BY <1>10, FiguresAssumption
<1>14. /\ window_goods(Recent) = Goods(A)
       /\ Goods(Within(sales, [start |-> (to - TRAIL) + 1, end |-> to])) = Goods(A)
       /\ Goods(Within(sales, [start |-> to - (2 * TRAIL - 1), end |-> to - TRAIL])) = Goods(B)
  BY <1>11, <1>13, Zenon DEF window_goods, A, B
<1>15. window_goods([start |-> Prior.start, end |-> Recent.end])
          = Goods(Within(sales, [start |-> to - (2 * TRAIL - 1), end |-> to]))
  <2>1. Prior.start = to - (2 * TRAIL - 1) /\ Recent.end = to
    BY <1>11
  <2>2. QED
    BY <2>1, Zenon DEF window_goods
<1>16. \A c \in Customers : h[c] \in Int
  BY <1>4, <1>5, <1>6
<1>18. Total(h) = 2 * window_goods(Recent) - window_goods([start |-> Prior.start, end |-> Recent.end])
  BY <1>8, <1>9, <1>12, <1>14, <1>15
<1>19. QED
  BY <1>3, <1>16, <1>17, <1>18

\* The customers who are listed as growing, and as falling.
LEMMA ListedChanges ==
    ASSUME NEW d \in Nat, LinesKept(sales, d), sales # {}
    PROVE  LET up == customer_changes.up down == customer_changes.down IN
           /\ Gainers \in SUBSET Customers /\ Losers \in SUBSET Customers
           /\ Gainers \cap Losers = {} /\ IsFiniteSet(Gainers) /\ IsFiniteSet(Losers)
           /\ Cardinality(Gainers) <= MAX_ROWS => DOMAIN up = Gainers
           /\ Cardinality(Losers) <= MAX_ROWS => DOMAIN down = Losers
           /\ Gainers # {} => DOMAIN up # {}
           /\ Losers # {} => DOMAIN down # {}
           /\ \A c \in DOMAIN up : up[c] = Change(c)
           /\ \A c \in DOMAIN down : down[c] = Change(c)
<1> DEFINE f == [c \in Gainers |-> Change(c)]
           g == [c \in Losers |-> -Change(c)]
           T == Top(MAX_ROWS, Gainers, Change)
           U == Top(MAX_ROWS, Losers, LAMBDA c : -Change(c))
<1>1. \A c \in Customers : Change(c) \in Int
  BY ChangesAddUp
<1>2. Gainers \in SUBSET Customers /\ Losers \in SUBSET Customers
  BY LinesAre DEF Gainers, Losers, Parties
<1>3. Gainers \cap Losers = {}
  BY <1>1, <1>2 DEF Gainers, Losers
<1>4. IsFiniteSet(Gainers) /\ IsFiniteSet(Losers) /\ MAX_ROWS \in Nat /\ MAX_ROWS > 0
  BY <1>2, FS_Subset, LedgersAssumption, FiguresAssumption
<1>5. /\ \A c \in Gainers : f[c] \in Int /\ f[c] = Change(c)
      /\ \A c \in Losers : g[c] \in Int /\ g[c] = -Change(c)
  BY <1>1, <1>2
<1> HIDE DEF f, g
<1>6. /\ T \in SUBSET Gainers
      /\ Cardinality(T) = (IF Cardinality(Gainers) < MAX_ROWS THEN Cardinality(Gainers) ELSE MAX_ROWS)
  <2>1. \E V \in SUBSET Gainers :
           /\ Cardinality(V) = (IF Cardinality(Gainers) < MAX_ROWS THEN Cardinality(Gainers) ELSE MAX_ROWS)
           /\ \A x \in V, y \in Gainers \ V : f[x] >= f[y]
    BY <1>4, <1>5, TopExists
  <2>2. \E V \in SUBSET Gainers :
           /\ Cardinality(V) = (IF Cardinality(Gainers) < MAX_ROWS THEN Cardinality(Gainers) ELSE MAX_ROWS)
           /\ \A x \in V, y \in Gainers \ V : Change(x) >= Change(y)
    BY <1>5, <2>1
  <2>3. QED
    BY <2>2 DEF Top
<1>7. /\ U \in SUBSET Losers
      /\ Cardinality(U) = (IF Cardinality(Losers) < MAX_ROWS THEN Cardinality(Losers) ELSE MAX_ROWS)
  <2>1. \E V \in SUBSET Losers :
           /\ Cardinality(V) = (IF Cardinality(Losers) < MAX_ROWS THEN Cardinality(Losers) ELSE MAX_ROWS)
           /\ \A x \in V, y \in Losers \ V : g[x] >= g[y]
    BY <1>4, <1>5, TopExists
  <2>2. PICK V \in SUBSET Losers :
           /\ Cardinality(V) = (IF Cardinality(Losers) < MAX_ROWS THEN Cardinality(Losers) ELSE MAX_ROWS)
           /\ \A x \in V, y \in Losers \ V : g[x] >= g[y]
    BY <2>1
  <2>3. \A x \in V, y \in Losers \ V : -Change(x) >= -Change(y)
    <3>1. \A x \in V, y \in Losers \ V : g[x] = -Change(x) /\ g[y] = -Change(y)
      BY <1>5
    <3>2. QED
      BY <2>2, <3>1
  <2>4. \E W \in SUBSET Losers :
           /\ Cardinality(W) = (IF Cardinality(Losers) < MAX_ROWS THEN Cardinality(Losers) ELSE MAX_ROWS)
           /\ \A x \in W, y \in Losers \ W : -Change(x) >= -Change(y)
    BY <2>2, <2>3
  <2>5. QED
    BY <2>4 DEF Top
<1>8. customer_changes = [up |-> [c \in T |-> Change(c)], down |-> [c \in U |-> Change(c)]]
  BY DEF customer_changes
<1> HIDE DEF T, U
<1>9. (Cardinality(Gainers) <= MAX_ROWS => T = Gainers) /\ (Gainers # {} => T # {})
  BY <1>4, <1>6, CutIs
<1>10. (Cardinality(Losers) <= MAX_ROWS => U = Losers) /\ (Losers # {} => U # {})
  BY <1>4, <1>7, CutIs
<1>11. QED
  BY <1>2, <1>3, <1>4, <1>8, <1>9, <1>10

\* The lists of changes make up that of the two windows, or name who is behind it.
LEMMA ChangesAreNamed ==
    ASSUME NEW d \in Nat, LinesKept(sales, d), sales # {}
    PROVE  LET grown == 2 * window_goods(Recent)
                          - window_goods([start |-> Prior.start, end |-> Recent.end])
           IN  /\ Cardinality(Gainers) <= MAX_ROWS /\ Cardinality(Losers) <= MAX_ROWS =>
                      Total(customer_changes.up) + Total(customer_changes.down) = grown
               /\ grown > 0 => DOMAIN customer_changes.up # {}
               /\ grown < 0 => DOMAIN customer_changes.down # {}
<1> DEFINE h == [c \in Customers |-> Change(c)]
           up == customer_changes.up
           down == customer_changes.down
           grown == 2 * window_goods(Recent) - window_goods([start |-> Prior.start, end |-> Recent.end])
           both == Gainers \cup Losers
           k == [c \in both |-> Change(c)]
<1>1. /\ \A c \in Customers : h[c] \in Int
      /\ \A c \in Customers \ Parties(sales) : h[c] = 0
      /\ Total(h) = grown
  BY ChangesAddUp
<1>2. DOMAIN h = Customers /\ \A c \in Customers : h[c] = Change(c)
  OBVIOUS
<1>12. DOMAIN k = both /\ \A c \in both : k[c] = Change(c)
  OBVIOUS
<1> HIDE DEF h, up, down, grown, both, k
<1>3. /\ Gainers \in SUBSET Customers /\ Losers \in SUBSET Customers
      /\ Gainers \cap Losers = {} /\ IsFiniteSet(Gainers) /\ IsFiniteSet(Losers)
      /\ Cardinality(Gainers) <= MAX_ROWS => DOMAIN up = Gainers
      /\ Cardinality(Losers) <= MAX_ROWS => DOMAIN down = Losers
      /\ Gainers # {} => DOMAIN up # {}
      /\ Losers # {} => DOMAIN down # {}
      /\ \A c \in DOMAIN up : up[c] = Change(c)
      /\ \A c \in DOMAIN down : down[c] = Change(c)
  BY ListedChanges DEF up, down
<1>4. IsFiniteSet(Customers) /\ both \in SUBSET Customers
  BY <1>3, LedgersAssumption DEF both
<1>5. \A c \in Customers \ both : h[c] = 0
  BY <1>1, <1>2 DEF both, Gainers, Losers
<1>6. Total(k) = grown
  <2>1. \A c \in both : k[c] = h[c]
    BY <1>2, <1>4, <1>12
  <2>2. Total(k) = Total(h)
    BY <1>1, <1>2, <1>4, <1>5, <1>12, <2>1, ListIs
  <2>3. QED
    BY <1>1, <2>2
<1>7. Total(k) = Over(k, Gainers) + Over(k, Losers)
  <2>1. \A c \in Gainers \cup Losers : k[c] \in Int
    BY <1>1, <1>2, <1>4, <1>12 DEF both
  <2>2. Over(k, Gainers \cup Losers) = Over(k, Gainers) + Over(k, Losers)
    <3>1. IsFiniteSet(Gainers \cup Losers)
      BY <1>3, FS_Union
    <3>2. QED
      BY <1>3, <2>1, <3>1, OverUnion
  <2>3. Total(k) = Over(k, both)
    BY <1>12, TotalIs
  <2>4. QED
    BY <2>2, <2>3 DEF both
<1>8. DOMAIN up = Gainers => Total(up) = Over(k, Gainers)
  <2> SUFFICES ASSUME DOMAIN up = Gainers PROVE Total(up) = Over(k, Gainers)
    OBVIOUS
  <2>1. \A c \in Gainers : k[c] = up[c] /\ k[c] \in Int
    BY <1>1, <1>2, <1>3, <1>12 DEF both
  <2>2. Over(k, Gainers) = Over(up, Gainers)
    BY <1>3, <2>1, OverSame
  <2>3. QED
    BY <2>2, TotalIs
<1>9. DOMAIN down = Losers => Total(down) = Over(k, Losers)
  <2> SUFFICES ASSUME DOMAIN down = Losers PROVE Total(down) = Over(k, Losers)
    OBVIOUS
  <2>1. \A c \in Losers : k[c] = down[c] /\ k[c] \in Int
    BY <1>1, <1>2, <1>3, <1>12 DEF both
  <2>2. Over(k, Losers) = Over(down, Losers)
    BY <1>3, <2>1, OverSame
  <2>3. QED
    BY <2>2, TotalIs
<1>10. /\ grown > 0 => Gainers # {}
       /\ grown < 0 => Losers # {}
  <2>1. Total(h) = Over(h, Customers)
    BY <1>2, TotalIs
  <2>2. Gainers = {} => \A c \in Customers : h[c] <= 0
    BY <1>1, <1>2 DEF Gainers
  <2>3. Losers = {} => \A c \in Customers : h[c] >= 0
    BY <1>1, <1>2 DEF Losers
  <2>4. /\ (\A c \in Customers : h[c] <= 0) => Over(h, Customers) <= 0
        /\ (\A c \in Customers : h[c] >= 0) => Over(h, Customers) >= 0
    BY <1>1, <1>4, OverSign
  <2>5. Over(h, Customers) \in Int
    BY <1>1, <1>4, OverInt
  <2>6. QED
    BY <1>1, <2>1, <2>2, <2>3, <2>4, <2>5
<1>11. QED
  BY <1>3, <1>6, <1>7, <1>8, <1>9, <1>10 DEF up, down, grown

\* Stock: what is held, and what was sold that was not there.
LEMMA HeldIs ==
    ASSUME stock \in [Skus -> Int]
    PROVE  Sum(Held, LAMBDA k : stock[k]) >= inventory_summary.value
<1> DEFINE all == [k \in Skus |-> stock[k]]
           held == [k \in Held |-> stock[k]]
           zero == [k \in Skus |-> 0 * stock[k] + 0 * stock[k]]
           rest == Skus \ Held
<1>1. IsFiniteSet(Skus) /\ Held \in SUBSET Skus /\ rest \in SUBSET Skus /\ Held \cap rest = {} /\ Held \cup rest = Skus
  BY LedgersAssumption DEF Held
<1>2. inventory_summary.value = Total(all) /\ Sum(Held, LAMBDA k : stock[k]) = Total(held)
  BY DEF inventory_summary, Sum, Total
<1>3. /\ DOMAIN all = Skus /\ DOMAIN held = Held
      /\ \A k \in Skus : all[k] \in Int /\ zero[k] = 0 /\ zero[k] = 0 * all[k] + 0 * all[k]
      /\ \A k \in Held : all[k] = held[k]
      /\ \A k \in rest : all[k] <= 0
  BY <1>1 DEF Held
<1> HIDE DEF all, held, zero, rest
<1>4. IsFiniteSet(Held) /\ IsFiniteSet(rest)
  BY <1>1, FS_Subset
<1>5. Over(all, Held \cup rest) = Over(all, Held) + Over(all, rest)
  BY <1>1, <1>3, OverUnion
<1>6. Over(all, Held \cup rest) = Over(all, Skus)
  BY <1>1, Zenon
<1>7. Over(all, Held) = Over(held, Held)
  <2>1. \A k \in Held : all[k] = held[k] /\ all[k] \in Int
    BY <1>1, <1>3
  <2>2. QED
    BY <1>4, <2>1, OverSame
<1>8. Over(all, rest) <= 0
  <2>1. \A k \in rest : all[k] \in Int /\ zero[k] \in Int /\ all[k] <= zero[k]
    BY <1>1, <1>3
  <2>2. Over(all, rest) <= Over(zero, rest)
    BY <1>4, <2>1, OverLess
  <2>3. Over(zero, rest) = 0 * Over(all, rest) + 0 * Over(all, rest)
    <3>1. \A k \in rest : all[k] \in Int /\ zero[k] = 0 * all[k] + 0 * all[k]
      BY <1>1, <1>3
    <3>2. QED
      BY <1>4, <3>1, OverLinear
  <2>4. Over(all, rest) \in Int
    BY <1>4, <2>1, OverInt
  <2>5. QED
    BY <2>2, <2>3, <2>4
<1>9. Over(all, rest) \in Int /\ Over(all, Held) \in Int
  <2>1. (\A k \in rest : all[k] \in Int) /\ (\A k \in Held : all[k] \in Int)
    BY <1>1, <1>3
  <2>2. QED
    BY <1>4, <2>1, OverInt
<1>10. Total(all) = Over(all, Skus) /\ Total(held) = Over(held, Held)
  BY <1>3, TotalIs
<1>11. QED
  BY <1>2, <1>5, <1>6, <1>7, <1>8, <1>9, <1>10

\* The categories that are listed make up the stock, or part of it.
LEMMA CategoriesOfStock ==
    ASSUME stock \in [Skus -> Int], inventory_summary.negative = 0
    PROVE  /\ Total(inventory_by_category) <= inventory_summary.value
           /\ Cardinality(Held) <= MAX_CATEGORIES =>
                 Total(inventory_by_category) = inventory_summary.value
<1> DEFINE T == Top(MAX_CATEGORIES, Skus, LAMBDA k : stock[k])
           g == [k \in T |-> stock[k]]
           negative == {k \in Skus : stock[k] < 0}
<1>1. IsFiniteSet(Skus) /\ MAX_CATEGORIES \in Nat /\ DOMAIN stock = Skus /\ \A k \in Skus : stock[k] \in Int
  BY LedgersAssumption, FiguresAssumption
<1>2. \A k \in Skus : stock[k] >= 0
  <2>1. IsFiniteSet(negative) /\ Cardinality(negative) = 0
    BY <1>1, FS_Subset DEF inventory_summary
  <2>2. negative = {}
    <3> HIDE DEF negative
    <3> QED BY <2>1, FS_EmptySet
  <2>3. QED
    BY <1>1, <2>2
<1>3. /\ T \in SUBSET Skus
      /\ Cardinality(T) = (IF Cardinality(Skus) < MAX_CATEGORIES THEN Cardinality(Skus) ELSE MAX_CATEGORIES)
      /\ \A x \in T, y \in Skus \ T : stock[x] >= stock[y]
  <2>1. \E U \in SUBSET Skus :
           /\ Cardinality(U) = (IF Cardinality(Skus) < MAX_CATEGORIES THEN Cardinality(Skus) ELSE MAX_CATEGORIES)
           /\ \A x \in U, y \in Skus \ U : stock[x] >= stock[y]
    BY <1>1, TopExists
  <2>2. QED
    BY <2>1 DEF Top
<1>4. inventory_by_category = g /\ inventory_summary.value = Total(stock)
  <2>1. stock = [k \in Skus |-> stock[k]]
    OBVIOUS
  <2>2. inventory_summary.value = SumFunction([k \in Skus |-> stock[k]])
    BY DEF inventory_summary, Sum
  <2>3. inventory_summary.value = Total(stock)
    BY <2>1, <2>2, Zenon DEF Total
  <2>4. QED
    BY <2>3 DEF inventory_by_category
<1>5. DOMAIN g = T /\ \A k \in T : g[k] = stock[k]
  OBVIOUS
<1> HIDE DEF T, g, negative
<1>6. Total(g) <= Total(stock)
  BY <1>1, <1>2, <1>3, <1>5, ListIs
<1>7. Cardinality(Held) <= MAX_CATEGORIES => Total(g) = Total(stock)
  <2> SUFFICES ASSUME Cardinality(Held) <= MAX_CATEGORIES PROVE Total(g) = Total(stock)
    OBVIOUS
  <2>1. ASSUME NEW y \in Skus \ T, stock[y] # 0 PROVE FALSE
    <3>1. y \in Held /\ T \subseteq Held
      BY <1>1, <1>2, <1>3, <2>1 DEF Held
    <3>2. IsFiniteSet(Held) /\ IsFiniteSet(T)
      BY <1>1, <1>3, FS_Subset DEF Held
    <3>3. Cardinality(T \cup {y}) = Cardinality(T) + 1
      BY <3>2, FS_AddElement
    <3>4. Cardinality(T \cup {y}) <= Cardinality(Held)
      BY <3>1, <3>2, FS_Subset
    <3>5. Cardinality(T) \in Nat /\ Cardinality(Held) \in Nat /\ Cardinality(Skus) \in Nat
      BY <1>1, <3>2, FS_CardinalityType
    <3>6. Cardinality(T) = Cardinality(Skus)
      BY <1>1, <1>3, <3>3, <3>4, <3>5
    <3>7. T = Skus
      BY <1>1, <1>3, <3>6, FS_Subset
    <3>8. QED
      BY <3>7
  <2>2. \A k \in Skus \ T : stock[k] = 0
    BY <2>1
  <2>3. QED
    BY <1>1, <1>3, <1>5, <2>2, ListIs
<1>8. QED
  BY <1>4, <1>6, <1>7

\* The dead stock that is listed.
LEMMA DeadIsListed ==
    ASSUME stock \in [Skus -> Int]
    PROVE  dead_stock.count = 0 <=> dead_stock.items = {}
<1> DEFINE T == Top(MAX_SKUS, Dead, LAMBDA k : stock[k])
<1>1. IsFiniteSet(Dead) /\ MAX_SKUS \in Nat /\ MAX_SKUS > 0 /\ \A k \in Dead : stock[k] \in Int
  <2>1. Dead \in SUBSET Skus
    BY DEF Dead, Held
  <2>2. QED
    BY <2>1, FS_Subset, LedgersAssumption, FiguresAssumption
<1>2. \E U \in SUBSET Dead :
         /\ Cardinality(U) = (IF Cardinality(Dead) < MAX_SKUS THEN Cardinality(Dead) ELSE MAX_SKUS)
         /\ \A x \in U, y \in Dead \ U : stock[x] >= stock[y]
  BY <1>1, TopExists
<1>3. /\ T \in SUBSET Dead
      /\ Cardinality(T) = (IF Cardinality(Dead) < MAX_SKUS THEN Cardinality(Dead) ELSE MAX_SKUS)
  BY <1>2 DEF Top
<1>4. dead_stock.items = T /\ dead_stock.count = Cardinality(Dead)
  BY DEF dead_stock
<1> HIDE DEF T
<1>5. Dead # {} => T # {}
  BY <1>1, <1>3, CutIs
<1>6. Cardinality(Dead) = 0 <=> Dead = {}
  BY <1>1, FS_EmptySet
<1>7. QED
  BY <1>3, <1>4, <1>5, <1>6

\* The trailing windows meet.
LEMMA TrailingMeet ==
    ASSUME LedgerInv
    PROVE  TrailingWindowsMeet
<1> SUFFICES ASSUME sales # {}
             PROVE  /\ Dead \cap reorder_alert = {}
                    /\ dead_stock.count = 0 <=> dead_stock.items = {}
                    /\ new_customers \cap lapsed_customers = {}
                    /\ \A c \in lapsed_customers : RevenueOf(Within(sales, Recent), c) = 0
                    /\ LET grown == 2 * window_goods(Recent)
                                       - window_goods([start |-> Prior.start, end |-> Recent.end])
                       IN  /\ Cardinality(Gainers) <= MAX_ROWS /\ Cardinality(Losers) <= MAX_ROWS =>
                                  Total(customer_changes.up) + Total(customer_changes.down) = grown
                           /\ grown > 0 => DOMAIN customer_changes.up # {}
                           /\ grown < 0 => DOMAIN customer_changes.down # {}
                    /\ inventory_summary.negative = 0 =>
                          /\ Total(inventory_by_category) <= inventory_summary.value
                          /\ Cardinality(Held) <= MAX_CATEGORIES =>
                                Total(inventory_by_category) = inventory_summary.value
                    /\ Sum(Held, LAMBDA k : stock[k]) >= inventory_summary.value
  BY DEF TrailingWindowsMeet
<1>1. day \in Nat /\ LinesKept(sales, day) /\ stock \in [Skus -> Int]
  BY DEF LedgerInv
<1>2. Dead \cap reorder_alert = {}
  <2> SUFFICES ASSUME NEW k \in Dead, k \in reorder_alert PROVE FALSE
    OBVIOUS
  <2>1. SoldSince(k) = {} /\ Goods(SoldSince(k)) > 0
    BY DEF Dead, reorder_alert
  <2>2. Goods({}) = 0
    BY <1>1, GoodsOfTwo
  <2>3. Goods(SoldSince(k)) = 0
    BY <2>1, <2>2, Zenon
  <2>4. QED
    BY <2>1, <2>3
<1>3. new_customers \cap lapsed_customers = {}
  BY DEF lapsed_customers
<1>4. ASSUME NEW c \in lapsed_customers PROVE RevenueOf(Within(sales, Recent), c) = 0
  <2> DEFINE A == {r \in Within(sales, Recent) : r.party = c}
  <2>1. \A r \in sales : r.party = c => r.day < date_range(sales).to - TRAIL
    BY DEF lapsed_customers, Cutoff
  <2>2. date_range(sales).to \in Nat /\ Recent.start = date_range(sales).to - (TRAIL - 1)
    BY <1>1, RangeIs DEF Recent
  <2>3. \A r \in sales : r.day \in Nat
    BY <1>1, LinesAre
  <2>4. A = {}
    BY <2>1, <2>2, <2>3, FiguresAssumption DEF Within
  <2>5. Goods({}) = 0
    BY <1>1, GoodsOfTwo
  <2>6. RevenueOf(Within(sales, Recent), c) = Goods(A)
    BY DEF RevenueOf
  <2>7. Goods(A) = Goods({})
    BY <2>4, Zenon
  <2>8. QED
    BY <2>5, <2>6, <2>7
<1>5. QED
  BY <1>1, <1>2, <1>3, <1>4, ChangesAreNamed, CategoriesOfStock, DeadIsListed, HeldIs

\* The screens on sales, purchases and stock agree, whatever the books look like
\* (queries.py: each figure is a query of its own).
THEOREM SalesAlwaysAgree == LedgersSpec => []SalesScreensAgree
<1>1. LedgerInv => SalesScreensAgree
  BY PartsAreTheWhole, InvoicesCountOnce, TrailingMeet DEF SalesScreensAgree
<1>2. QED
  BY BooksKeepTheirShape, <1>1, PTL

-----------------------------------------------------------------------------
(* The brief.                                                              *)

\* The types of the copies, and that what is owed on some of them is a sum of a column.
LEMMA CopiesAre ==
    ASSUME LedgerInv
    PROVE  /\ IsFiniteSet(snaps)
           /\ \A s \in snaps : /\ s.owed \in Nat /\ s.on \in Nat /\ s.day \in Nat /\ s.no \in Nat
                               /\ s.day <= s.on
           /\ \A rows \in SUBSET snaps : /\ IsFiniteSet(rows) /\ Owed(rows) = Column(rows, "owed")
                                         /\ Owed(rows) \in Nat
<1>1. IsFiniteSet(snaps)
  BY DEF LedgerInv, CopiesKept
<1>2. \A s \in snaps : s.owed \in Nat /\ s.on \in Nat /\ s.day \in Nat /\ s.no \in Nat /\ s.day <= s.on
  BY DEF LedgerInv, CopiesKept, Snapshot
<1>3. ASSUME NEW rows \in SUBSET snaps
      PROVE  IsFiniteSet(rows) /\ Owed(rows) = Column(rows, "owed") /\ Owed(rows) \in Nat
  <2>1. IsFiniteSet(rows) /\ \A r \in rows : r["owed"] \in Int /\ r["owed"] >= 0
    BY <1>1, <1>2, FS_Subset
  <2>2. Column(rows, "owed") \in Int /\ Column(rows, "owed") >= 0
    BY <2>1, ColumnInt, ColumnSign
  <2>3. QED
    BY <2>1, <2>2, ColumnsAre
<1>4. QED
  BY <1>1, <1>2, <1>3

\* How loud the drift is, is a number.
LEMMA DriftSeverity ==
    ASSUME LedgerInv
    PROVE  drift_severity \in Int
<1> DEFINE now == IF snaps = {} THEN None ELSE Max(snapshot_dates)
           then == IF snaps = {} THEN None ELSE nearest_snapshot(now - BUCKET)
           d == aging_drift
           share == pct(d.drift, d.total)
<1>1. Bad(now) \in SUBSET snaps /\ Bad(then) \in SUBSET snaps /\ On(now) \in SUBSET snaps
  BY DEF Bad, On
<1>2. Owed(Bad(now)) \in Int /\ Owed(Bad(then)) \in Int /\ Owed(On(now)) \in Nat
  <2> HIDE DEF now, then
  <2> QED BY <1>1, CopiesAre
<1>3. /\ d.building \in BOOLEAN
      /\ d.drift = 0 \/ d.drift = Owed(Bad(now)) - Owed(Bad(then))
      /\ d.total = 0 \/ d.total = Owed(On(now))
  BY DEF aging_drift
<1> HIDE DEF d, now, then
<1>4. d.drift \in Int /\ d.total \in Nat
  BY <1>2, <1>3
<1>5. share \in Int
  BY <1>4 DEF pct
<1>6. drift_severity = CASE d.building -> 5
                         [] d.drift > 0 /\ ~d.building -> 20 + Min({70, 6 * share})
                         [] OTHER -> 10
  BY DEF drift_severity, d
<1> HIDE DEF share
<1>7. Min({70, 6 * share}) \in Int
  <2> DEFINE s == 6 * share
  <2>1. s \in Int /\ 70 \in Int
    BY <1>5
  <2> HIDE DEF s
  <2>2. Min({70, s}) \in Int
    BY <2>1, OfTwo
  <2>3. QED
    BY <2>2 DEF s
<1>8. QED
  BY <1>3, <1>6, <1>7

\* The cards that can ask for attention.
Alarms == {"aging_drift", "cash_30d", "reorder_radar", "anomalies"}

\* Ten cards, of which four can be alarms, each with a rank.
LEMMA CardsAre ==
    /\ CardKeys = Alarms \cup {"week_delta", "collections_proof", "concentration",
                               "trapped_capital", "payment_behaviour", "working_capital"}
    /\ \A k \in CardKeys : rank(k) \in Int
<1>1. DOMAIN ROLE_ORDER = 1..10
  BY DEF ROLE_ORDER
<1>2. \A i \in 1..10 : i = 1 \/ i = 2 \/ i = 3 \/ i = 4 \/ i = 5 \/ i = 6 \/ i = 7 \/ i = 8 \/ i = 9 \/ i = 10
  OBVIOUS
<1>3. /\ ROLE_ORDER[1] = "week_delta" /\ ROLE_ORDER[2] = "cash_30d" /\ ROLE_ORDER[3] = "aging_drift"
      /\ ROLE_ORDER[4] = "reorder_radar" /\ ROLE_ORDER[5] = "anomalies"
      /\ ROLE_ORDER[6] = "collections_proof" /\ ROLE_ORDER[7] = "concentration"
      /\ ROLE_ORDER[8] = "trapped_capital" /\ ROLE_ORDER[9] = "payment_behaviour"
      /\ ROLE_ORDER[10] = "working_capital"
  BY DEF ROLE_ORDER
<1>4. CardKeys = Alarms \cup {"week_delta", "collections_proof", "concentration",
                              "trapped_capital", "payment_behaviour", "working_capital"}
  <2>1. \A k \in CardKeys : \E i \in 1..10 : k = ROLE_ORDER[i]
    BY <1>1 DEF CardKeys
  <2>2. \A i \in 1..10 : ROLE_ORDER[i] \in CardKeys
    BY <1>1 DEF CardKeys
  <2>3. /\ ROLE_ORDER[1] \in CardKeys /\ ROLE_ORDER[2] \in CardKeys /\ ROLE_ORDER[3] \in CardKeys
        /\ ROLE_ORDER[4] \in CardKeys /\ ROLE_ORDER[5] \in CardKeys /\ ROLE_ORDER[6] \in CardKeys
        /\ ROLE_ORDER[7] \in CardKeys /\ ROLE_ORDER[8] \in CardKeys /\ ROLE_ORDER[9] \in CardKeys
        /\ ROLE_ORDER[10] \in CardKeys
    BY <2>2
  <2>4. QED
    BY <1>2, <1>3, <2>1, <2>3 DEF Alarms
<1>5. ASSUME NEW k \in CardKeys PROVE rank(k) \in Int
  <2>1. \E i \in 1..10 : ROLE_ORDER[i] = k
    BY <1>1 DEF CardKeys
  <2>2. rank(k) \in 1..10
    BY <1>1, <2>1 DEF rank
  <2>3. QED
    BY <2>2
<1>6. QED
  BY <1>4, <1>5

\* A card that can be an alarm has fewer than four such beside it.
LEMMA AlarmsAreFour ==
    /\ IsFiniteSet(Alarms)
    /\ \A k \in Alarms : \A S \in SUBSET (Alarms \ {k}) : IsFiniteSet(S) /\ Cardinality(S) \in Nat /\ Cardinality(S) < 4
<1> DEFINE A1 == {"aging_drift"}
           A2 == A1 \cup {"cash_30d"}
           A3 == A2 \cup {"reorder_radar"}
           A4 == A3 \cup {"anomalies"}
<1>1. IsFiniteSet(A1) /\ Cardinality(A1) = 1
  BY FS_Singleton
<1>2. IsFiniteSet(A2) /\ Cardinality(A2) = 2
  <2>1. "cash_30d" \notin A1
    OBVIOUS
  <2> HIDE DEF A1
  <2>2. QED
    BY <1>1, <2>1, FS_AddElement
<1>3. IsFiniteSet(A3) /\ Cardinality(A3) = 3
  <2>1. "reorder_radar" \notin A2
    OBVIOUS
  <2> HIDE DEF A2
  <2>2. QED
    BY <1>2, <2>1, FS_AddElement
<1>4. IsFiniteSet(A4) /\ Cardinality(A4) = 4
  <2>1. "anomalies" \notin A3
    OBVIOUS
  <2> HIDE DEF A3
  <2>2. QED
    BY <1>3, <2>1, FS_AddElement
<1>5. A4 = Alarms
  BY DEF Alarms
<1> HIDE DEF A4
<1>6. ASSUME NEW k \in Alarms, NEW S \in SUBSET (Alarms \ {k})
      PROVE  IsFiniteSet(S) /\ Cardinality(S) \in Nat /\ Cardinality(S) < 4
  <2>1. IsFiniteSet(Alarms \ {k}) /\ Cardinality(Alarms \ {k}) = 3
    BY <1>4, <1>5, FS_RemoveElement
  <2>2. IsFiniteSet(S) /\ Cardinality(S) <= 3
    BY <2>1, FS_Subset
  <2>3. QED
    BY <2>2, FS_CardinalityType
<1>7. QED
  BY <1>4, <1>5, <1>6

\* A card that is not one of the four is never urgent.
LEMMA SeveritiesAre ==
    ASSUME LedgerInv, NEW stale \in BOOLEAN, NEW k \in CardKeys
    PROVE  /\ severity(k, stale) \in Int
           /\ severity(k, stale) >= 60 => k \in Alarms
<1>1. CASE k = "aging_drift"
  BY <1>1, DriftSeverity DEF severity, Alarms
<1>2. CASE k = "cash_30d"
  BY <1>2 DEF severity, Alarms
<1>3. CASE k = "reorder_radar"
  <2> DEFINE n == Min({MAX_ROWS, Cardinality(reorder_status)})
  <2>1. Cardinality(reorder_status) \in Int
    <3>1. IsFiniteSet(Parties(sales))
      BY PartiesFinite DEF LedgerInv, LinesKept
    <3>2. IsFiniteSet(reorder_status)
      BY <3>1, FS_Subset DEF reorder_status
    <3>3. QED
      BY <3>2, FS_CardinalityType
  <2>2. n \in Int
    <3> DEFINE m == Cardinality(reorder_status)
    <3>1. m \in Int /\ MAX_ROWS \in Int
      BY <2>1, FiguresAssumption
    <3> HIDE DEF m
    <3>2. Min({MAX_ROWS, m}) \in Int
      BY <3>1, OfTwo
    <3>3. QED
      BY <3>2 DEF m
  <2>3. severity(k, stale) = IF n = 0 THEN 5 ELSE 40 + Min({30, 3 * n})
    BY <1>3 DEF severity
  <2> HIDE DEF n
  <2>4. Min({30, 3 * n}) \in Int
    <3> DEFINE m == 3 * n
    <3>1. m \in Int /\ 30 \in Int
      BY <2>2
    <3> HIDE DEF m
    <3>2. Min({30, m}) \in Int
      BY <3>1, OfTwo
    <3>3. QED
      BY <3>2 DEF m
  <2>5. QED
    BY <1>3, <2>3, <2>4 DEF Alarms
<1>4. CASE k = "anomalies"
  <2> DEFINE A == anomalies(stale)
  <2>1. severity(k, stale) = Worst(A)
    BY <1>4 DEF severity, Worst
  <2>2. A \subseteq {60, 70}
    BY DEF anomalies
  <2>3. IsFiniteSet({60, 70})
    BY PairFinite
  <2> HIDE DEF A
  <2>4. IsFiniteSet(A) /\ A \subseteq Int
    <3>1. IsFiniteSet(A)
      BY <2>2, <2>3, FS_Subset
    <3>2. QED
      BY <2>2, <3>1
  <2>5. Worst(A) \in Nat
    BY <2>4, WorstIs
  <2>6. QED
    BY <1>4, <2>1, <2>5 DEF Alarms
<1>5. CASE k = "week_delta"
  BY <1>5 DEF severity
<1>6. CASE k = "collections_proof"
  BY <1>6 DEF severity
<1>7. CASE k = "concentration"
  BY <1>7 DEF severity
<1>8. CASE k = "trapped_capital"
  BY <1>8 DEF severity
<1>9. CASE k = "payment_behaviour"
  BY <1>9 DEF severity
<1>10. CASE k = "working_capital"
  BY <1>10 DEF severity
<1>11. QED
  BY <1>1, <1>2, <1>3, <1>4, <1>5, <1>6, <1>7, <1>8, <1>9, <1>10, CardsAre DEF Alarms

\* No urgent card misses the brief: fewer than four cards are as loud.
LEMMA BriefHasTheUrgent ==
    ASSUME LedgerInv
    PROVE  UrgentReachesTheBrief
<1> SUFFICES ASSUME NEW stale \in BOOLEAN
             PROVE  LET sev == [k \in CardKeys |-> severity(k, stale)] IN
                    urgent(sev, brief_cards(sev)) = urgent(sev, CardKeys)
  BY DEF UrgentReachesTheBrief
<1> DEFINE sev == [k \in CardKeys |-> severity(k, stale)]
           loud == {k \in CardKeys : sev[k] >= BRIEF_MIN_SEVERITY}
<1>1. \A k \in CardKeys : sev[k] \in Int /\ (sev[k] >= 60 => k \in Alarms)
  BY SeveritiesAre
<1>2. brief_cards(sev) = {k \in loud : Cardinality({j \in loud : Before(sev, j, k)}) < BRIEF_MAX_CARDS}
  BY DEF brief_cards
<1> HIDE DEF sev
<1>3. ASSUME NEW k \in CardKeys, sev[k] >= 60 PROVE k \in brief_cards(sev)
  <2> DEFINE S == {j \in loud : Before(sev, j, k)}
  <2>1. k \in loud
    BY <1>1, <1>3, PulseAssumption
  <2>2. k \in Alarms
    BY <1>1, <1>3
  <2>3. \A j \in S : j \in Alarms /\ j # k
    <3> SUFFICES ASSUME NEW j \in S PROVE j \in Alarms /\ j # k
      OBVIOUS
    <3>1. j \in CardKeys /\ Before(sev, j, k)
      OBVIOUS
    <3>2. rank(k) \in Int
      BY CardsAre
    <3>3. QED
      BY <1>1, <1>3, <3>1, <3>2 DEF Before
  <2>4. S \in SUBSET (Alarms \ {k})
    BY <2>3
  <2> HIDE DEF S
  <2>5. Cardinality(S) \in Nat /\ Cardinality(S) < 4
    BY <2>2, <2>4, AlarmsAreFour
  <2>6. Cardinality(S) < BRIEF_MAX_CARDS
    BY <2>5, PulseAssumption
  <2>7. QED
    BY <1>2, <2>1, <2>6 DEF S
<1>4. brief_cards(sev) \subseteq CardKeys
  BY <1>2
<1>5. urgent(sev, brief_cards(sev)) = urgent(sev, CardKeys)
  BY <1>3, <1>4 DEF urgent
<1>6. QED
  BY <1>5 DEF sev

\* No card that asks for attention is missing from the brief (brief.py keeps the
\* loudest BRIEF_MAX_CARDS).
THEOREM UrgentAlwaysReachesTheBrief == LedgersSpec => []UrgentReachesTheBrief
BY BooksKeepTheirShape, BriefHasTheUrgent, PTL

-----------------------------------------------------------------------------
(* Suggestions and verdicts.                                               *)

\* place is the place of each member of S in the order of a figure g and then of itself.
Placed(S, g, upto, place) ==
    /\ IsFiniteSet(S) /\ \A x \in S : x \in Int /\ g[x] \in Int
    /\ \A x \in S : upto[x] \in SUBSET S /\ place[x] = Cardinality(upto[x])
    /\ \A x, y \in S : y \in upto[x] <=> g[y] < g[x] \/ (g[y] = g[x] /\ y <= x)

\* The members of a finite set of numbers, ordered by a figure and then by
\* themselves, have every place from the first to the last.
LEMMA PlacesAre ==
    ASSUME NEW S, NEW g, NEW upto, NEW place, Placed(S, g, upto, place)
    PROVE  \A n \in 1..Cardinality(S) : \E x \in S : place[x] = n
<1> DEFINE k == Cardinality(S)
           p == [x \in S |-> place[x]]
<1>0. IsFiniteSet(S) /\ \A x \in S : x \in Int /\ g[x] \in Int
  BY DEF Placed
<1>1. k \in Nat
  BY <1>0, FS_CardinalityType
<1>2. \A x \in S : x \in upto[x] /\ upto[x] \in SUBSET S /\ place[x] = Cardinality(upto[x])
  <2> TAKE x \in S
  <2>1. x <= x
    BY <1>0
  <2>2. QED
    BY <2>1 DEF Placed
<1>3. \A x, y \in S : y \in upto[x] <=> g[y] < g[x] \/ (g[y] = g[x] /\ y <= x)
  BY DEF Placed
<1>4. \A x \in S : place[x] \in 1..k
  <2> TAKE x \in S
  <2>1. IsFiniteSet(upto[x]) /\ Cardinality(upto[x]) <= k
    BY <1>0, <1>2, FS_Subset
  <2>2. Cardinality(upto[x]) # 0
    BY <1>2, <2>1, FS_EmptySet
  <2>3. Cardinality(upto[x]) \in Nat
    BY <2>1, FS_CardinalityType
  <2>4. \A c \in Nat : c # 0 /\ c <= k => c \in 1..k
    BY <1>1
  <2>5. Cardinality(upto[x]) \in 1..k
    BY <2>1, <2>2, <2>3, <2>4
  <2>6. QED
    BY <1>2, <2>5
<1>5. ASSUME NEW x \in S, NEW y \in S, x \in upto[y], x # y PROVE place[x] # place[y]
  <2>1. upto[x] \subseteq upto[y]
    <3> SUFFICES ASSUME NEW z \in upto[x] PROVE z \in upto[y]
      OBVIOUS
    <3>1. z \in S /\ z \in Int /\ x \in Int /\ y \in Int /\ g[x] \in Int /\ g[y] \in Int /\ g[z] \in Int
      BY <1>0, <1>2
    <3>2. g[z] < g[x] \/ (g[z] = g[x] /\ z <= x)
      BY <1>3, <3>1
    <3>3. g[x] < g[y] \/ (g[x] = g[y] /\ x <= y)
      BY <1>3, <1>5
    <3>4. g[z] < g[y] \/ (g[z] = g[y] /\ z <= y)
      BY <3>1, <3>2, <3>3
    <3>5. QED
      BY <1>3, <3>1, <3>4
  <2>2. y \in upto[y] /\ y \notin upto[x]
    <3>1. x \in Int /\ y \in Int /\ g[x] \in Int /\ g[y] \in Int
      BY <1>0
    <3>2. g[x] < g[y] \/ (g[x] = g[y] /\ x <= y)
      BY <1>3, <1>5
    <3>3. ~(g[y] < g[x] \/ (g[y] = g[x] /\ y <= x))
      BY <1>5, <3>1, <3>2
    <3>4. QED
      BY <1>2, <1>3, <3>3
  <2>3. IsFiniteSet(upto[y]) /\ upto[x] # upto[y]
    BY <1>0, <1>2, <2>2, FS_Subset
  <2>4. Cardinality(upto[x]) # Cardinality(upto[y])
    <3> DEFINE A == upto[x]
               B == upto[y]
    <3>1. A \in SUBSET B /\ A # B /\ IsFiniteSet(B)
      BY <2>1, <2>3
    <3> HIDE DEF A, B
    <3>2. Cardinality(B) # Cardinality(A)
      BY <3>1, FS_Subset
    <3>3. QED
      BY <3>2 DEF A, B
  <2>5. QED
    BY <1>2, <2>4
<1>6. \A x, y \in S : place[x] = place[y] => x = y
  <2> SUFFICES ASSUME NEW x \in S, NEW y \in S, x # y PROVE place[x] # place[y]
    OBVIOUS
  <2>1. x \in upto[y] \/ y \in upto[x]
    <3>1. x \in Int /\ y \in Int /\ g[x] \in Int /\ g[y] \in Int
      BY <1>0
    <3>2. \/ g[x] < g[y] \/ (g[x] = g[y] /\ x <= y)
          \/ g[y] < g[x] \/ (g[y] = g[x] /\ y <= x)
      BY <3>1
    <3>3. QED
      BY <1>3, <3>2
  <2>2. QED
    BY <1>5, <2>1
<1>7. p \in Injection(S, 1..k)
  <2>1. p \in [S -> 1..k]
    BY <1>4
  <2>2. \A x, y \in S : p[x] = p[y] => x = y
    BY <1>6
  <2> HIDE DEF p
  <2>3. QED
    BY <2>1, <2>2 DEF Injection, IsInjective
<1> HIDE DEF p
<1>8. IsFiniteSet(1..k) /\ Cardinality(1..k) = k
  BY <1>1, FS_Interval
<1>9. p \in Surjection(S, 1..k)
  BY <1>0, <1>7, <1>8, FS_Injection
<1>10. \A n \in 1..k : \E x \in S : p[x] = n
  BY <1>9 DEF Surjection
<1>11. QED
  BY <1>10 DEF p

\* The middle gap of a customer who has bought on two days at least is a gap.
LEMMA MedianIs ==
    ASSUME NEW days, IsFiniteSet(days), days \subseteq Nat, Cardinality(days) > 1
    PROVE  median_gap(days) \in Nat \ {0}
<1> DEFINE ends == days \ {Min(days)}
           k == Cardinality(ends)
           gap(d) == d - Max({e \in days : e < d})
           place(d) == Cardinality({e \in ends : gap(e) < gap(d) \/ (gap(e) = gap(d) /\ e <= d)})
           at(n) == gap(CHOOSE d \in ends : place(d) = n)
           g == [d \in ends |-> gap(d)]
           upto == [d \in ends |-> {e \in ends : gap(e) < gap(d) \/ (gap(e) = gap(d) /\ e <= d)}]
           p == [d \in ends |-> place(d)]
<1>1. days # {} /\ days \subseteq Int
  BY FS_EmptySet
<1>2. Min(days) \in days /\ \A d \in days : Min(days) <= d
  BY <1>1, MinIs
<1>3. IsFiniteSet(ends) /\ k \in Nat /\ k > 0
  <2>1. IsFiniteSet(ends) /\ Cardinality(ends) = Cardinality(days) - 1
    BY <1>2, FS_RemoveElement
  <2>2. Cardinality(days) \in Nat
    BY FS_CardinalityType
  <2>3. QED
    BY <2>1, <2>2
<1>0. \A d \in days : d \in Nat /\ d \in Int
  OBVIOUS
<1>4. (\A d \in ends : d \in days /\ d # Min(days) /\ d \in Nat /\ d \in Int) /\ ends \subseteq Int
  BY <1>0
<1>5. ASSUME NEW d \in ends PROVE gap(d) \in Nat \ {0}
  <2> DEFINE E == {e \in days : e < d}
  <2>1. Min(days) \in E
    <3>1. Min(days) \in Nat /\ d \in Nat /\ Min(days) # d /\ Min(days) <= d
      BY <1>0, <1>2, <1>4
    <3>2. Min(days) < d
      BY <3>1
    <3>3. QED
      BY <1>2, <3>2
  <2>2. IsFiniteSet(E) /\ E \subseteq Int /\ E # {}
    <3>1. IsFiniteSet(E)
      BY FS_Subset
    <3>2. \A e \in E : e \in Int
      BY <1>0
    <3> HIDE DEF E
    <3>3. QED
      BY <2>1, <3>1, <3>2
  <2>3. d \in Nat /\ \A e \in E : e \in Nat /\ e < d
    BY <1>0, <1>4
  <2> HIDE DEF E
  <2>4. Max(E) \in E
    BY <2>2, MaxIs
  <2>5. d - Max(E) \in Nat \ {0}
    BY <2>3, <2>4
  <2>6. QED
    BY <2>5 DEF E
<1>6. \A d \in ends : g[d] \in Int /\ g[d] = gap(d)
  BY <1>5
<1>7. \A d \in ends : p[d] = place(d)
  OBVIOUS
<1>8. Placed(ends, g, upto, p)
  BY <1>3, <1>4, <1>6 DEF Placed
<1>9. median_gap(days) = at((k + 1) \div 2) + at(k \div 2 + 1)
  BY DEF median_gap
<1> HIDE DEF ends, gap, place, g, p, k, upto
<1>10. ASSUME NEW n \in 1..k PROVE at(n) \in Nat \ {0}
  <2>1. \E d \in ends : p[d] = n
    <3>2. \A m \in 1..Cardinality(ends) : \E d \in ends : p[d] = m
      BY <1>8, PlacesAre
    <3>3. QED
      BY <1>10, <3>2 DEF k
  <2>2. \E d \in ends : place(d) = n
    BY <1>7, <2>1
  <2>3. (CHOOSE d \in ends : place(d) = n) \in ends
    BY <2>2
  <2>4. QED
    BY <1>5, <2>3
<1>11. (k + 1) \div 2 \in 1..k /\ k \div 2 + 1 \in 1..k
  BY <1>3
<1> HIDE DEF at
<1>12. at((k + 1) \div 2) \in Nat \ {0} /\ at(k \div 2 + 1) \in Nat \ {0}
  BY <1>10, <1>11
<1>13. QED
  BY <1>9, <1>12

\* The days a customer has bought on.
LEMMA DaysOfBuying ==
    ASSUME LedgerInv, NEW c \in Parties(sales)
    PROVE  /\ Of(sales, c) # {} /\ IsFiniteSet(OrderDays(c)) /\ OrderDays(c) \subseteq Nat
           /\ OrderDays(c) # {} /\ Max(OrderDays(c)) \in Nat
           /\ Anchor \in Nat /\ Anchor <= day /\ Max(OrderDays(c)) <= Anchor
           /\ \E r \in sales : r.day = Anchor
<1>1. PICK r \in sales : r.party = c
  BY DEF Parties
<1>2. r \in Of(sales, c) /\ Of(sales, c) \in SUBSET sales
  BY <1>1 DEF Of
<1>3. day \in Nat /\ LinesKept(sales, day)
  BY DEF LedgerInv
<1>4. IsFiniteSet(OrderDays(c)) /\ OrderDays(c) \subseteq Nat
  BY <1>2, <1>3, DaysFinite DEF OrderDays
<1>5. OrderDays(c) # {}
  BY <1>2 DEF OrderDays
<1>6. Max(OrderDays(c)) \in OrderDays(c)
  <2> DEFINE D == OrderDays(c)
  <2>1. IsFiniteSet(D) /\ D \subseteq Int /\ D # {}
    BY <1>4, <1>5
  <2> HIDE DEF D
  <2>2. Max(D) \in D
    BY <2>1, MaxIs
  <2>3. QED
    BY <2>2 DEF D
<1>7. /\ date_range(sales).to \in Nat /\ date_range(sales).to <= day
      /\ \A q \in sales : q.day <= date_range(sales).to
      /\ \E q \in sales : q.day = date_range(sales).to
  BY <1>1, <1>3, RangeIs
<1>8. Anchor = date_range(sales).to
  BY <1>1 DEF Anchor
<1>9. PICK q \in sales : q.day = Max(OrderDays(c))
  BY <1>2, <1>6 DEF OrderDays
<1>10. QED
  BY <1>2, <1>4, <1>5, <1>6, <1>7, <1>8, <1>9

\* Who is past his own gap has not bought today, nor as late as others.
LEMMA RegularsAre ==
    ASSUME LedgerInv, NEW c \in reorder_status
    PROVE  c \in Parties(sales) /\ Max(OrderDays(c)) < Anchor
<1> DEFINE days == OrderDays(c)
           gap == median_gap(days)
           last == Max(days)
<1>1. /\ c \in Parties(sales) /\ Cardinality(days) >= REORDER_MIN_ORDERS
      /\ 4 * (Anchor - last) > 3 * gap
  BY DEF reorder_status
<1>2. IsFiniteSet(days) /\ days \subseteq Nat /\ last \in Nat /\ Anchor \in Nat
  BY <1>1, DaysOfBuying
<1>3. Cardinality(days) > 1
  BY <1>1, <1>2, FS_CardinalityType, PulseAssumption
<1> HIDE DEF days
<1>4. gap \in Nat \ {0}
  BY <1>2, <1>3, MedianIs
<1> HIDE DEF gap, last
<1>5. last < Anchor
  BY <1>1, <1>2, <1>4
<1>6. QED
  BY <1>1, <1>5 DEF last, days

\* What lies dead in stock has a value.
LEMMA DeadIs ==
    ASSUME LedgerInv, NEW then
    PROVE  dead_value(then) \in Int
<1> DEFINE K == {k \in Held : ~ \E r \in sales : r.sku = k /\ r.day >= then - TRAIL /\ r.day <= then}
           f == [k \in K |-> stock[k]]
<1>1. dead_value(then) = Over(f, K)
  BY DEF dead_value, Sum, SumFunction, Over
<1>2. stock \in [Skus -> Int] /\ K \subseteq Skus
  BY DEF LedgerInv, Held
<1>3. IsFiniteSet(K) /\ \A k \in K : f[k] \in Int
  BY <1>2, FS_Subset, LedgersAssumption
<1> HIDE DEF K, f
<1>4. QED
  BY <1>1, <1>3, OverInt

\* The shares of the largest customers are numbers, of the goods of the window.
LEMMA TopShareIs ==
    ASSUME LedgerInv, NEW w
    PROVE  shares(w).top1 \in Int /\ shares(w).top3 \in Int /\ shares(w).total = Goods(Within(sales, w))
<1> DEFINE rows == Within(sales, w)
           first(n) == Sum(top_parties(rows, n), LAMBDA c : RevenueOf(rows, c))
<1>1. day \in Nat /\ LinesKept(sales, day) /\ rows \in SUBSET sales
  BY DEF LedgerInv, Within
<1>2. Goods(rows) \in Nat
  BY <1>1, LinesAre
<1>3. ASSUME NEW n \in Nat PROVE first(n) \in Int
  <2> DEFINE T == top_parties(rows, n)
             f == [c \in T |-> RevenueOf(rows, c)]
  <2>1. T \in SUBSET Parties(rows) /\ IsFiniteSet(T)
    BY <1>1, TopPartiesAre
  <2>2. \A c \in T : f[c] \in Int
    <3> TAKE c \in T
    <3>1. {r \in rows : r.party = c} \in SUBSET sales
      BY <1>1
    <3>2. Goods({r \in rows : r.party = c}) \in Nat
      BY <1>1, <3>1, LinesAre
    <3>3. QED
      BY <3>2 DEF RevenueOf
  <2>3. first(n) = Over(f, T)
    BY DEF Sum, SumFunction, Over
  <2> HIDE DEF T, f
  <2>4. QED
    BY <2>1, <2>2, <2>3, OverInt
<1>4. \A n \in Nat : pct(first(n), Goods(rows)) \in Int
  <2> TAKE n \in Nat
  <2> DEFINE a == first(n)
             b == Goods(rows)
  <2>1. a \in Int /\ b \in Nat
    BY <1>2, <1>3
  <2> HIDE DEF a, b
  <2>2. b # 0 => (100 * a) \div b \in Int
    BY <2>1
  <2>3. pct(a, b) \in Int
    BY <2>2 DEF pct
  <2>4. QED
    BY <2>3 DEF a, b
<1>5. /\ shares(w).top1 = pct(first(1), Goods(rows)) /\ shares(w).top3 = pct(first(3), Goods(rows))
      /\ shares(w).total = Goods(rows)
  BY DEF shares
<1> HIDE DEF first, rows
<1>6. shares(w).top1 \in Int /\ shares(w).top3 \in Int
  BY <1>4, <1>5
<1>7. QED
  BY <1>5, <1>6 DEF rows

\* What each suggestion is measured by.
LEMMA SuggestionsAre ==
    ASSUME NEW sug \in build_suggestions, sug.key \notin {"drift60", "slow"}
    PROVE  \/ \E c \in Riskiest :
                 position(c).late >= MIN_CUSTOMER_OUTSTANDING /\ sug.baseline = customer_outstanding(c)
           \/ \E c \in reorder_status : sug.baseline = customer_days_quiet(c)
           \/ dead_stock_delta.value > MIN_DEAD_STOCK /\ sug.baseline = dead_stock_delta.value
           \/ /\ concentration_trend.now.top1 >= CONCENTRATION_ALARM_PCT
              /\ sug.baseline = concentration_trend.now.top1
<1>1. \/ sug.key \in {"drift60", "slow"}
      \/ \E c \in Riskiest : position(c).late >= MIN_CUSTOMER_OUTSTANDING /\ sug.baseline = customer_outstanding(c)
      \/ \E c \in reorder_status : sug.baseline = customer_days_quiet(c)
      \/ Worth_clearing /\ sug.baseline = dead_stock_delta.value
      \/ /\ concentration_trend.now.top1 >= CONCENTRATION_ALARM_PCT
         /\ sug.baseline = concentration_trend.now.top1
  BY DEF build_suggestions
<1>2. QED
  BY <1>1 DEF Worth_clearing

\* A suggestion can be judged.
LEMMA BaselinesAre ==
    ASSUME LedgerInv
    PROVE  BaselinesCanBeJudged
<1> SUFFICES ASSUME NEW sug \in build_suggestions, sug.key \notin {"drift60", "slow"}, ~InCredit
             PROVE  sug.baseline # None /\ sug.baseline # 0
  BY DEF BaselinesCanBeJudged
<1>1. sug.baseline \in Int \ {0} => sug.baseline # None /\ sug.baseline # 0
  BY FiguresAssumption
<1>2. ASSUME NEW c, position(c).late >= MIN_CUSTOMER_OUTSTANDING, sug.baseline = customer_outstanding(c)
      PROVE  sug.baseline \in Int \ {0}
  <2> DEFINE A == {r \in Of(Debts, c) : Overdue(r)}
             B == Of(ar, c)
  <2>1. A \in SUBSET ar /\ B \in SUBSET ar /\ A \cap Debts \subseteq B
    BY DEF Of, Debts
  <2>2. position(c).late = Owed(A) /\ customer_outstanding(c) = Owed(B)
    BY DEF position, customer_outstanding
  <2> HIDE DEF A, B
  <2>3. Owed(A) \in Int /\ Owed(B) \in Int
    BY <2>1, Balances
  <2>4. Owed(A) <= Owed(B)
    BY <2>1, PaidDoesNotCount
  <2>5. QED
    BY <1>2, <2>2, <2>3, <2>4, PulseAssumption
<1>3. ASSUME NEW c \in reorder_status, sug.baseline = customer_days_quiet(c)
      PROVE  sug.baseline \in Int \ {0}
  <2>1. c \in Parties(sales) /\ Max(OrderDays(c)) < Anchor
    BY RegularsAre
  <2>2. Of(sales, c) # {} /\ Max(OrderDays(c)) \in Nat /\ Anchor \in Nat /\ Anchor <= day /\ day \in Nat
    BY <2>1, DaysOfBuying DEF LedgerInv
  <2>3. customer_days_quiet(c) = day - Max(OrderDays(c))
    BY <2>2 DEF customer_days_quiet
  <2>4. QED
    BY <1>3, <2>1, <2>2, <2>3
<1>4. ASSUME dead_stock_delta.value > MIN_DEAD_STOCK, sug.baseline = dead_stock_delta.value
      PROVE  sug.baseline \in Int \ {0}
  <2>1. dead_stock_delta.value \in Int
    BY DeadIs DEF dead_stock_delta
  <2>2. QED
    BY <1>4, <2>1, PulseAssumption
<1>5. ASSUME concentration_trend.now.top1 >= CONCENTRATION_ALARM_PCT, sug.baseline = concentration_trend.now.top1
      PROVE  sug.baseline \in Int \ {0}
  <2> DEFINE w == [start |-> Anchor - TRAIL, end |-> Anchor]
  <2>1. concentration_trend.now = shares(w)
    BY DEF concentration_trend
  <2>2. shares(w).top1 \in Int
    BY TopShareIs
  <2>3. QED
    BY <1>5, <2>1, <2>2, PulseAssumption
<1>6. QED
  BY <1>1, <1>2, <1>3, <1>4, <1>5, SuggestionsAre

\* The verdict on a figure, in whole numbers.
LEMMA VerdictOf ==
    ASSUME NEW b \in Int, NEW x \in Int, NEW lower \in BOOLEAN, NEW target \in Int \cup {None}
    PROVE  LET n == IF b < 0 THEN -b ELSE b
               better == IF lower THEN b - x ELSE x - b
               met == target # None /\ IF lower THEN x <= target ELSE x >= target
           IN  verdict(b, x, lower, target)
                  = IF b = 0 THEN 1
                    ELSE IF met \/ 100 * better >= DEFAULT_TARGET_IMPROVEMENT_PCT * n THEN 2
                    ELSE IF 100 * better <= -(NOISE_FLOOR_PCT * n) THEN 0 ELSE 1
<1> DEFINE n == IF b < 0 THEN -b ELSE b
           better == IF lower THEN b - x ELSE x - b
           met == target # None /\ IF lower THEN x <= target ELSE x >= target
           p == DEFAULT_TARGET_IMPROVEMENT_PCT * n
           q == NOISE_FLOOR_PCT * n
<1>1. n \in Nat /\ better \in Int
  OBVIOUS
<1>2. p \in Int /\ q \in Int
  BY <1>1, PulseAssumption
<1>3. -NOISE_FLOOR_PCT * n = -q
  BY <1>1, PulseAssumption
<1>4. verdict(b, x, lower, target)
        = CASE b = 0 -> 1
            [] b # 0 /\ (met \/ 100 * better >= p) -> 2
            [] b # 0 /\ ~met /\ 100 * better <= -NOISE_FLOOR_PCT * n -> 0
            [] OTHER -> 1
  BY DEF verdict, improvement
<1> HIDE DEF met, better, p, q, n
<1>5. verdict(b, x, lower, target)
        = CASE b = 0 -> 1
            [] b # 0 /\ (met \/ 100 * better >= p) -> 2
            [] b # 0 /\ ~met /\ 100 * better <= -q -> 0
            [] OTHER -> 1
  BY <1>3, <1>4
<1>7. b # 0 => p > 0 /\ q > 0
  <2>1. b # 0 => n > 0
    BY DEF n
  <2>2. QED
    BY <1>1, <2>1, PulseAssumption DEF p, q
<1>8. verdict(b, x, lower, target)
        = IF b = 0 THEN 1 ELSE IF met \/ 100 * better >= p THEN 2 ELSE IF 100 * better <= -q THEN 0 ELSE 1
  BY <1>1, <1>2, <1>5, <1>7
<1>9. QED
  BY <1>8 DEF met, better, p, q, n

\* A better figure has no worse a verdict.
LEMMA BetterIsNoWorse ==
    ASSUME NEW b \in Int, NEW x \in Int, NEW y \in Int, NEW lower \in BOOLEAN, NEW target \in Int \cup {None},
           x > 0
    PROVE  /\ (IF lower THEN x <= y ELSE x >= y) => verdict(b, x, lower, target) >= verdict(b, y, lower, target)
           /\ verdict(b, x, lower, target) = 0 => IF lower THEN x > b ELSE x < b
           /\ target = None => verdict(x, x, lower, target) = 1
<1> DEFINE n(a) == IF a < 0 THEN -a ELSE a
           p == DEFAULT_TARGET_IMPROVEMENT_PCT * n(b)
           q == NOISE_FLOOR_PCT * n(b)
           better(z) == IF lower THEN b - z ELSE z - b
           met(z) == target # None /\ IF lower THEN z <= target ELSE z >= target
           v(z) == IF b = 0 THEN 1 ELSE IF met(z) \/ 100 * better(z) >= p THEN 2
                   ELSE IF 100 * better(z) <= -q THEN 0 ELSE 1
<1>1. verdict(b, x, lower, target) = v(x) /\ verdict(b, y, lower, target) = v(y)
  BY VerdictOf
<1>2. p \in Int /\ q \in Int /\ (b # 0 => p > 0 /\ q > 0)
  BY PulseAssumption
<1>3. ASSUME IF lower THEN x <= y ELSE x >= y PROVE better(x) >= better(y) /\ (met(y) => met(x))
  BY <1>3, FiguresAssumption
<1>4. better(x) \in Int /\ better(y) \in Int
  OBVIOUS
<1>5. (IF lower THEN x <= y ELSE x >= y) => v(x) >= v(y)
  <2> HIDE DEF p, q, better, met
  <2>1. QED
    BY <1>2, <1>3, <1>4
<1>6. v(x) = 0 => b # 0 /\ 100 * better(x) <= -q
  <2> HIDE DEF p, q, better, met
  <2>1. QED
    OBVIOUS
<1>7. v(x) = 0 => IF lower THEN x > b ELSE x < b
  <2> HIDE DEF p, q, v
  <2>1. QED
    BY <1>2, <1>6
<1>8. target = None => verdict(x, x, lower, target) = 1
  <2> HAVE target = None
  <2>1. verdict(x, x, lower, None)
          = IF x = 0 THEN 1
            ELSE IF (None # None /\ IF lower THEN x <= None ELSE x >= None)
                    \/ 100 * (IF lower THEN x - x ELSE x - x) >= DEFAULT_TARGET_IMPROVEMENT_PCT * n(x) THEN 2
            ELSE IF 100 * (IF lower THEN x - x ELSE x - x) <= -(NOISE_FLOOR_PCT * n(x)) THEN 0 ELSE 1
    BY VerdictOf
  <2>2. DEFAULT_TARGET_IMPROVEMENT_PCT * n(x) > 0 /\ NOISE_FLOOR_PCT * n(x) > 0
        /\ NOISE_FLOOR_PCT * n(x) \in Int /\ DEFAULT_TARGET_IMPROVEMENT_PCT * n(x) \in Int
    BY PulseAssumption
  <2> DEFINE a == DEFAULT_TARGET_IMPROVEMENT_PCT * n(x)
             z == NOISE_FLOOR_PCT * n(x)
  <2> HIDE DEF a, z
  <2>3. verdict(x, x, lower, None) = IF 0 >= a THEN 2 ELSE IF 0 <= -z THEN 0 ELSE 1
    BY <2>1 DEF a, z
  <2>4. a > 0 /\ z > 0 /\ a \in Int /\ z \in Int
    BY <2>2 DEF a, z
  <2>5. QED
    BY <2>3, <2>4
<1>9. QED
  BY <1>1, <1>5, <1>7, <1>8

\* Verdicts on the overdue total are fair.
LEMMA VerdictsAre ==
    ASSUME LedgerInv
    PROVE  VerdictsAreFair
<1> DEFINE x == overdue_total
<1>1. x \in Int
  <2>1. {r \in Debts : r.due < day} \in SUBSET ar
    BY DEF Debts
  <2>2. QED
    BY <2>1, Balances DEF overdue_total
<1> HIDE DEF x
<1>2. SUFFICES ASSUME NEW b \in Readings, NEW y \in Readings, NEW lower \in BOOLEAN,
                      NEW target \in Readings \cup {None}, x > 0
               PROVE  /\ (IF lower THEN x <= y ELSE x >= y) => verdict(b, x, lower, target) >= verdict(b, y, lower, target)
                      /\ verdict(b, x, lower, target) = 0 => IF lower THEN x > b ELSE x < b
                      /\ target = None => verdict(x, x, lower, target) = 1
  BY DEF VerdictsAreFair, x
<1>3. b \in Int /\ y \in Int /\ target \in Int \cup {None}
  BY PulseAssumption
<1>4. QED
  BY <1>1, <1>2, <1>3, BetterIsNoWorse

\* Whatever the books look like, a suggestion of strategy.py can be judged when its
\* window ends, and outcomes.py judges fairly.
THEOREM SuggestionsAreAlwaysJudged == LedgersSpec => []SuggestionsCanBeJudged
<1>1. LedgerInv => SuggestionsCanBeJudged
  BY BaselinesAre, VerdictsAre DEF SuggestionsCanBeJudged
<1>2. QED
  BY BooksKeepTheirShape, <1>1, PTL

-----------------------------------------------------------------------------
(* Payments, from the copies.                                              *)

\* The days that were copied, and the one after each.
LEMMA NextCopyIs ==
    ASSUME LedgerInv
    PROVE  /\ IsFiniteSet(snapshot_dates) /\ snapshot_dates \subseteq Int
           /\ \A s \in snaps : s.on \in snapshot_dates /\ s.on \in Int
           /\ \A d \in snapshot_dates : \A e \in snapshot_dates :
                 e > d => /\ Next_copy(d) \in snapshot_dates /\ Next_copy(d) > d /\ Next_copy(d) <= e
                          /\ \E t \in snaps : t.on = Next_copy(d)
<1> DEFINE f == [s \in snaps |-> s.on]
<1>1. IsFiniteSet(snaps) /\ \A s \in snaps : s.on \in Int
  BY CopiesAre
<1>2. \A d \in snapshot_dates : \E s \in snaps : d = f[s]
  BY DEF snapshot_dates
<1>3. IsFiniteSet(snapshot_dates)
  <2> HIDE DEF f
  <2> QED BY <1>1, <1>2, ImageFinite
<1>4. snapshot_dates \subseteq Int /\ \A s \in snaps : s.on \in snapshot_dates
  BY <1>1 DEF snapshot_dates
<1>5. ASSUME NEW d \in snapshot_dates, NEW e \in snapshot_dates, e > d
      PROVE  /\ Next_copy(d) \in snapshot_dates /\ Next_copy(d) > d /\ Next_copy(d) <= e
             /\ \E t \in snaps : t.on = Next_copy(d)
  <2> DEFINE L == {x \in snapshot_dates : x > d}
  <2>1. IsFiniteSet(L) /\ e \in L
    BY <1>3, <1>5, FS_Subset
  <2>2. L \subseteq Int /\ L \subseteq snapshot_dates /\ (\A x \in L : x > d) /\ L # {}
    BY <1>4, <2>1
  <2>3. Next_copy(d) = Min(L)
    BY DEF Next_copy
  <2> HIDE DEF L
  <2>4. Min(L) \in L /\ Min(L) <= e
    BY <2>1, <2>2, MinIs
  <2>5. Next_copy(d) \in snapshot_dates /\ Next_copy(d) > d /\ Next_copy(d) <= e
    BY <2>2, <2>3, <2>4
  <2>6. QED
    BY <2>5 DEF snapshot_dates
<1>6. QED
  BY <1>1, <1>3, <1>4, <1>5

\* What is inferred to be paid has a later copy without it.
LEMMA InferredAre ==
    ASSUME LedgerInv
    PROVE  /\ inferred_payments \in SUBSET snaps
           /\ \A s \in inferred_payments :
                 /\ paid_on(s) \in Int /\ paid_on(s) > s.on /\ paid_on(s) - s.day >= 1
                 /\ \E t \in snaps : t.on = paid_on(s)
                 /\ \A t \in snaps : t.on = paid_on(s) => t.no # s.no
                 /\ \A t \in snaps : t.on > s.on => t.on >= paid_on(s)
<1>1. inferred_payments \in SUBSET snaps
  BY DEF inferred_payments
<1>2. ASSUME NEW s \in inferred_payments
      PROVE  /\ paid_on(s) \in Int /\ paid_on(s) > s.on /\ paid_on(s) - s.day >= 1
             /\ \E t \in snaps : t.on = paid_on(s)
             /\ \A t \in snaps : t.on = paid_on(s) => t.no # s.no
             /\ \A t \in snaps : t.on > s.on => t.on >= paid_on(s)
  <2>1. s \in snaps /\ s.on \in Int /\ s.day \in Int /\ s.day <= s.on /\ s.on \in snapshot_dates
    BY <1>1, CopiesAre, NextCopyIs
  <2>2. PICK d \in snapshot_dates : d > s.on
    BY DEF inferred_payments
  <2>3. /\ paid_on(s) \in snapshot_dates /\ paid_on(s) > s.on
        /\ \E t \in snaps : t.on = paid_on(s)
    BY <2>1, <2>2, NextCopyIs DEF paid_on
  <2>4. paid_on(s) \in Int /\ paid_on(s) - s.day >= 1
    BY <2>1, <2>3, NextCopyIs
  <2>5. \A t \in snaps : t.on = paid_on(s) => t.no # s.no
    BY DEF inferred_payments, paid_on, On
  <2>6. \A t \in snaps : t.on > s.on => t.on >= paid_on(s)
    BY <2>1, <2>4, NextCopyIs DEF paid_on
  <2>7. QED
    BY <2>3, <2>4, <2>5, <2>6
<1>3. QED
  BY <1>1, <1>2

\* An invoice that was gone at the next copy does not come back.
LEMMA InferredOnce ==
    ASSUME LedgerInv, NEW s \in inferred_payments, NEW t \in inferred_payments, s.no = t.no
    PROVE  s = t
<1>1. s \in snaps /\ t \in snaps /\ s.on \in Int /\ t.on \in Int
  BY InferredAre, NextCopyIs
<1>2. s.on = t.on => s = t
  BY <1>1 DEF LedgerInv, CopiesKept
<1>3. ASSUME NEW a \in inferred_payments, NEW b \in inferred_payments, a.no = b.no, a.on < b.on
      PROVE  FALSE
  <2>1. a \in snaps /\ b \in snaps /\ a.on \in Int /\ b.on \in Int
    BY InferredAre, NextCopyIs
  <2>2. PICK u \in snaps : u.on = paid_on(a)
    BY InferredAre
  <2>3. u.on \in Int /\ u.on > a.on /\ u.on <= b.on
    BY <1>3, <2>1, <2>2, InferredAre
  <2>4. u.on # b.on
    BY <1>3, <2>1, <2>2, InferredAre
  <2>5. PICK v \in snaps : v.on = u.on /\ v.no = a.no
    BY <1>3, <2>1, <2>3, <2>4 DEF LedgerInv, CopiesKept
  <2>6. QED
    BY <2>2, <2>5, InferredAre
<1>4. QED
  BY <1>1, <1>2, <1>3

\* What is inferred to be paid owes nothing.
LEMMA InferredOwesNothing ==
    ASSUME LedgerInv, NEW s \in inferred_payments, NEW r \in Debts, r.no = s.no
    PROVE  FALSE
<1>1. s \in snaps /\ r \in ar /\ r.owed > 0
  BY InferredAre DEF Debts
<1>2. PICK q \in ar : q.no = s.no /\ q.day = s.day
  BY <1>1 DEF LedgerInv, CopiesKept
<1>3. q = r
  BY <1>1, <1>2 DEF LedgerInv, BalancesKept
<1>4. PICK t \in snaps : t.on = paid_on(s)
  BY InferredAre
<1>5. t.on >= r.day
  <2>1. s.on \in Int /\ s.day \in Int /\ s.day <= s.on /\ paid_on(s) \in Int /\ paid_on(s) > s.on
    BY <1>1, InferredAre, CopiesAre
  <2>2. QED
    BY <1>2, <1>3, <1>4, <2>1
<1>6. PICK v \in snaps : v.on = t.on /\ v.no = r.no
  BY <1>1, <1>5 DEF LedgerInv, CopiesKept
<1>7. QED
  BY <1>4, <1>6, InferredAre

\* What is owed no more is inferred to be paid once a later day is copied.
LEMMA PaidIsInferred ==
    ASSUME LedgerInv, NEW no, {s \in snaps : s.no = no} # {},
           Max({s.on : s \in {q \in snaps : q.no = no}}) < Max(snapshot_dates),
           Max({s.on : s \in {q \in snaps : q.no = no}}) >= Max(snapshot_dates) - window_days
    PROVE  no \in Numbers(inferred_payments)
<1> DEFINE copies == {q \in snaps : q.no = no}
           D == {s.on : s \in copies}
           f == [s \in snaps |-> s.on]
<1>1. IsFiniteSet(D) /\ D \subseteq Int /\ D # {}
  <2>1. \A d \in D : \E s \in snaps : d = f[s]
    OBVIOUS
  <2>2. D \subseteq Int /\ D # {}
    BY NextCopyIs
  <2> HIDE DEF D, f
  <2>3. QED
    BY <2>1, <2>2, ImageFinite, CopiesAre
<1>2. Max(D) \in D /\ \A d \in D : d <= Max(D)
  <2> HIDE DEF D
  <2>1. QED
    BY <1>1, MaxIs
<1>3. PICK s \in copies : s.on = Max(D)
  BY <1>2
<1>4. \A t \in copies : t.on <= s.on
  BY <1>2, <1>3
<1>5. s \in snaps /\ s.no = no /\ s.on \in snapshot_dates
  BY <1>3, NextCopyIs
<1>6. Max(snapshot_dates) \in snapshot_dates /\ Max(snapshot_dates) > s.on
  BY <1>3, <1>5, NextCopyIs, MaxIs
<1>7. Next_copy(s.on) > s.on /\ Next_copy(s.on) \in Int /\ s.on \in Int
  BY <1>5, <1>6, NextCopyIs
<1>8. ~ \E t \in On(Next_copy(s.on)) : t.no = s.no
  BY <1>4, <1>5, <1>7 DEF On
<1>9. s \in inferred_payments
  BY <1>3, <1>5, <1>6, <1>8 DEF inferred_payments
<1>10. QED
  BY <1>5, <1>9 DEF Numbers

\* Nobody pays before he owes.
LEMMA AverageIsPositive ==
    ASSUME LedgerInv, avg_days_to_pay # None
    PROVE  avg_days_to_pay > 0
<1> DEFINE paid == inferred_payments
           f == [s \in paid |-> paid_on(s) - s.day]
           one == [s \in paid |-> 1]
           n == Cardinality(paid)
           total == Over(f, paid)
<1>1. paid # {} /\ avg_days_to_pay = total \div n
  <2>1. Sum(paid, LAMBDA s : paid_on(s) - s.day) = total
    BY DEF Sum, SumFunction, Over
  <2>2. QED
    BY <2>1 DEF avg_days_to_pay, days_to_pay
<1>2. IsFiniteSet(paid)
  BY InferredAre, CopiesAre
<1>3. \A s \in paid : f[s] \in Int /\ one[s] = 1 /\ one[s] \in Int /\ one[s] <= f[s]
  BY InferredAre, CopiesAre
<1>4. n \in Nat \ {0}
  BY <1>1, <1>2, FS_EmptySet, FS_CardinalityType
<1> HIDE DEF paid, f, one
<1>5. total \in Int /\ Over(one, paid) = n /\ Over(one, paid) <= total
  BY <1>2, <1>3, OverInt, OverCount, OverLess
<1> HIDE DEF n, total
<1>6. total \div n >= 1 /\ total \div n \in Int
  BY <1>4, <1>5, Division
<1>7. QED
  BY <1>1, <1>6

\* The rows of a day's copy, by bucket.
LEMMA CopyBucketsMakeTheCopy ==
    ASSUME LedgerInv, NEW d \in snapshot_dates
    PROVE  Total(bucket_totals(d)) = Owed(On(d))
<1> DEFINE g == [b \in 1..4 |-> Owed({s \in On(d) : BucketOf(d - s.day) = b})]
           part == [b \in 1..4 |-> {s \in On(d) : BucketOf(d - s.day) = b}]
<1>1. bucket_totals(d) = g
  BY DEF bucket_totals
<1>2. On(d) \in SUBSET snaps
  BY DEF On
<1>3. IsFiniteSet(1..4) /\ DOMAIN g = 1..4
  <2>1. IsFiniteSet(1..4)
    BY FS_Interval, 1 \in Int, 4 \in Int
  <2>2. QED
    BY <2>1
<1>4. Parted(part, 1..4, On(d))
  BY DEF Parted, BucketOf
<1>5. \A b \in 1..4 : g[b] = Column(part[b], "owed")
  <2> TAKE b \in 1..4
  <2> DEFINE A == {s \in On(d) : BucketOf(d - s.day) = b}
  <2>1. A \in SUBSET snaps
    BY <1>2
  <2>2. g[b] = Owed(A) /\ part[b] = A
    OBVIOUS
  <2> HIDE DEF A, part, g
  <2>3. QED
    BY <2>1, <2>2, CopiesAre
<1>6. /\ IsFiniteSet(On(d)) /\ Owed(On(d)) = Column(On(d), "owed")
      /\ \A s \in On(d) : s["owed"] \in Int
  BY <1>2, CopiesAre
<1> HIDE DEF part, g
<1>7. QED
  BY <1>1, <1>3, <1>4, <1>5, <1>6, TotalOfParts

\* What is inferred from the copies was paid, once, and in time.
LEMMA PaymentsAre ==
    ASSUME LedgerInv
    PROVE  PaymentsAreInferred
<1> DEFINE paid == inferred_payments
           f == [s \in paid |-> s.no]
<1>1. Cardinality(Numbers(paid)) = Cardinality(paid)
  <2>1. /\ \A n \in Numbers(paid) : \E s \in paid : n = f[s]
        /\ \A s \in paid : f[s] \in Numbers(paid)
        /\ \A s, t \in paid : f[s] = f[t] => s = t
    BY InferredOnce DEF Numbers
  <2>2. IsFiniteSet(paid)
    BY InferredAre, CopiesAre
  <2> HIDE DEF paid, f
  <2>3. QED
    BY <2>1, <2>2, ImageOfEach
<1>2. \A s \in paid : ~ \E r \in Debts : r.no = s.no
  BY InferredOwesNothing
<1>3. \A r \in ar \ Debts :
         LET copies == {s \in snaps : s.no = r.no}
             last == Max({s.on : s \in copies})
         IN  copies # {} /\ last < Max(snapshot_dates) /\ last >= Max(snapshot_dates) - window_days
                => r.no \in Numbers(paid)
  BY PaidIsInferred
<1>4. QED
  BY <1>1, <1>2, <1>3, AverageIsPositive, CopyBucketsMakeTheCopy DEF PaymentsAreInferred

-----------------------------------------------------------------------------
(* Cards.                                                                  *)

\* What is owed on some rows of the copies, by customer.
LEMMA CopiesByCustomer ==
    ASSUME LedgerInv, NEW rows \in SUBSET snaps, NEW K, Parties(rows) \subseteq K, IsFiniteSet(K),
           NEW g, \A c \in K : g[c] = Owed(Of(rows, c))
    PROVE  Over(g, K) = Owed(rows) /\ \A c \in K : g[c] \in Int
<1> DEFINE part == [c \in K |-> Of(rows, c)]
<1>1. Parted(part, K, rows)
  BY DEF Parted, Parties, Of
<1>2. \A c \in K : g[c] = Column(part[c], "owed") /\ g[c] \in Int
  <2> TAKE c \in K
  <2> DEFINE A == Of(rows, c)
  <2>1. A \in SUBSET snaps /\ part[c] = A /\ g[c] = Owed(A)
    BY DEF Of
  <2> HIDE DEF A, part
  <2>2. QED
    BY <2>1, CopiesAre
<1>3. IsFiniteSet(rows) /\ Owed(rows) = Column(rows, "owed") /\ \A r \in rows : r["owed"] \in Int
  BY CopiesAre
<1> HIDE DEF part
<1>4. Over(g, K) = Column(rows, "owed")
  BY <1>1, <1>2, <1>3, ColumnParts
<1>5. QED
  BY <1>2, <1>3, <1>4

\* The movements of the customers make up the drift, and money that slid has a mover.
LEMMA MoversMakeTheDrift ==
    ASSUME LedgerInv
    PROVE  Total(aging_drift.moved) = aging_drift.drift /\ (aging_drift.drift > 0 => aging_drift.movers # {})
<1> DEFINE now == IF snaps = {} THEN None ELSE Max(snapshot_dates)
           then == IF snaps = {} THEN None ELSE nearest_snapshot(now - BUCKET)
           A == Bad(now)
           B == Bad(then)
           K == Parties_of_either(A, B)
           moved == [c \in K |-> Owed(Of(A, c)) - Owed(Of(B, c))]
           first == Top(MAX_MOVERS, DOMAIN moved, LAMBDA d : moved[d])
           a == [c \in K |-> Owed(Of(A, c))]
           b == [c \in K |-> Owed(Of(B, c))]
<1>1. CASE then = None
  <2>1. aging_drift.moved = <<>> /\ aging_drift.drift = 0
    BY <1>1 DEF aging_drift
  <2>2. DOMAIN <<>> = {}
    OBVIOUS
  <2>3. Total(<<>>) = Over(<<>>, DOMAIN <<>>)
    BY TotalIs
  <2>4. Over(<<>>, {}) = 0
    BY OverNone
  <2>5. Total(aging_drift.moved) = aging_drift.drift
    BY <2>1, <2>2, <2>3, <2>4, Zenon
  <2>6. QED
    BY <2>1, <2>5
<1>2. CASE then # None
  <2>1. /\ aging_drift.moved = moved /\ aging_drift.drift = Owed(A) - Owed(B)
        /\ aging_drift.movers = {c \in first : moved[c] > 0}
    BY <1>2 DEF aging_drift
  <2>2. A \in SUBSET snaps /\ B \in SUBSET snaps
    BY DEF Bad, On
  <2>3. Parties(A) \subseteq K /\ Parties(B) \subseteq K
    BY DEF Parties_of_either
  <2>4. IsFiniteSet(K)
    <3> HIDE DEF A, B
    <3>1. IsFiniteSet(Parties(A)) /\ IsFiniteSet(Parties(B))
      BY <2>2, CopiesAre, PartiesFinite
    <3>2. QED
      BY <3>1, FS_Union DEF Parties_of_either
  <2>5. /\ DOMAIN moved = K /\ \A c \in K : a[c] = Owed(Of(A, c)) /\ b[c] = Owed(Of(B, c))
        /\ \A c \in K : moved[c] = a[c] - b[c]
    OBVIOUS
  <2>6. Owed(A) \in Int /\ Owed(B) \in Int
    BY <2>2, CopiesAre
  <2> HIDE DEF A, B, K, moved, a, b
  <2>7. first = Top(MAX_MOVERS, K, LAMBDA d : moved[d])
    BY <2>5
  <2> HIDE DEF first
  <2>8. Over(a, K) = Owed(A) /\ \A c \in K : a[c] \in Int
    BY <2>2, <2>3, <2>4, <2>5, CopiesByCustomer
  <2>9. Over(b, K) = Owed(B) /\ \A c \in K : b[c] \in Int
    BY <2>2, <2>3, <2>4, <2>5, CopiesByCustomer
  <2>10. \A c \in K : a[c] \in Int /\ b[c] \in Int /\ moved[c] = 1 * a[c] + (-1) * b[c]
    BY <2>5, <2>8, <2>9
  <2>11. Over(moved, K) = 1 * Over(a, K) + (-1) * Over(b, K)
    BY <2>4, <2>10, OverLinear
  <2>12. Total(moved) = Over(moved, K)
    BY <2>5, TotalIs
  <2>13. Total(moved) = Owed(A) - Owed(B)
    BY <2>6, <2>8, <2>9, <2>11, <2>12
  <2>14. ASSUME Total(moved) > 0 PROVE \E c \in first : moved[c] > 0
    <3>1. \A c \in K : moved[c] \in Int
      BY <2>10
    <3>2. PICK c \in K : moved[c] > 0
      <4> SUFFICES ASSUME \A c \in K : moved[c] <= 0 PROVE FALSE
        BY <3>1
      <4>1. Over(moved, K) <= 0
        BY <2>4, <3>1, OverSign
      <4>2. QED
        BY <2>6, <2>12, <2>13, <2>14, <4>1
    <3>3. \E T \in SUBSET K :
             /\ Cardinality(T) = (IF Cardinality(K) < MAX_MOVERS THEN Cardinality(K) ELSE MAX_MOVERS)
             /\ \A x \in T, y \in K \ T : moved[x] >= moved[y]
      BY <2>4, <3>1, TopExists, PulseAssumption
    <3>4. /\ first \in SUBSET K
          /\ Cardinality(first) = (IF Cardinality(K) < MAX_MOVERS THEN Cardinality(K) ELSE MAX_MOVERS)
          /\ \A x \in first, y \in K \ first : moved[x] >= moved[y]
      BY <2>7, <3>3 DEF Top
    <3>5. first # {}
      BY <2>4, <3>2, <3>4, CutIs, PulseAssumption
    <3>6. QED
      BY <3>1, <3>2, <3>4, <3>5
  <2>15. QED
    BY <2>1, <2>13, <2>14
<1>3. QED
  BY <1>1, <1>2

\* What is due soon, what is late, and what is due later.
LEMMA CashIsTheBook ==
    ASSUME LedgerInv
    PROVE  LET cash == cash_30d(BUCKET) IN
           /\ cash.due + cash.overdue + Owed({r \in Debts : r.due > day + BUCKET}) = Owed(Debts)
           /\ cash.overdue = overdue_total /\ overdue_total = collections_priority.total
           /\ cash.out <= working_capital.commitments
<1> DEFINE soon == {r \in Debts : Coming(r, BUCKET)}
           late == {r \in Debts : r.due < day}
           later == {r \in Debts : r.due > day + BUCKET}
           out == {r \in pos : r.pending > 0 /\ r.due <= day + BUCKET}
           open == {r \in pos : r.pending > 0}
           cash == cash_30d(BUCKET)
<1>1. /\ cash.due = Owed(soon) /\ cash.overdue = Owed(late) /\ cash.out = Value(out)
      /\ overdue_total = Owed(late) /\ working_capital.commitments = Value(open)
  BY DEF cash_30d, overdue_total, working_capital
<1>2. Debts \in SUBSET ar /\ soon \in SUBSET ar /\ late \in SUBSET ar /\ later \in SUBSET ar
  BY DEF Debts
<1>3. day \in Nat /\ BUCKET \in Nat /\ \A r \in Debts : r.due \in Nat
  BY <1>2, Balances, FiguresAssumption
<1>4. /\ soon \cap late = {} /\ (soon \cup late) \cap later = {} /\ (soon \cup late) \cup later = Debts
  BY <1>3 DEF Coming
<1>5. Value(out) <= Value(open)
  <2>1. OrdersKept(open) /\ out \in SUBSET open
    BY FS_Subset DEF LedgerInv, OrdersKept
  <2> HIDE DEF out, open
  <2>2. QED
    BY <2>1, ValueOfSome
<1>6. collections_priority.total = Owed(late)
  <2>1. {r \in Debts : Overdue(r)} = late
    BY <1>3 DEF Overdue
  <2>2. QED
    BY <2>1 DEF collections_priority, LateDebts
<1> HIDE DEF soon, late, later
<1>7. Owed(soon \cup late) = Owed(soon) + Owed(late)
  BY <1>2, <1>4, OwedOfTwo
<1>8. Owed((soon \cup late) \cup later) = Owed(soon \cup late) + Owed(later)
  BY <1>2, <1>4, OwedOfTwo
<1>9. Owed((soon \cup late) \cup later) = Owed(Debts)
  BY <1>4, Zenon
<1>10. Owed(soon) + Owed(late) + Owed(later) = Owed(Debts)
  BY <1>7, <1>8, <1>9
<1>11. QED
  BY <1>1, <1>5, <1>6, <1>10 DEF later

\* Who owes has a score.
LEMMA ScoresAre ==
    ASSUME LedgerInv, NEW c \in Parties(Debts)
    PROVE  position(c).score \in Int
<1> DEFINE owed == Of(Debts, c)
           late == Owed({r \in owed : Overdue(r)})
           oldest == Max({DaysLate(r) : r \in owed})
           cap(d) == Min({d, 4 * BUCKET})
           weigh == [r \in owed |-> r.owed * DaysLate(r)]
           weighted == Over(weigh, owed) \div Owed(owed)
<1>1. /\ owed \in SUBSET ar /\ owed # {} /\ IsFiniteSet(owed)
      /\ \A r \in owed : r.owed \in Int /\ r.owed > 0
  <2>1. owed \in SUBSET ar /\ owed # {} /\ \A r \in owed : r.owed > 0
    BY DEF Of, Debts, Parties
  <2>2. QED
    BY <2>1, Balances
<1>2. Owed(owed) \in Nat \ {0} /\ late \in Int /\ BUCKET \in Nat \ {0}
  <2>1. {r \in owed : Overdue(r)} \in SUBSET ar
    BY <1>1
  <2>2. QED
    BY <1>1, <2>1, Balances, OwedSign, FiguresAssumption
<1>3. \A r \in owed : DaysLate(r) \in Int
  BY <1>1, Balances, OfTwo DEF DaysLate
<1>4. position(c).score = (40 * late) \div Owed(owed)
                             + (30 * cap(oldest) + 30 * cap(weighted)) \div (4 * BUCKET)
  BY DEF position, Sum, SumFunction, Over
<1>5. oldest \in Int
  <2> DEFINE D == {DaysLate(r) : r \in owed}
             f == [r \in owed |-> DaysLate(r)]
  <2>1. D \subseteq Int /\ D # {} /\ \A d \in D : \E r \in owed : d = f[r]
    BY <1>1, <1>3
  <2> HIDE DEF D, f
  <2>2. IsFiniteSet(D)
    BY <1>1, <2>1, ImageFinite
  <2>3. Max(D) \in Int
    BY <2>1, <2>2, MaxIs
  <2>4. QED
    BY <2>3 DEF D
<1>6. weighted \in Int
  <2>1. \A r \in owed : weigh[r] \in Int
    BY <1>1, <1>3
  <2> HIDE DEF weigh, owed
  <2>2. Over(weigh, owed) \in Int
    BY <1>1, <2>1, OverInt
  <2>3. QED
    BY <1>2, <2>2, Division
<1> HIDE DEF late, oldest, weighted, owed
<1>7. \A d \in Int : cap(d) \in Int
  BY <1>2, OfTwo
<1>8. cap(oldest) \in Int /\ cap(weighted) \in Int
  BY <1>5, <1>6, <1>7
<1> HIDE DEF cap
<1>9. (40 * late) \div Owed(owed) \in Int /\ (30 * cap(oldest) + 30 * cap(weighted)) \div (4 * BUCKET) \in Int
  BY <1>2, <1>8, Division
<1>10. QED
  BY <1>4, <1>9

\* What the listed customers' positions call late is late, and all of it if the list is not cut.
LEMMA PositionsMakeTheBook ==
    ASSUME LedgerInv
    PROVE  LET items == payment_behaviour.items
               listed == Sum(DOMAIN items, LAMBDA c : items[c].late)
           IN  /\ listed <= overdue_total
               /\ Cardinality(Parties(Debts)) <= top_n => listed = overdue_total
<1> DEFINE items == payment_behaviour.items
           K == Parties(Debts)
           T == Top(top_n, K, LAMBDA d : position(d).score)
           late == {r \in Debts : Overdue(r)}
           f == [c \in K |-> position(c).score]
           g == [c \in K |-> position(c).late]
           h == [c \in T |-> items[c].late]
           listed == Sum(DOMAIN items, LAMBDA c : items[c].late)
<1>1. Debts \in SUBSET ar /\ IsFiniteSet(K)
  <2>1. Debts \in SUBSET ar
    BY DEF Debts
  <2>2. QED
    BY <2>1, Balances, PartiesFinite
<1>2. T \in SUBSET K /\ IsFiniteSet(T) /\ (Cardinality(K) <= top_n => T = K)
  <2>1. \A c \in K : f[c] \in Int /\ f[c] = position(c).score
    BY ScoresAre
  <2> HIDE DEF K, f
  <2>2. \E U \in SUBSET K :
           /\ Cardinality(U) = (IF Cardinality(K) < top_n THEN Cardinality(K) ELSE top_n)
           /\ \A x \in U, y \in K \ U : position(x).score >= position(y).score
    <3>1. \E U \in SUBSET K :
             /\ Cardinality(U) = (IF Cardinality(K) < top_n THEN Cardinality(K) ELSE top_n)
             /\ \A x \in U, y \in K \ U : f[x] >= f[y]
      BY <1>1, <2>1, TopExists, PulseAssumption
    <3>2. QED
      BY <2>1, <3>1
  <2>3. T \in SUBSET K /\ Cardinality(T) = (IF Cardinality(K) < top_n THEN Cardinality(K) ELSE top_n)
    BY <2>2 DEF Top
  <2> HIDE DEF T
  <2>4. QED
    BY <1>1, <2>3, CutIs, PulseAssumption
<1>3. DOMAIN items = T /\ (\A c \in T : items[c] = position(c)) /\ listed = Over(h, T)
  <2>1. items = [c \in T |-> position(c)]
    BY DEF payment_behaviour
  <2> HIDE DEF items, T
  <2>2. DOMAIN items = T /\ \A c \in T : items[c] = position(c)
    BY <2>1
  <2>3. QED
    BY <2>2 DEF Sum, SumFunction, Over
<1>4. /\ DOMAIN g = K
      /\ \A c \in K : g[c] = Owed({r \in late : r.party = c}) /\ g[c] \in Int /\ g[c] >= 0
  <2> SUFFICES ASSUME NEW c \in K
               PROVE  g[c] = Owed({r \in late : r.party = c}) /\ g[c] \in Int /\ g[c] >= 0
    OBVIOUS
  <2> DEFINE A == {r \in late : r.party = c}
  <2>1. {r \in Of(Debts, c) : Overdue(r)} = A /\ A \in SUBSET ar /\ \A r \in A : r.owed > 0
    BY DEF Of, Debts
  <2>2. g[c] = Owed({r \in Of(Debts, c) : Overdue(r)})
    BY DEF position
  <2> HIDE DEF g, A
  <2>3. Owed(A) \in Int /\ Owed(A) >= 0
    BY <2>1, Balances, OwedSign
  <2>4. QED
    BY <2>1, <2>2, <2>3 DEF A
<1>5. late \in SUBSET ar /\ Parties(late) \subseteq K
  BY <1>1 DEF Parties
<1>6. collections_priority.total = Owed(late) /\ overdue_total = collections_priority.total
  BY CashIsTheBook DEF collections_priority, LateDebts
<1>7. \A c \in T : h[c] = g[c]
  BY <1>2, <1>3
<1> HIDE DEF g, h, items, late, K, T
<1>8. Over(g, K) = overdue_total
  BY <1>1, <1>4, <1>5, <1>6, OwedByCustomer, TotalIs
<1>9. Over(h, T) = Over(g, T)
  BY <1>2, <1>4, <1>7, OverSame
<1>10. Over(g, T) <= Over(g, K)
  <2> DEFINE R == K \ T
  <2>1. T \cup R = K /\ T \cap R = {} /\ R \in SUBSET K /\ \A c \in R : g[c] \in Int /\ g[c] >= 0
    BY <1>2, <1>4
  <2> HIDE DEF R
  <2>2. IsFiniteSet(R)
    BY <1>1, <2>1, FS_Subset
  <2>3. Over(g, K) = Over(g, T) + Over(g, R)
    <3>1. IsFiniteSet(K) /\ T \in SUBSET K /\ R \in SUBSET K /\ T \cap R = {} /\ \A c \in K : g[c] \in Int
      BY <1>1, <1>2, <1>4, <2>1
    <3>2. Over(g, T \cup R) = Over(g, T) + Over(g, R)
      BY <3>1, OverUnion
    <3>3. QED
      BY <2>1, <3>2, Zenon
  <2>4. Over(g, T) \in Int /\ Over(g, R) \in Int /\ Over(g, R) >= 0
    BY <1>2, <1>4, <2>1, <2>2, OverInt, OverSign
  <2>5. QED
    BY <2>3, <2>4
<1>11. listed <= overdue_total /\ (Cardinality(K) <= top_n => listed = overdue_total)
  BY <1>2, <1>3, <1>8, <1>9, <1>10
<1>12. QED
  BY <1>11 DEF K, items

\* The changes of the customers, and those of the items, make up that of the week.
LEMMA ChangesMakeTheWeek ==
    ASSUME NEW all, NEW d \in Nat, LinesKept(all, d), NEW A \in SUBSET all, NEW B \in SUBSET all,
           NEW w \in Nat, NEW K, IsFiniteSet(K), NEW pa, NEW pb, Parted(pa, K, A), Parted(pb, K, B),
           NEW f, DOMAIN f = K, \A k \in K : f[k] = w * Goods(pa[k]) - Goods(pb[k])
    PROVE  Total(f) = w * Goods(A) - Goods(B)
<1> DEFINE a == [k \in K |-> Goods(pa[k])]
           b == [k \in K |-> Goods(pb[k])]
<1>1. Total(a) = Goods(A) /\ Total(b) = Goods(B)
  <2>1. DOMAIN a = K /\ DOMAIN b = K /\ \A k \in K : a[k] = Goods(pa[k]) /\ b[k] = Goods(pb[k])
    OBVIOUS
  <2> HIDE DEF a, b
  <2>2. QED
    BY <2>1, GoodsOfParts
<1>2. \A k \in K : a[k] \in Int /\ b[k] \in Int /\ f[k] = w * a[k] + (-1) * b[k]
  <2> TAKE k \in K
  <2>1. pa[k] \in SUBSET all /\ pb[k] \in SUBSET all
    BY DEF Parted
  <2>2. Goods(pa[k]) \in Nat /\ Goods(pb[k]) \in Nat
    BY <2>1, LinesAre
  <2>3. QED
    BY <2>2
<1>3. Total(a) = Over(a, K) /\ Total(b) = Over(b, K) /\ Total(f) = Over(f, K)
  BY TotalIs
<1> HIDE DEF a, b
<1>4. Over(f, K) = w * Over(a, K) + (-1) * Over(b, K)
  BY <1>2, OverLinear
<1>5. Goods(A) \in Nat /\ Goods(B) \in Nat
  BY LinesAre
<1>6. QED
  BY <1>1, <1>3, <1>4, <1>5

\* The changes of customers and of items add up to the change of the week.
LEMMA WeekIsMade ==
    ASSUME LedgerInv
    PROVE  Total(week_delta.of) = week_delta.delta /\ Total(week_delta.skus) = week_delta.delta
<1> DEFINE A == {r \in sales : r.day > Anchor - WEEK}
           B == {r \in sales : r.day <= Anchor - WEEK /\ r.day > Anchor - WEEK * (1 + weeks_baseline)}
           K == Parties_of_either(A, B)
           L == {r.sku : r \in A \cup B}
           f == [c \in K |-> weeks_baseline * Goods(Of(A, c)) - Goods(Of(B, c))]
           g == [k \in L |-> weeks_baseline * Goods({r \in A : r.sku = k}) - Goods({r \in B : r.sku = k})]
           fa == [c \in K |-> Of(A, c)]
           fb == [c \in K |-> Of(B, c)]
           ga == [k \in L |-> {r \in A : r.sku = k}]
           gb == [k \in L |-> {r \in B : r.sku = k}]
<1>1. /\ week_delta.delta = weeks_baseline * Goods(A) - Goods(B)
      /\ week_delta.of = f /\ week_delta.skus = g
  BY DEF week_delta
<1>2. day \in Nat /\ LinesKept(sales, day) /\ A \in SUBSET sales /\ B \in SUBSET sales /\ weeks_baseline \in Nat
  BY PulseAssumption DEF LedgerInv
<1>3. Parted(fa, K, A) /\ Parted(fb, K, B)
  BY DEF Parted, Of, Parties, Parties_of_either
<1>4. Parted(ga, L, A) /\ Parted(gb, L, B)
  BY DEF Parted
<1>5. IsFiniteSet(K)
  <2> HIDE DEF A, B
  <2>1. IsFiniteSet(Parties(A)) /\ IsFiniteSet(Parties(B))
    BY <1>2, LinesAre, PartiesFinite
  <2>2. QED
    BY <2>1, FS_Union DEF Parties_of_either
<1>6. IsFiniteSet(L)
  <2>1. L \subseteq Skus
    BY <1>2, LinesAre
  <2>2. QED
    BY <2>1, LedgersAssumption, FS_Subset
<1>7. DOMAIN f = K /\ \A c \in K : f[c] = weeks_baseline * Goods(fa[c]) - Goods(fb[c])
  OBVIOUS
<1>11. DOMAIN g = L /\ \A k \in L : g[k] = weeks_baseline * Goods(ga[k]) - Goods(gb[k])
  OBVIOUS
<1> HIDE DEF A, B, K, L, f, g, fa, fb, ga, gb
<1>8. Total(f) = weeks_baseline * Goods(A) - Goods(B)
  BY <1>2, <1>3, <1>5, <1>7, ChangesMakeTheWeek
<1>9. Total(g) = weeks_baseline * Goods(A) - Goods(B)
  BY <1>2, <1>4, <1>6, <1>11, ChangesMakeTheWeek, SMTT(30)
<1>10. QED
  BY <1>1, <1>8, <1>9

\* The dead stock of the card is that of the list.
LEMMA DeadStockIsOne ==
    ASSUME LedgerInv
    PROVE  /\ dead_stock_delta.value = dead_stock.value
           /\ working_capital.inventory = inventory_summary.value
           /\ (NegativeStock # {}) = (inventory_summary.negative > 0)
<1> DEFINE K == {k \in Held : ~ \E r \in sales : r.sku = k /\ r.day >= Anchor - TRAIL /\ r.day <= Anchor}
<1>1. day \in Nat /\ LinesKept(sales, day)
  BY DEF LedgerInv
<1>2. \A r \in sales : r.day <= Anchor
  <2> TAKE r \in sales
  <2>1. sales # {} /\ Anchor = date_range(sales).to
    BY DEF Anchor
  <2>2. QED
    BY <1>1, <2>1, RangeIs
<1>3. Cutoff = Anchor - TRAIL
  BY DEF Cutoff, Anchor
<1>4. K = Dead
  BY <1>2, <1>3 DEF Dead, SoldSince
<1>5. dead_stock_delta.value = dead_stock.value
  <2>1. dead_stock_delta.value = dead_value(Anchor)
    BY DEF dead_stock_delta
  <2>2. dead_value(Anchor) = Sum(K, LAMBDA k : stock[k])
    BY DEF dead_value
  <2> HIDE DEF K
  <2>3. Sum(K, LAMBDA k : stock[k]) = Sum(Dead, LAMBDA k : stock[k])
    BY <1>4, Zenon
  <2>4. dead_stock.value = Sum(Dead, LAMBDA k : stock[k])
    BY DEF dead_stock
  <2>5. QED
    BY <2>1, <2>2, <2>3, <2>4
<1>6. working_capital.inventory = inventory_summary.value
  BY DEF working_capital, inventory_summary
<1>7. (NegativeStock # {}) = (inventory_summary.negative > 0)
  <2>1. inventory_summary.negative = Cardinality(NegativeStock)
    BY DEF inventory_summary, NegativeStock
  <2>2. IsFiniteSet(NegativeStock)
    BY LedgersAssumption, FS_Subset DEF NegativeStock
  <2>3. Cardinality(NegativeStock) \in Nat /\ (Cardinality(NegativeStock) = 0 <=> NegativeStock = {})
    BY <2>2, FS_CardinalityType, FS_EmptySet
  <2>4. QED
    BY <2>1, <2>3
<1>8. QED
  BY <1>5, <1>6, <1>7

\* Who is due has been overtaken by another.
LEMMA RegularsAreOvertaken ==
    ASSUME LedgerInv, NEW c \in reorder_status
    PROVE  \E r \in sales : r.party # c /\ r.day > Max(OrderDays(c))
<1>1. c \in Parties(sales) /\ Max(OrderDays(c)) < Anchor
  BY RegularsAre
<1>2. PICK r \in sales : r.day = Anchor
  BY <1>1, DaysOfBuying
<1>3. IsFiniteSet(OrderDays(c)) /\ OrderDays(c) \subseteq Int /\ OrderDays(c) # {} /\ Max(OrderDays(c)) \in Int
      /\ Anchor \in Int
  BY <1>1, DaysOfBuying
<1>4. \A d \in OrderDays(c) : Max(OrderDays(c)) >= d
  <2> DEFINE D == OrderDays(c)
  <2> HIDE DEF D
  <2>1. IsFiniteSet(D) /\ D \subseteq Int /\ D # {}
    BY <1>3 DEF D
  <2>2. \A d \in D : Max(D) >= d
    BY <2>1, MaxIs
  <2>3. QED
    BY <2>2 DEF D
<1>5. r.party = c => r.day \in OrderDays(c)
  BY DEF OrderDays, Of
<1>6. QED
  BY <1>1, <1>2, <1>3, <1>4, <1>5

\* The two windows of the concentration are one of twice the length.
LEMMA ConcentrationWindowsMeet ==
    ASSUME LedgerInv
    PROVE  concentration_trend.now.total + concentration_trend.prev.total
              = window_goods([start |-> Anchor - 2 * TRAIL, end |-> Anchor])
<1> DEFINE a == Anchor - 2 * TRAIL
           b == Anchor - TRAIL - 1
           c == Anchor
           now == [start |-> b + 1, end |-> c]
           prev == [start |-> a, end |-> b]
<1>1. day \in Nat /\ LinesKept(sales, day)
  BY DEF LedgerInv
<1>2. Anchor \in Int
  BY <1>1, RangeIs DEF Anchor
<1>3. a \in Int /\ b \in Int /\ c \in Int /\ a <= b + 1 /\ b <= c /\ b + 1 = Anchor - TRAIL
  BY <1>2, FiguresAssumption
<1>4. /\ concentration_trend.now = shares([start |-> Anchor - TRAIL, end |-> Anchor])
      /\ concentration_trend.prev = shares(prev)
  BY DEF concentration_trend
<1>5. concentration_trend.now = shares(now)
  <2>1. [start |-> Anchor - TRAIL, end |-> Anchor] = now
    BY <1>3
  <2> HIDE DEF now
  <2>2. QED
    BY <1>4, <2>1
<1>6. /\ concentration_trend.now.total = Goods(Within(sales, now))
      /\ concentration_trend.prev.total = Goods(Within(sales, prev))
  <2> HIDE DEF now, prev
  <2> QED BY <1>4, <1>5, TopShareIs
<1>7. window_goods([start |-> a, end |-> c]) = Goods(Within(sales, [start |-> a, end |-> c]))
  BY DEF window_goods
<1> HIDE DEF a, b, c
<1>8. Goods(Within(sales, [start |-> a, end |-> c])) = Goods(Within(sales, prev)) + Goods(Within(sales, now))
  BY <1>1, <1>3, WindowsMeet
<1>9. Goods(Within(sales, prev)) \in Nat /\ Goods(Within(sales, now)) \in Nat
  <2>1. Within(sales, prev) \in SUBSET sales /\ Within(sales, now) \in SUBSET sales
    BY DEF Within
  <2> HIDE DEF now, prev
  <2>2. QED
    BY <1>1, <2>1, LinesAre
<1> HIDE DEF now, prev
<1>10. QED
  BY <1>6, <1>7, <1>8, <1>9 DEF a, c

\* The cards say what the screens say.
LEMMA CardsAreMade ==
    ASSUME LedgerInv
    PROVE  CardsAddUp
<1>1. bucket_60plus = ar_ageing_over(2 * BUCKET)
  BY DEF bucket_60plus, ar_ageing_over
<1>2. QED
  BY <1>1, MoversMakeTheDrift, CashIsTheBook, PositionsMakeTheBook, WeekIsMade, DeadStockIsOne,
     RegularsAreOvertaken, ConcentrationWindowsMeet DEF CardsAddUp

\* The cards of the Today page, and the payments inferred from the daily copies,
\* agree with the screens, whatever the books look like and whatever days were
\* not copied (pulse.py computes them again).
THEOREM CardsAlwaysAgree == LedgersSpec => []CardsAgreeWithTheScreens
<1>1. LedgerInv => CardsAgreeWithTheScreens
  BY CardsAreMade, PaymentsAre DEF CardsAgreeWithTheScreens
<1>2. QED
  BY BooksKeepTheirShape, <1>1, PTL
=============================================================================
