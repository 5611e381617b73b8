------------------------------ MODULE SumFacts ------------------------------
(***************************************************************************)
(* What SumFunctionOnSet of the community module Functions computes.  It   *)
(* is a fold over a finite set, in an order that CHOOSE fixes: that the    *)
(* fold is defined at all, and that the order does not matter, is proved   *)
(* here from the least element principle of the natural numbers.           *)
(***************************************************************************)
EXTENDS Functions, FiniteSets, Integers, FiniteSetTheorems, WellFoundedInduction, TLAPS

LOCAL NatLess == {ss \in Nat \X Nat : ss[1] < ss[2]}

\* Every non-empty set of naturals has a least element.
LEMMA LeastOfNaturals ==
    ASSUME NEW T, T \subseteq Nat, T # {}
    PROVE  \E x \in T : \A y \in T : x <= y
<1>1. NatLess = OpToRel(<, Nat)
    BY Zenon DEF OpToRel, NatLess
<1>2. IsWellFoundedOn(NatLess, Nat)
    BY <1>1, NatLessThanWellFounded
<1>3. PICK x \in T : \A y \in T : ~ (<<y, x>> \in NatLess)
    BY <1>2, WFMin
<1>4. ASSUME NEW y \in T PROVE x <= y
    <2>1. x \in Nat /\ y \in Nat /\ ~ (<<y, x>> \in NatLess)
        BY <1>3
    <2> QED BY <2>1 DEF NatLess
<1> QED BY <1>4

\* Induction over the naturals, for a set of numbers.
LEMMA NaturalsFromZero ==
    ASSUME NEW G, 0 \in G, \A n \in Nat : n \in G => n + 1 \in G
    PROVE  Nat \subseteq G
<1> SUFFICES ASSUME Nat \ G # {} PROVE FALSE
    OBVIOUS
<1>1. PICK n \in Nat \ G : \A m \in Nat \ G : n <= m
    BY LeastOfNaturals
<1>2. n # 0 /\ n - 1 \in Nat
    BY <1>1
<1>3. n - 1 \in G
    BY <1>1, <1>2
<1> QED BY <1>1, <1>2, <1>3

\* Induction over the subsets of a finite set, for a set of subsets.
LEMMA SubsetsFromEmpty ==
    ASSUME NEW S, IsFiniteSet(S), NEW G, {} \in G,
           \A T \in SUBSET S : (\A x \in T : T \ {x} \in G) => T \in G
    PROVE  SUBSET S \subseteq G
<1> DEFINE bad == (SUBSET S) \ G
           sizes == {Cardinality(T) : T \in bad}
<1> SUFFICES ASSUME bad # {} PROVE FALSE
    OBVIOUS
<1>1. \A T \in SUBSET S : IsFiniteSet(T) /\ Cardinality(T) \in Nat
    BY FS_Subset, FS_CardinalityType
<1>2. PICK least \in sizes : \A n \in sizes : least <= n
    <2>1. sizes \subseteq Nat /\ sizes # {}
        BY <1>1
    <2> QED BY <2>1, LeastOfNaturals
<1>3. PICK T \in bad : Cardinality(T) = least
    OBVIOUS
<1>4. ASSUME NEW x \in T PROVE T \ {x} \in G
    <2>1. Cardinality(T \ {x}) = Cardinality(T) - 1
        BY <1>1, FS_RemoveElement
    <2>2. T \ {x} \notin bad
        <3> SUFFICES ASSUME T \ {x} \in bad PROVE FALSE
            OBVIOUS
        <3>1. Cardinality(T \ {x}) \in sizes
            OBVIOUS
        <3>2. least <= Cardinality(T \ {x})
            BY <1>2, <3>1
        <3>3. Cardinality(T) \in Nat
            BY <1>1
        <3> HIDE DEF bad, sizes
        <3> QED BY <1>3, <2>1, <3>2, <3>3
    <2> QED BY <2>2
<1> QED BY <1>4

-----------------------------------------------------------------------------
(* The fold is defined *)

LOCAL Next1(s) == CHOOSE x \in s : TRUE
\* One step of the fold from what g says of the smaller sets.
LOCAL Folded(f, g, s) == IF s = {} THEN 0 ELSE f[Next1(s)] + g[s \ {Next1(s)}]
LOCAL FoldsOver(f, g, S) == g = [s \in SUBSET S |-> Folded(f, g, s)]

LEMMA FoldExists ==
    ASSUME NEW f, NEW S, IsFiniteSet(S)
    PROVE  \E g : FoldsOver(f, g, S)
<1> DEFINE Small(n) == {s \in SUBSET S : Cardinality(s) <= n}
           G == {n \in Nat : \E g : g = [s \in Small(n) |-> Folded(f, g, s)]}
<1>1. \A s \in SUBSET S : IsFiniteSet(s) /\ Cardinality(s) \in Nat
    BY FS_Subset, FS_CardinalityType
<1>2. \A s \in SUBSET S : s # {} => /\ Next1(s) \in s /\ s \ {Next1(s)} \in SUBSET S
                                   /\ Cardinality(s \ {Next1(s)}) = Cardinality(s) - 1
    <2> SUFFICES ASSUME NEW s \in SUBSET S, s # {}
                 PROVE  /\ Next1(s) \in s /\ s \ {Next1(s)} \in SUBSET S
                        /\ Cardinality(s \ {Next1(s)}) = Cardinality(s) - 1
        OBVIOUS
    <2>1. Next1(s) \in s
        BY DEF Next1
    <2> QED BY <1>1, <2>1, FS_RemoveElement
<1>3. 0 \in G
    <2> DEFINE g == [s \in Small(0) |-> 0]
    <2>1. \A s \in Small(0) : s = {}
        BY <1>1, FS_EmptySet
    <2>2. \A s \in Small(0) : Folded(f, g, s) = 0
        BY <2>1 DEF Folded
    <2>3. g = [s \in Small(0) |-> Folded(f, g, s)]
        BY <2>2
    <2> QED BY <2>3
<1>4. ASSUME NEW n \in Nat, n \in G PROVE n + 1 \in G
    <2>1. PICK g : g = [s \in Small(n) |-> Folded(f, g, s)]
        BY <1>4
    <2> DEFINE h == [s \in Small(n + 1) |-> Folded(f, g, s)]
    <2>2. ASSUME NEW s \in Small(n + 1) PROVE Folded(f, h, s) = Folded(f, g, s)
        <3>1. CASE s = {}
            BY <3>1 DEF Folded
        <3>2. CASE s # {}
            <4> DEFINE t == s \ {Next1(s)}
            <4>1. t \in Small(n) /\ t \in Small(n + 1)
                BY <1>1, <1>2, <3>2
            <4>2. h[t] = g[t]
                BY <2>1, <4>1
            <4> QED BY <3>2, <4>2 DEF Folded
        <3> QED BY <3>1, <3>2
    <2>3. h = [s \in Small(n + 1) |-> Folded(f, h, s)]
        BY <2>2
    <2>4. n + 1 \in Nat
        OBVIOUS
    <2> HIDE DEF h, Small
    <2> QED BY <2>3, <2>4
<1>5. Cardinality(S) \in G
    <2> HIDE DEF G
    <2>1. Nat \subseteq G
        BY <1>3, <1>4, NaturalsFromZero
    <2> QED BY <1>1, <2>1
<1>6. Small(Cardinality(S)) = SUBSET S
    BY FS_Subset, <1>1
<1> QED BY <1>5, <1>6 DEF FoldsOver

LEMMA FoldIsUnique ==
    ASSUME NEW f, NEW S, IsFiniteSet(S), NEW T \in SUBSET S,
           NEW g, FoldsOver(f, g, S), NEW h, FoldsOver(f, h, T)
    PROVE  \A s \in SUBSET T : g[s] = h[s]
<1> DEFINE G == {s \in SUBSET T : g[s] = h[s]}
<1>0. \A s \in SUBSET T : g[s] = Folded(f, g, s) /\ h[s] = Folded(f, h, s)
    BY DEF FoldsOver
<1>1. IsFiniteSet(T)
    BY FS_Subset
<1>2. {} \in G
    BY <1>0 DEF Folded
<1>3. ASSUME NEW s \in SUBSET T, \A x \in s : s \ {x} \in G PROVE s \in G
    <2>1. CASE s = {}
        BY <1>2, <2>1
    <2>2. CASE s # {}
        <3>1. Next1(s) \in s
            BY <2>2 DEF Next1
        <3>2. g[s \ {Next1(s)}] = h[s \ {Next1(s)}]
            BY <1>3, <3>1
        <3> QED BY <1>0, <2>2, <3>2 DEF Folded
    <2> QED BY <2>1, <2>2
<1>4. SUBSET T \subseteq G
    <2> HIDE DEF G
    <2> QED BY <1>1, <1>2, <1>3, SubsetsFromEmpty
<1> QED BY <1>4

LEMMA SumIsFold ==
    ASSUME NEW f, NEW S, IsFiniteSet(S), NEW g, FoldsOver(f, g, S)
    PROVE  \A T \in SUBSET S : SumFunctionOnSet(f, T) = g[T]
<1> TAKE T \in SUBSET S
<1> DEFINE h == CHOOSE h : FoldsOver(f, h, T)
<1>1. SumFunctionOnSet(f, T) = h[T]
    BY DEF SumFunctionOnSet, FoldFunctionOnSet, MapThenFoldSet, FoldsOver, Folded, Next1
<1>2. FoldsOver(f, h, T)
    BY FoldExists, FS_Subset
<1> HIDE DEF h
<1> QED BY <1>1, <1>2, FoldIsUnique

-----------------------------------------------------------------------------
(* What the sum is *)

LEMMA SumOfNothing ==
    ASSUME NEW f
    PROVE  SumFunctionOnSet(f, {}) = 0
<1>1. IsFiniteSet({})
    BY FS_EmptySet
<1>2. PICK g : FoldsOver(f, g, {})
    BY <1>1, FoldExists
<1>3. g[{}] = 0
    BY <1>2 DEF FoldsOver, Folded
<1> QED BY <1>1, <1>2, <1>3, SumIsFold

\* The sum is the sum without any one element, and that element.
LEMMA SumSplits ==
    ASSUME NEW f, NEW S, IsFiniteSet(S), \A x \in S : f[x] \in Int
    PROVE  /\ \A T \in SUBSET S : SumFunctionOnSet(f, T) \in Int
           /\ \A T \in SUBSET S : \A x \in T :
                 SumFunctionOnSet(f, T) = f[x] + SumFunctionOnSet(f, T \ {x})
<1>1. PICK g : FoldsOver(f, g, S)
    BY FoldExists
<1>2. \A T \in SUBSET S : SumFunctionOnSet(f, T) = g[T]
    BY <1>1, SumIsFold
<1>3. \A T \in SUBSET S : g[T] = Folded(f, g, T)
    BY <1>1 DEF FoldsOver
<1>4. \A T \in SUBSET S : g[T] \in Int
    <2> DEFINE G == {T \in SUBSET S : g[T] \in Int}
    <2>1. {} \in G
        <3>1. g[{}] = 0
            BY <1>3 DEF Folded
        <3> QED BY <3>1
    <2>2. ASSUME NEW T \in SUBSET S, \A x \in T : T \ {x} \in G PROVE T \in G
        <3>1. CASE T = {}
            BY <2>1, <3>1
        <3>2. CASE T # {}
            <4>1. Next1(T) \in T
                BY <3>2 DEF Next1
            <4>2. g[T \ {Next1(T)}] \in Int /\ f[Next1(T)] \in Int
                BY <2>2, <4>1
            <4>3. g[T] = f[Next1(T)] + g[T \ {Next1(T)}]
                BY <1>3, <3>2 DEF Folded
            <4> QED BY <4>2, <4>3
        <3> QED BY <3>1, <3>2
    <2>3. SUBSET S \subseteq G
        <3> HIDE DEF G
        <3> QED BY <2>1, <2>2, SubsetsFromEmpty
    <2> QED BY <2>3
<1> DEFINE G == {T \in SUBSET S : \A x \in T : g[T] = f[x] + g[T \ {x}]}
<1>5. ASSUME NEW T \in SUBSET S, \A x \in T : T \ {x} \in G PROVE T \in G
    <2> SUFFICES ASSUME NEW x \in T PROVE g[T] = f[x] + g[T \ {x}]
        OBVIOUS
    <2> DEFINE p == Next1(T)
    <2>1. p \in T
        BY DEF Next1
    <2>2. g[T] = f[p] + g[T \ {p}]
        BY <1>3 DEF Folded
    <2> HIDE DEF p
    <2>3. CASE x = p
        BY <2>2, <2>3
    <2>4. CASE x # p
        <3>1. g[T \ {p}] = f[x] + g[(T \ {p}) \ {x}]
            BY <1>5, <2>1, <2>4
        <3>2. g[T \ {x}] = f[p] + g[(T \ {x}) \ {p}]
            BY <1>5, <2>1, <2>4
        <3>3. g[(T \ {x}) \ {p}] = g[(T \ {p}) \ {x}]
            <4>1. (T \ {p}) \ {x} = (T \ {x}) \ {p}
                OBVIOUS
            <4> QED BY <4>1
        <3>4. g[(T \ {p}) \ {x}] \in Int /\ f[x] \in Int /\ f[p] \in Int
            BY <1>4, <2>1
        <3> DEFINE rest == g[(T \ {p}) \ {x}]
        <3>5. /\ rest \in Int /\ g[T \ {p}] = f[x] + rest /\ g[T \ {x}] = f[p] + rest
            BY <3>1, <3>2, <3>3, <3>4
        <3> HIDE DEF G, rest
        <3> QED BY <2>2, <3>4, <3>5
    <2> QED BY <2>3, <2>4
<1>6. SUBSET S \subseteq G
    <2>1. {} \in G
        OBVIOUS
    <2> HIDE DEF G
    <2> QED BY <1>5, <2>1, SubsetsFromEmpty
<1> QED BY <1>2, <1>4, <1>6

-----------------------------------------------------------------------------
(* What follows: comparing sums *)

\* Less in every place is less in all.
LEMMA SumIsMonotone ==
    ASSUME NEW f, NEW g, NEW S, IsFiniteSet(S),
           \A x \in S : f[x] \in Int /\ g[x] \in Int /\ f[x] <= g[x]
    PROVE  SumFunctionOnSet(f, S) <= SumFunctionOnSet(g, S)
<1> DEFINE G == {T \in SUBSET S : SumFunctionOnSet(f, T) <= SumFunctionOnSet(g, T)}
<1>1. {} \in G
    BY SumOfNothing
<1>2. ASSUME NEW T \in SUBSET S, \A x \in T : T \ {x} \in G
      PROVE  T \in G
    <2>1. CASE T = {}
        BY <1>1, <2>1
    <2>2. CASE T # {}
        <3>1. PICK x \in T : TRUE
            BY <2>2
        <3> DEFINE sf == SumFunctionOnSet(f, T \ {x})
                   sg == SumFunctionOnSet(g, T \ {x})
        <3>2. /\ SumFunctionOnSet(f, T) = f[x] + sf /\ sf \in Int
              /\ SumFunctionOnSet(g, T) = g[x] + sg /\ sg \in Int
            BY SumSplits
        <3>3. sf <= sg
            BY <1>2
        <3>4. f[x] \in Int /\ g[x] \in Int /\ f[x] <= g[x]
            OBVIOUS
        <3>5. SumFunctionOnSet(f, T) <= SumFunctionOnSet(g, T)
            <4> HIDE DEF sf, sg
            <4> QED BY <3>2, <3>3, <3>4
        <3> QED BY <3>5
    <2> QED BY <2>1, <2>2
<1>3. SUBSET S \subseteq G
    <2> HIDE DEF G
    <2> QED BY <1>1, <1>2, SubsetsFromEmpty
<1> QED BY <1>3

\* The same in every place is the same in all.
LEMMA SumsAgree ==
    ASSUME NEW f, NEW g, NEW S, IsFiniteSet(S), \A x \in S : f[x] \in Int /\ g[x] = f[x]
    PROVE  SumFunctionOnSet(g, S) = SumFunctionOnSet(f, S)
<1>1. /\ SumFunctionOnSet(f, S) <= SumFunctionOnSet(g, S)
      /\ SumFunctionOnSet(g, S) <= SumFunctionOnSet(f, S)
    BY SumIsMonotone
<1>2. SumFunctionOnSet(f, S) \in Int /\ SumFunctionOnSet(g, S) \in Int
    BY SumSplits
<1> QED BY <1>1, <1>2

\* A sum that changes in one place changes by as much.
LEMMA SumOfUpdate ==
    ASSUME NEW f, NEW g, NEW S, IsFiniteSet(S), NEW a \in S,
           \A x \in S : f[x] \in Int /\ g[x] \in Int,
           \A x \in S \ {a} : g[x] = f[x]
    PROVE  SumFunctionOnSet(g, S) = SumFunctionOnSet(f, S) + g[a] - f[a]
<1> DEFINE rest == SumFunctionOnSet(f, S \ {a})
<1>1. /\ SumFunctionOnSet(f, S) = f[a] + rest
      /\ SumFunctionOnSet(g, S) = g[a] + SumFunctionOnSet(g, S \ {a})
      /\ rest \in Int
    BY SumSplits
<1>2. SumFunctionOnSet(g, S \ {a}) = rest
    <2>1. IsFiniteSet(S \ {a})
        BY FS_Subset
    <2> QED BY <2>1, SumsAgree
<1>3. f[a] \in Int /\ g[a] \in Int
    OBVIOUS
<1> HIDE DEF rest
<1> QED BY <1>1, <1>2, <1>3

\* One more element.
LEMMA SumOfOneMore ==
    ASSUME NEW f, NEW S, IsFiniteSet(S), NEW a, a \notin S,
           \A x \in S \cup {a} : f[x] \in Int
    PROVE  SumFunctionOnSet(f, S \cup {a}) = SumFunctionOnSet(f, S) + f[a]
<1>1. IsFiniteSet(S \cup {a}) /\ (S \cup {a}) \ {a} = S
    BY FS_AddElement
<1>2. SumFunctionOnSet(f, S \cup {a}) = f[a] + SumFunctionOnSet(f, (S \cup {a}) \ {a})
    BY <1>1, SumSplits
<1>3. SumFunctionOnSet(f, S \cup {a}) = f[a] + SumFunctionOnSet(f, S)
    BY <1>1, <1>2
<1>4. SumFunctionOnSet(f, S) \in Int /\ f[a] \in Int
    BY SumSplits
<1> QED BY <1>3, <1>4

LEMMA SumOfZeros ==
    ASSUME NEW f, NEW S, IsFiniteSet(S), \A x \in S : f[x] = 0
    PROVE  SumFunctionOnSet(f, S) = 0
<1> DEFINE G == {T \in SUBSET S : SumFunctionOnSet(f, T) = 0}
<1>1. {} \in G
    BY SumOfNothing
<1>2. ASSUME NEW T \in SUBSET S, \A x \in T : T \ {x} \in G
      PROVE  T \in G
    <2>1. CASE T = {}
        BY <1>1, <2>1
    <2>2. CASE T # {}
        <3>1. PICK x \in T : TRUE
            BY <2>2
        <3>2. SumFunctionOnSet(f, T) = f[x] + SumFunctionOnSet(f, T \ {x})
            BY SumSplits
        <3>3. SumFunctionOnSet(f, T \ {x}) = 0 /\ f[x] = 0
            BY <1>2
        <3> QED BY <3>2, <3>3
    <2> QED BY <2>1, <2>2
<1>3. SUBSET S \subseteq G
    <2> HIDE DEF G
    <2> QED BY <1>1, <1>2, SubsetsFromEmpty
<1> QED BY <1>3

\* A sum of naturals is one, and bounds each of them.
LEMMA SumIsNatural ==
    ASSUME NEW f, NEW S, IsFiniteSet(S), \A x \in S : f[x] \in Nat
    PROVE  /\ SumFunctionOnSet(f, S) \in Nat
           /\ \A x \in S : f[x] <= SumFunctionOnSet(f, S)
<1> DEFINE zero == [x \in S |-> 0]
<1>1. ASSUME NEW T \in SUBSET S
      PROVE  SumFunctionOnSet(f, T) \in Nat
    <2>1. IsFiniteSet(T)
        BY FS_Subset
    <2>2. SumFunctionOnSet(zero, T) = 0
        BY <2>1, SumOfZeros
    <2>3. SumFunctionOnSet(zero, T) <= SumFunctionOnSet(f, T)
        BY <2>1, SumIsMonotone
    <2>4. SumFunctionOnSet(f, T) \in Int
        BY <2>1, SumSplits
    <2> QED BY <2>2, <2>3, <2>4
<1>2. ASSUME NEW x \in S
      PROVE  f[x] <= SumFunctionOnSet(f, S)
    <2>1. SumFunctionOnSet(f, S) = f[x] + SumFunctionOnSet(f, S \ {x})
        BY SumSplits
    <2>2. SumFunctionOnSet(f, S \ {x}) \in Nat /\ f[x] \in Nat
        BY <1>1
    <2> QED BY <2>1, <2>2
<1> QED BY <1>1, <1>2

\* Places that hold 0 do not count.
LEMMA SumOfPart ==
    ASSUME NEW f, NEW S, IsFiniteSet(S), \A x \in S : f[x] \in Int,
           NEW P \in SUBSET S, \A x \in S \ P : f[x] = 0
    PROVE  SumFunctionOnSet(f, S) = SumFunctionOnSet(f, P)
<1> DEFINE G == {T \in SUBSET S : SumFunctionOnSet(f, T) = SumFunctionOnSet(f, T \cap P)}
<1>1. {} \in G
    <2>1. {} \cap P = {}
        OBVIOUS
    <2> QED BY <2>1
<1>2. ASSUME NEW T \in SUBSET S, \A x \in T : T \ {x} \in G
      PROVE  T \in G
    <2>1. CASE T \subseteq P
        <3>1. T \cap P = T
            BY <2>1
        <3> QED BY <3>1
    <2>2. CASE ~ (T \subseteq P)
        <3>1. PICK x \in T : x \notin P
            BY <2>2
        <3>2. SumFunctionOnSet(f, T) = f[x] + SumFunctionOnSet(f, T \ {x})
              /\ SumFunctionOnSet(f, T \ {x}) \in Int
            BY SumSplits
        <3>3. f[x] = 0
            BY <3>1
        <3>4. (T \ {x}) \cap P = T \cap P
            BY <3>1
        <3>5. SumFunctionOnSet(f, T \ {x}) = SumFunctionOnSet(f, T \cap P)
            BY <1>2, <3>4
        <3>6. SumFunctionOnSet(f, T) = SumFunctionOnSet(f, T \cap P)
            <4> HIDE DEF G
            <4> QED BY <3>2, <3>3, <3>5
        <3> QED BY <3>6
    <2> QED BY <2>1, <2>2
<1>3. SUBSET S \subseteq G
    <2> HIDE DEF G
    <2> QED BY <1>1, <1>2, SubsetsFromEmpty
<1>4. S \cap P = P
    OBVIOUS
<1> QED BY <1>3, <1>4

-----------------------------------------------------------------------------
(* Shares of an amount, rounded down: (f[x] * whole) \div total *)

\* A quotient times its divisor is no more than the dividend.
LEMMA QuotientBound ==
    ASSUME NEW n \in Nat, NEW d \in Nat \ {0}
    PROVE  n \div d \in Nat /\ d * (n \div d) <= n /\ n < d * (n \div d) + d
OBVIOUS

LEMMA Distributes ==
    ASSUME NEW a \in Int, NEW b \in Int, NEW c \in Int
    PROVE  a * (b + c) = a * b + a * c
OBVIOUS

LEMMA FactorCancels ==
    ASSUME NEW d \in Nat \ {0}, NEW a \in Int, NEW b \in Int, d * a <= d * b
    PROVE  a <= b
OBVIOUS

LEMMA ProductIsNatural ==
    ASSUME NEW a \in Nat, NEW b \in Nat
    PROVE  a * b \in Nat /\ a * b = b * a
OBVIOUS

\* One share more, to the sum sg of some that lie between w * sf and m units.
LEMMA ShareAdded ==
    ASSUME NEW t \in Nat \ {0}, NEW w \in Nat, NEW a \in Nat, NEW sf \in Nat, NEW sg \in Nat,
           NEW m \in Nat, t * sg <= w * sf, w * sf <= t * m
    PROVE  /\ t * ((a * w) \div t + sg) <= w * (a + sf)
           /\ w * (a + sf) <= t * ((a * w) \div t + m + 1)
<1> DEFINE q == (a * w) \div t
<1>1. a * w \in Nat /\ a * w = w * a
    BY ProductIsNatural
<1>2. q \in Nat /\ t * q <= a * w /\ a * w < t * q + t
    BY <1>1, QuotientBound
<1> HIDE DEF q
<1>3. w * (a + sf) = w * a + w * sf /\ t * (q + sg) = t * q + t * sg
    BY <1>2, Distributes
<1>4. t * (q + m + 1) = t * q + t * m + t
    <2>1. t * ((q + m) + 1) = t * (q + m) + t * 1
        BY <1>2, Distributes
    <2>2. t * (q + m) = t * q + t * m
        BY <1>2, Distributes
    <2> QED BY <2>1, <2>2
<1>5. /\ w * a \in Nat /\ w * sf \in Nat /\ t * q \in Nat /\ t * sg \in Nat /\ t * m \in Nat
    BY <1>2, ProductIsNatural
<1>6. t * (q + sg) <= w * (a + sf)
    BY <1>1, <1>2, <1>3, <1>5
<1>7. w * (a + sf) <= t * (q + m + 1)
    BY <1>1, <1>2, <1>3, <1>4, <1>5
<1> QED BY <1>6, <1>7 DEF q

LEMMA SharesOfPart ==
    ASSUME NEW f, NEW g, NEW S, IsFiniteSet(S),
           NEW whole \in Nat, NEW total \in Nat \ {0},
           \A x \in S : f[x] \in Nat /\ g[x] = (f[x] * whole) \div total
    PROVE  \A T \in SUBSET S :
              /\ SumFunctionOnSet(f, T) \in Nat /\ SumFunctionOnSet(g, T) \in Nat
              /\ total * SumFunctionOnSet(g, T) <= whole * SumFunctionOnSet(f, T)
              /\ whole * SumFunctionOnSet(f, T)
                    <= total * (SumFunctionOnSet(g, T) + Cardinality(T))
<1>1. \A x \in S : f[x] \in Nat /\ g[x] \in Nat
    BY ProductIsNatural, QuotientBound
<1>2. \A T \in SUBSET S : /\ SumFunctionOnSet(f, T) \in Nat /\ SumFunctionOnSet(g, T) \in Nat
                          /\ IsFiniteSet(T) /\ Cardinality(T) \in Nat
    BY <1>1, SumIsNatural, FS_Subset, FS_CardinalityType
<1> DEFINE Good(T) == /\ total * SumFunctionOnSet(g, T) <= whole * SumFunctionOnSet(f, T)
                      /\ whole * SumFunctionOnSet(f, T)
                            <= total * (SumFunctionOnSet(g, T) + Cardinality(T))
           G == {T \in SUBSET S : Good(T)}
<1>3. {} \in G
    <2>1. /\ SumFunctionOnSet(f, {}) = 0 /\ SumFunctionOnSet(g, {}) = 0
          /\ Cardinality({}) = 0
        BY SumOfNothing, FS_EmptySet
    <2>2. total * 0 = 0 /\ whole * 0 = 0 /\ total * (0 + 0) = 0
        OBVIOUS
    <2> QED BY <2>1, <2>2
<1>4. ASSUME NEW T \in SUBSET S, \A x \in T : T \ {x} \in G
      PROVE  T \in G
    <2>1. CASE T = {}
        BY <1>3, <2>1
    <2>2. CASE T # {}
        <3>1. PICK x \in T : TRUE
            BY <2>2
        <3> DEFINE sf == SumFunctionOnSet(f, T \ {x})
                   sg == SumFunctionOnSet(g, T \ {x})
                   n  == Cardinality(T \ {x})
        <3>2. /\ SumFunctionOnSet(f, T) = f[x] + sf /\ SumFunctionOnSet(g, T) = g[x] + sg
            <4>1. \A y \in S : f[y] \in Int
                BY <1>1
            <4>2. \A y \in S : g[y] \in Int
                BY <1>1
            <4>3. SumFunctionOnSet(f, T) = f[x] + sf
                BY <4>1, SumSplits
            <4>4. SumFunctionOnSet(g, T) = g[x] + sg
                BY <4>2, SumSplits
            <4> QED BY <4>3, <4>4
        <3>3. sf \in Nat /\ sg \in Nat /\ n \in Nat
            BY <1>2
        <3>4. Cardinality(T) = n + 1
            <4>1. Cardinality(T \ {x}) = Cardinality(T) - 1 /\ Cardinality(T) \in Nat
                BY <1>2, FS_RemoveElement
            <4> QED BY <4>1
        <3>5. total * sg <= whole * sf /\ whole * sf <= total * (sg + n)
            BY <1>4
        <3>6. f[x] \in Nat /\ g[x] = (f[x] * whole) \div total /\ g[x] \in Nat
            BY <1>1
        <3> HIDE DEF sf, sg, n
        <3>7. /\ total * (g[x] + sg) <= whole * (f[x] + sf)
              /\ whole * (f[x] + sf) <= total * (g[x] + (sg + n) + 1)
            <4>1. sg + n \in Nat
                BY <3>3
            <4> QED BY <3>3, <3>5, <3>6, <4>1, ShareAdded
        <3>8. g[x] + (sg + n) + 1 = SumFunctionOnSet(g, T) + Cardinality(T)
            BY <3>2, <3>3, <3>4, <3>6
        <3>9. Good(T)
            BY <3>2, <3>7, <3>8
        <3> QED BY <3>9
    <2> QED BY <2>1, <2>2
<1>5. SUBSET S \subseteq G
    <2> HIDE DEF G
    <2> QED BY <1>3, <1>4, SubsetsFromEmpty
<1> QED BY <1>2, <1>5

\* Together the shares of all are no more than the amount, and less than it by
\* at most one unit each.
LEMMA SharesOfAll ==
    ASSUME NEW f, NEW g, NEW S, IsFiniteSet(S),
           NEW whole \in Nat, NEW total \in Nat \ {0}, total = SumFunctionOnSet(f, S),
           \A x \in S : f[x] \in Nat /\ g[x] = (f[x] * whole) \div total
    PROVE  /\ SumFunctionOnSet(g, S) \in Nat
           /\ SumFunctionOnSet(g, S) <= whole
           /\ whole <= SumFunctionOnSet(g, S) + Cardinality(S)
<1> DEFINE sum == SumFunctionOnSet(g, S)
           n   == Cardinality(S)
<1>1. sum \in Nat /\ total * sum <= whole * total /\ whole * total <= total * (sum + n)
    BY SharesOfPart
<1>2. n \in Nat
    BY FS_CardinalityType
<1>3. whole * total = total * whole
    BY ProductIsNatural
<1> HIDE DEF sum, n
<1>4. total * sum <= total * whole /\ total * whole <= total * (sum + n)
    BY <1>1, <1>3
<1>5. sum <= whole /\ whole <= sum + n
    BY <1>1, <1>2, <1>4, FactorCancels
<1> QED BY <1>1, <1>5 DEF sum, n
=============================================================================
