---------------------------- MODULE SumTheorems ----------------------------
(***************************************************************************)
(* Facts about SumFunctionOnSet of the community modules: that the sum of  *)
(* a function over a finite set does not depend on the order in which the  *)
(* elements are chosen, and what follows for the sums of stock, coins and  *)
(* points.  The library defines the sum by recursion on the set; every     *)
(* induction here is the well-foundedness of strict inclusion of finite    *)
(* sets, applied to the subsets a claim fails for.                         *)
(***************************************************************************)
EXTENDS Functions, FiniteSetTheorems, TLAPS

Chosen(s) == CHOOSE x \in s : TRUE
SumRecursion(it, f, D) ==
    it = [s \in SUBSET D |-> IF s = {} THEN 0 ELSE f[Chosen(s)] + it[s \ {Chosen(s)}]]
SumSolution(f, D) == CHOOSE it : SumRecursion(it, f, D)

-----------------------------------------------------------------------------
(***************************************************************************)
(* Induction, the ends of a finite set of numbers, and the unique solution *)
(* of the recursion.                                                       *)
(***************************************************************************)

\* Subsets of a finite set that some claim fails for have a smallest member.
LEMMA SmallestSubset ==
    ASSUME NEW D, IsFiniteSet(D), NEW Bad, Bad \subseteq SUBSET D, Bad # {}
    PROVE  \E T \in Bad : \A U \in Bad : U \subseteq T => U = T
<1>1. IsWellFoundedOn(StrictSubsetOrdering(D), SUBSET D)
    BY FS_StrictSubsetOrderingWellFounded, FS_FiniteSubsetsOfFinite
<1>2. PICK T \in Bad : \A U \in Bad : ~ (<<U, T>> \in StrictSubsetOrdering(D))
    BY <1>1, WFMin
<1>3. \A U \in Bad : U \subseteq T => U = T
    BY <1>2 DEF StrictSubsetOrdering
<1> QED
    BY <1>3

\* Any set of numbers that has a member and is finite has a largest one.
LEMMA LargestNumber ==
    ASSUME NEW S, IsFiniteSet(S), S \subseteq Nat, S # {}
    PROVE  \E e \in S : \A d \in S : d <= e
<1> DEFINE Bad == {{d \in S : e <= d} : e \in S}
<1>1. Bad \subseteq SUBSET S /\ Bad # {}
    OBVIOUS
<1>2. PICK T \in Bad : \A U \in Bad : U \subseteq T => U = T
    <2>1. Bad \subseteq SUBSET S
        OBVIOUS
    <2>2. Bad # {}
        BY <1>1
    <2> HIDE DEF Bad
    <2> QED
        BY ONLY IsFiniteSet(S), <2>1, <2>2, SmallestSubset
<1>3. PICK e \in S : T = {d \in S : e <= d}
    BY <1>2
<1>4. ASSUME NEW d \in S, ~ d <= e PROVE FALSE
    <2> DEFINE U == {x \in S : d <= x}
    <2>1. U \in Bad
        OBVIOUS
    <2>2. e <= d /\ e <= e /\ ~ d <= e /\ \A x \in S : d <= x => e <= x
        BY <1>4
    <2>3. U \subseteq T /\ e \in T
        BY <1>3, <2>2
    <2> QED
        BY <1>2, <2>1, <2>2, <2>3
<1> QED
    BY <1>4

\* ... and a smallest one.
LEMMA SmallestNumber ==
    ASSUME NEW S, IsFiniteSet(S), S \subseteq Nat, S # {}
    PROVE  \E e \in S : \A d \in S : e <= d
<1> DEFINE Below == {{d \in S : d <= e} : e \in S}
<1>1. PICK T \in Below : \A U \in Below : U \subseteq T => U = T
    <2>1. Below \subseteq SUBSET S
        OBVIOUS
    <2>2. Below # {}
        OBVIOUS
    <2> HIDE DEF Below
    <2> QED
        BY ONLY IsFiniteSet(S), <2>1, <2>2, SmallestSubset
<1>2. PICK e \in S : T = {d \in S : d <= e}
    BY <1>1
<1>3. ASSUME NEW d \in S, ~ e <= d PROVE FALSE
    <2> DEFINE U == {x \in S : x <= d}
    <2>1. U \in Below
        OBVIOUS
    <2>2. d <= e /\ e <= e /\ ~ e <= d /\ \A x \in S : x <= d => x <= e
        BY <1>3
    <2>3. U \subseteq T /\ e \in T
        BY <1>2, <2>2
    <2> QED
        BY <1>1, <2>1, <2>2, <2>3
<1> QED
    BY <1>3

LEMMA ChosenIsMember == \A s : s # {} => Chosen(s) \in s
BY DEF Chosen

\* Two solutions agree wherever their functions do.
LEMMA SolutionsAgree ==
    ASSUME NEW D, IsFiniteSet(D), NEW A, NEW B, D \subseteq A, D \subseteq B,
           NEW f, NEW g, \A x \in D : f[x] = g[x],
           NEW i, SumRecursion(i, f, A), NEW j, SumRecursion(j, g, B)
    PROVE  \A s \in SUBSET D : i[s] = j[s]
<1> DEFINE Bad == {s \in SUBSET D : i[s] # j[s]}
<1> SUFFICES ASSUME Bad # {} PROVE FALSE
    OBVIOUS
<1>1. PICK T \in Bad : \A U \in Bad : U \subseteq T => U = T
    <2>1. Bad \subseteq SUBSET D
        OBVIOUS
    <2> HIDE DEF Bad
    <2> QED
        BY <2>1, SmallestSubset
<1>2. /\ i[T] = IF T = {} THEN 0 ELSE f[Chosen(T)] + i[T \ {Chosen(T)}]
      /\ j[T] = IF T = {} THEN 0 ELSE g[Chosen(T)] + j[T \ {Chosen(T)}]
    <2>1. T \in SUBSET A /\ T \in SUBSET B
        OBVIOUS
    <2>2. i[T] = IF T = {} THEN 0 ELSE f[Chosen(T)] + i[T \ {Chosen(T)}]
        BY <2>1 DEF SumRecursion
    <2>3. j[T] = IF T = {} THEN 0 ELSE g[Chosen(T)] + j[T \ {Chosen(T)}]
        BY <2>1 DEF SumRecursion
    <2> QED
        BY <2>2, <2>3
<1>3. T # {}
    BY <1>2
<1>4. Chosen(T) \in T
    BY <1>3, ChosenIsMember
<1>5. i[T \ {Chosen(T)}] = j[T \ {Chosen(T)}] /\ f[Chosen(T)] = g[Chosen(T)]
    BY <1>1, <1>4
<1> QED
    BY <1>2, <1>3, <1>5

\* The recursion has a solution.
LEMMA SolutionExists ==
    ASSUME NEW D, IsFiniteSet(D), NEW f
    PROVE  \A T \in SUBSET D : SumRecursion(SumSolution(f, T), f, T)
<1> DEFINE Bad == {T \in SUBSET D : ~ \E it : SumRecursion(it, f, T)}
<1>1. ASSUME Bad # {} PROVE FALSE
    <2>1. PICK T \in Bad : \A U \in Bad : U \subseteq T => U = T
        <3>1. Bad \subseteq SUBSET D
            OBVIOUS
        <3> HIDE DEF Bad
        <3> QED
            BY <1>1, <3>1, SmallestSubset
    <2>2. \A U \in SUBSET T : U # T => SumRecursion(SumSolution(f, U), f, U)
        <3>1. \A U \in SUBSET T : U # T => \E it : SumRecursion(it, f, U)
            BY <2>1
        <3> QED
            BY <3>1 DEF SumSolution
    <2> DEFINE Less(s) == s \ {Chosen(s)}
               it == [s \in SUBSET T |-> IF s = {} THEN 0
                                         ELSE f[Chosen(s)] + SumSolution(f, Less(s))[Less(s)]]
    <2>3. \A s \in SUBSET T : s # {} => Less(s) \in SUBSET T /\ Less(s) # T /\ Less(s) # s
        BY ChosenIsMember
    <2>4. \A u \in SUBSET T : u # T => it[u] = SumSolution(f, u)[u]
        <3> SUFFICES ASSUME NEW u \in SUBSET T, u # T PROVE it[u] = SumSolution(f, u)[u]
            OBVIOUS
        <3>1. SumSolution(f, u)[u] = IF u = {} THEN 0 ELSE f[Chosen(u)] + SumSolution(f, u)[Less(u)]
            BY <2>2 DEF SumRecursion
        <3>2. CASE u = {}
            BY <3>1, <3>2
        <3>3. CASE u # {}
            <4>1. SumRecursion(SumSolution(f, u), f, u) /\ SumRecursion(SumSolution(f, Less(u)), f, Less(u))
                BY <2>2, <2>3, <3>3
            <4>2. IsFiniteSet(Less(u)) /\ Less(u) \subseteq u
                BY FS_Subset
            <4> DEFINE l == Less(u)
            <4> HIDE DEF Less
            <4> HIDE DEF l
            <4>3. \A s \in SUBSET l : SumSolution(f, u)[s] = SumSolution(f, l)[s]
                <5>1. /\ l \subseteq u /\ IsFiniteSet(l)
                      /\ SumRecursion(SumSolution(f, u), f, u) /\ SumRecursion(SumSolution(f, l), f, l)
                    BY <4>1, <4>2 DEF l
                <5>2. l \subseteq l /\ \A x \in l : f[x] = f[x]
                    OBVIOUS
                <5> DEFINE i == SumSolution(f, u)
                           j == SumSolution(f, l)
                <5>3. SumRecursion(i, f, u) /\ SumRecursion(j, f, l)
                    BY <5>1
                <5> HIDE DEF i, j
                <5>4. \A s \in SUBSET l : i[s] = j[s]
                    BY <5>1, <5>2, <5>3, SolutionsAgree
                <5> QED
                    BY <5>4 DEF i, j
            <4>4. SumSolution(f, u)[Less(u)] = SumSolution(f, Less(u))[Less(u)]
                BY <4>3 DEF l
            <4> QED
                BY <3>1, <3>3, <4>4
        <3> QED
            BY <3>2, <3>3
    <2>5. \A s \in SUBSET T : s # {} => it[Less(s)] = SumSolution(f, Less(s))[Less(s)]
        BY <2>3, <2>4
    <2> DEFINE jt == [s \in SUBSET T |-> IF s = {} THEN 0 ELSE f[Chosen(s)] + it[s \ {Chosen(s)}]]
    <2>6. \A s \in SUBSET T : it[s] = jt[s]
        BY <2>5
    <2>7. it = jt
        BY <2>6
    <2>8. SumRecursion(it, f, T)
        BY <2>7 DEF SumRecursion
    <2> QED
        BY <2>1, <2>8
<1> QED
    BY <1>1 DEF SumSolution

-----------------------------------------------------------------------------
(***************************************************************************)
(* The sum.                                                                *)
(***************************************************************************)

LEMMA SumIs ==
    ASSUME NEW f, NEW D
    PROVE  SumFunctionOnSet(f, D) = SumSolution(f, D)[D]
BY Zenon DEF SumFunctionOnSet, FoldFunctionOnSet, MapThenFoldSet, SumRecursion, SumSolution, Chosen

\* Functions that agree on a set have the same sum over it.
LEMMA SumSame ==
    ASSUME NEW D, IsFiniteSet(D), NEW f, NEW g, \A x \in D : f[x] = g[x]
    PROVE  SumFunctionOnSet(f, D) = SumFunctionOnSet(g, D)
<1>1. SumRecursion(SumSolution(f, D), f, D) /\ SumRecursion(SumSolution(g, D), g, D)
    BY SolutionExists
<1>2. \A s \in SUBSET D : SumSolution(f, D)[s] = SumSolution(g, D)[s]
    BY <1>1, SolutionsAgree
<1> QED
    BY <1>2, SumIs

\* The sum over a set is that of the element the recursion chooses and that of the others.
LEMMA SumPicks ==
    ASSUME NEW D, IsFiniteSet(D), NEW f
    PROVE  SumFunctionOnSet(f, D) = IF D = {} THEN 0
                                    ELSE f[Chosen(D)] + SumFunctionOnSet(f, D \ {Chosen(D)})
<1> DEFINE L == D \ {Chosen(D)}
<1>1. L \subseteq D /\ IsFiniteSet(L)
    BY FS_Subset
<1>2. SumRecursion(SumSolution(f, D), f, D) /\ SumRecursion(SumSolution(f, L), f, L)
    BY <1>1, SolutionExists
<1>3. SumSolution(f, D)[D] = IF D = {} THEN 0 ELSE f[Chosen(D)] + SumSolution(f, D)[L]
    BY <1>2 DEF SumRecursion
<1> HIDE DEF L
<1>4. \A s \in SUBSET L : SumSolution(f, D)[s] = SumSolution(f, L)[s]
    BY <1>1, <1>2, SolutionsAgree
<1>5. SumSolution(f, D)[L] = SumSolution(f, L)[L]
    BY <1>4
<1>6. SumFunctionOnSet(f, D) = SumSolution(f, D)[D] /\ SumFunctionOnSet(f, L) = SumSolution(f, L)[L]
    BY SumIs
<1> QED
    BY <1>3, <1>5, <1>6 DEF L

LEMMA SumOfNone == ASSUME NEW f PROVE SumFunctionOnSet(f, {}) = 0
BY SumPicks, FS_EmptySet

\* Integers sum to an integer, naturals to a natural.
LEMMA SumType ==
    ASSUME NEW D, IsFiniteSet(D), NEW f, \A x \in D : f[x] \in Int
    PROVE  /\ SumFunctionOnSet(f, D) \in Int
           /\ (\A x \in D : f[x] >= 0) => SumFunctionOnSet(f, D) >= 0
<1> DEFINE Good(s) == /\ SumFunctionOnSet(f, s) \in Int
                      /\ (\A x \in s : f[x] >= 0) => SumFunctionOnSet(f, s) >= 0
           Bad == {s \in SUBSET D : ~ Good(s)}
<1>1. ASSUME Bad # {} PROVE FALSE
    <2>1. PICK T \in Bad : \A U \in Bad : U \subseteq T => U = T
        <3>1. Bad \subseteq SUBSET D
            OBVIOUS
        <3> HIDE DEF Bad
        <3> QED
            BY <1>1, <3>1, SmallestSubset
    <2>2. IsFiniteSet(T)
        BY FS_Subset
    <2>3. SumFunctionOnSet(f, T) = IF T = {} THEN 0
                                   ELSE f[Chosen(T)] + SumFunctionOnSet(f, T \ {Chosen(T)})
        BY <2>2, SumPicks
    <2>4. CASE T = {}
        BY <2>1, <2>3, <2>4
    <2>5. CASE T # {}
        <3>1. Chosen(T) \in T
            BY <2>5, ChosenIsMember
        <3>2. Good(T \ {Chosen(T)})
            BY <2>1, <3>1
        <3>3. f[Chosen(T)] \in Int
            BY <3>1
        <3> QED
            BY <2>1, <2>3, <2>5, <3>1, <3>2, <3>3
    <2> QED
        BY <2>4, <2>5
<1> QED
    BY <1>1

\* Any element may be summed last.
LEMMA SumTakes ==
    ASSUME NEW D, IsFiniteSet(D), NEW f, \A x \in D : f[x] \in Int, NEW x \in D
    PROVE  SumFunctionOnSet(f, D) = f[x] + SumFunctionOnSet(f, D \ {x})
<1> DEFINE Good(s) == \A y \in s : SumFunctionOnSet(f, s) = f[y] + SumFunctionOnSet(f, s \ {y})
           Bad == {s \in SUBSET D : ~ Good(s)}
<1>1. ASSUME Bad # {} PROVE FALSE
    <2>1. PICK T \in Bad : \A U \in Bad : U \subseteq T => U = T
        <3>1. Bad \subseteq SUBSET D
            OBVIOUS
        <3> HIDE DEF Bad
        <3> QED
            BY <1>1, <3>1, SmallestSubset
    <2>2. PICK y \in T : SumFunctionOnSet(f, T) # f[y] + SumFunctionOnSet(f, T \ {y})
        BY <2>1
    <2> DEFINE p == Chosen(T)
    <2>3. p \in T
        BY <2>2, ChosenIsMember
    <2>4. IsFiniteSet(T) /\ IsFiniteSet(T \ {p}) /\ IsFiniteSet((T \ {p}) \ {y})
        BY FS_Subset
    <2>5. SumFunctionOnSet(f, T) = f[p] + SumFunctionOnSet(f, T \ {p})
        BY <2>2, <2>4, SumPicks
    <2> HIDE DEF p
    <2>6. p # y
        BY <2>2, <2>5
    <2>7. Good(T \ {p}) /\ Good(T \ {y})
        BY <2>1, <2>2, <2>3
    <2>8. /\ SumFunctionOnSet(f, T \ {p}) = f[y] + SumFunctionOnSet(f, (T \ {p}) \ {y})
          /\ SumFunctionOnSet(f, T \ {y}) = f[p] + SumFunctionOnSet(f, (T \ {y}) \ {p})
        BY <2>2, <2>3, <2>6, <2>7
    <2>9. (T \ {p}) \ {y} = (T \ {y}) \ {p}
        OBVIOUS
    <2>10. SumFunctionOnSet(f, (T \ {p}) \ {y}) \in Int /\ f[p] \in Int /\ f[y] \in Int
        BY <2>2, <2>3, <2>4, SumType
    <2>11. f[p] + SumFunctionOnSet(f, T \ {p}) = f[y] + SumFunctionOnSet(f, T \ {y})
        <3> DEFINE rest == SumFunctionOnSet(f, (T \ {p}) \ {y})
        <3>1. /\ SumFunctionOnSet(f, T \ {p}) = f[y] + rest
              /\ SumFunctionOnSet(f, T \ {y}) = f[p] + rest
            BY <2>8, <2>9
        <3>2. rest \in Int
            BY <2>10
        <3> HIDE DEF rest
        <3> QED
            BY <2>10, <3>1, <3>2
    <2> QED
        BY <2>2, <2>5, <2>11
<1> QED
    BY <1>1

-----------------------------------------------------------------------------
(***************************************************************************)
(* Sums of sets and functions that differ.                                 *)
(***************************************************************************)

LEMMA SumAdds ==
    ASSUME NEW D, IsFiniteSet(D), NEW x, x \notin D, NEW f, \A y \in D \cup {x} : f[y] \in Int
    PROVE  SumFunctionOnSet(f, D \cup {x}) = f[x] + SumFunctionOnSet(f, D)
<1> DEFINE E == D \cup {x}
<1>1. IsFiniteSet(E) /\ x \in E /\ E \ {x} = D /\ \A y \in E : f[y] \in Int
    BY FS_AddElement
<1> HIDE DEF E
<1>2. SumFunctionOnSet(f, E) = f[x] + SumFunctionOnSet(f, E \ {x})
    BY <1>1, SumTakes
<1> QED
    BY <1>1, <1>2 DEF E

\* A function that differs at one element.
LEMMA SumChanges ==
    ASSUME NEW D, IsFiniteSet(D), NEW x \in D, NEW f, NEW g,
           \A y \in D : f[y] \in Int /\ g[y] \in Int, \A y \in D \ {x} : f[y] = g[y]
    PROVE  SumFunctionOnSet(g, D) = SumFunctionOnSet(f, D) - f[x] + g[x]
<1> DEFINE E == D \ {x}
<1>1. IsFiniteSet(E) /\ \A y \in E : f[y] = g[y] /\ f[y] \in Int
    BY FS_Subset
<1>2. /\ SumFunctionOnSet(f, D) = f[x] + SumFunctionOnSet(f, E)
      /\ SumFunctionOnSet(g, D) = g[x] + SumFunctionOnSet(g, E)
    BY SumTakes
<1> HIDE DEF E
<1>3. SumFunctionOnSet(f, E) = SumFunctionOnSet(g, E) /\ SumFunctionOnSet(f, E) \in Int
    BY <1>1, SumSame, SumType
<1>4. f[x] \in Int /\ g[x] \in Int
    OBVIOUS
<1> QED
    BY <1>2, <1>3, <1>4

\* Disjoint sets.
LEMMA SumOfUnion ==
    ASSUME NEW A, IsFiniteSet(A), NEW B, IsFiniteSet(B), A \cap B = {},
           NEW f, \A y \in A \cup B : f[y] \in Int
    PROVE  SumFunctionOnSet(f, A \cup B) = SumFunctionOnSet(f, A) + SumFunctionOnSet(f, B)
<1> DEFINE Good(s) == SumFunctionOnSet(f, A \cup s) = SumFunctionOnSet(f, A) + SumFunctionOnSet(f, s)
           Bad == {s \in SUBSET B : ~ Good(s)}
<1>1. ASSUME Bad # {} PROVE FALSE
    <2>1. PICK T \in Bad : \A U \in Bad : U \subseteq T => U = T
        <3>1. Bad \subseteq SUBSET B
            OBVIOUS
        <3> HIDE DEF Bad
        <3> QED
            BY <1>1, <3>1, SmallestSubset
    <2>2. SumFunctionOnSet(f, A) \in Int
        BY SumType
    <2>3. CASE T = {}
        <3>1. A \cup T = A
            BY <2>3
        <3>2. SumFunctionOnSet(f, T) = 0
            BY <2>3, SumOfNone
        <3> DEFINE a == SumFunctionOnSet(f, A)
                   t == SumFunctionOnSet(f, T)
        <3>3. SumFunctionOnSet(f, A \cup T) = a
            BY <3>1, Zenon
        <3>4. a = a + t
            <4>1. a \in Int /\ t = 0
                BY <2>2, <3>2
            <4> HIDE DEF a, t
            <4> QED
                BY <4>1
        <3> QED
            BY <2>1, <3>3, <3>4
    <2>4. CASE T # {}
        <3>1. PICK x \in T : TRUE
            BY <2>4
        <3> DEFINE S == T \ {x}
        <3>2. Good(S)
            BY <2>1, <3>1
        <3>3. IsFiniteSet(T) /\ IsFiniteSet(S) /\ IsFiniteSet(A \cup S)
            BY FS_Subset, FS_Union
        <3>4. SumFunctionOnSet(f, T) = f[x] + SumFunctionOnSet(f, S)
            BY <3>3, SumTakes
        <3>5. /\ x \notin A \cup S /\ A \cup T = (A \cup S) \cup {x}
              /\ \A y \in (A \cup S) \cup {x} : f[y] \in Int
            OBVIOUS
        <3>6. SumFunctionOnSet(f, S) \in Int /\ f[x] \in Int
            BY <3>3, SumType
        <3> DEFINE E == A \cup S
        <3>7. SumFunctionOnSet(f, A \cup T) = f[x] + SumFunctionOnSet(f, E)
            <4>1. IsFiniteSet(E) /\ x \notin E /\ A \cup T = E \cup {x} /\ \A y \in E \cup {x} : f[y] \in Int
                BY <3>3, <3>5
            <4> HIDE DEF E
            <4> QED
                BY <4>1, SumAdds
        <3> QED
            BY <2>1, <2>2, <3>2, <3>4, <3>6, <3>7
    <2> QED
        BY <2>3, <2>4
<1> QED
    BY <1>1

\* Of two functions one of which is never above the other; of naturals over a smaller set.
LEMMA SumBelow ==
    ASSUME NEW D, IsFiniteSet(D), NEW f, NEW g,
           \A y \in D : f[y] \in Int /\ g[y] \in Int /\ f[y] <= g[y]
    PROVE  SumFunctionOnSet(f, D) <= SumFunctionOnSet(g, D)
<1> DEFINE Good(s) == SumFunctionOnSet(f, s) <= SumFunctionOnSet(g, s)
           Bad == {s \in SUBSET D : ~ Good(s)}
<1>1. ASSUME Bad # {} PROVE FALSE
    <2>1. PICK T \in Bad : \A U \in Bad : U \subseteq T => U = T
        <3>1. Bad \subseteq SUBSET D
            OBVIOUS
        <3> HIDE DEF Bad
        <3> QED
            BY <1>1, <3>1, SmallestSubset
    <2>2. CASE T = {}
        BY <2>1, <2>2, SumOfNone
    <2>3. CASE T # {}
        <3>1. PICK x \in T : TRUE
            BY <2>3
        <3> DEFINE S == T \ {x}
        <3>2. Good(S)
            BY <2>1, <3>1
        <3>3. IsFiniteSet(T) /\ IsFiniteSet(S)
            BY FS_Subset
        <3>4. /\ SumFunctionOnSet(f, T) = f[x] + SumFunctionOnSet(f, S)
              /\ SumFunctionOnSet(g, T) = g[x] + SumFunctionOnSet(g, S)
            BY <3>3, SumTakes
        <3>5. SumFunctionOnSet(f, S) \in Int /\ SumFunctionOnSet(g, S) \in Int
            BY <3>3, SumType
        <3>6. f[x] \in Int /\ g[x] \in Int /\ f[x] <= g[x]
            OBVIOUS
        <3> QED
            BY <2>1, <3>2, <3>4, <3>5, <3>6
    <2> QED
        BY <2>2, <2>3
<1> QED
    BY <1>1

LEMMA SumOfPart ==
    ASSUME NEW D, IsFiniteSet(D), NEW S \in SUBSET D, NEW f, \A y \in D : f[y] \in Nat
    PROVE  SumFunctionOnSet(f, S) <= SumFunctionOnSet(f, D)
<1> DEFINE R == D \ S
<1>1. IsFiniteSet(S) /\ IsFiniteSet(R) /\ S \cap R = {} /\ S \cup R = D
    BY FS_Subset
<1>2. \A y \in S \cup R : f[y] \in Int /\ f[y] >= 0
    BY <1>1
<1> HIDE DEF R
<1>3. SumFunctionOnSet(f, S \cup R) = SumFunctionOnSet(f, S) + SumFunctionOnSet(f, R)
    BY <1>1, <1>2, SumOfUnion
<1>4. /\ SumFunctionOnSet(f, S) \in Int
      /\ SumFunctionOnSet(f, R) \in Int /\ SumFunctionOnSet(f, R) >= 0
    BY <1>1, <1>2, SumType
<1>5. SumFunctionOnSet(f, S \cup R) = SumFunctionOnSet(f, D)
    BY <1>1
<1> QED
    BY <1>3, <1>4, <1>5

\* Zeros sum to zero.
LEMMA SumOfZeros ==
    ASSUME NEW D, IsFiniteSet(D), NEW f, \A y \in D : f[y] = 0
    PROVE  SumFunctionOnSet(f, D) = 0
<1> DEFINE Good(s) == SumFunctionOnSet(f, s) = 0
           Bad == {s \in SUBSET D : ~ Good(s)}
<1>1. ASSUME Bad # {} PROVE FALSE
    <2>1. PICK T \in Bad : \A U \in Bad : U \subseteq T => U = T
        <3>1. Bad \subseteq SUBSET D
            OBVIOUS
        <3> HIDE DEF Bad
        <3> QED
            BY <1>1, <3>1, SmallestSubset
    <2>2. CASE T = {}
        BY <2>1, <2>2, SumOfNone
    <2>3. CASE T # {}
        <3>1. PICK x \in T : TRUE
            BY <2>3
        <3>2. Good(T \ {x})
            BY <2>1, <3>1
        <3>3. IsFiniteSet(T) /\ \A y \in T : f[y] \in Int
            BY FS_Subset
        <3>4. SumFunctionOnSet(f, T) = f[x] + SumFunctionOnSet(f, T \ {x})
            BY <3>1, <3>3, SumTakes
        <3> QED
            BY <2>1, <3>1, <3>2, <3>4
    <2> QED
        BY <2>2, <2>3
<1> QED
    BY <1>1

\* The sum over a set and that over its image under a map that keeps elements apart.
LEMMA SumMoves ==
    ASSUME NEW D, IsFiniteSet(D), NEW m, \A x, y \in D : m[x] = m[y] => x = y,
           NEW f, NEW g, \A x \in D : f[x] \in Int /\ g[m[x]] = f[x]
    PROVE  /\ SumFunctionOnSet(g, {m[x] : x \in D}) = SumFunctionOnSet(f, D)
           /\ IsFiniteSet({m[x] : x \in D})
<1> DEFINE Image(s) == {m[x] : x \in s}
           Good(s) == SumFunctionOnSet(g, Image(s)) = SumFunctionOnSet(f, s) /\ IsFiniteSet(Image(s))
           Bad == {s \in SUBSET D : ~ Good(s)}
<1>1. ASSUME Bad # {} PROVE FALSE
    <2>1. PICK T \in Bad : \A U \in Bad : U \subseteq T => U = T
        <3>1. Bad \subseteq SUBSET D
            OBVIOUS
        <3> HIDE DEF Bad
        <3> QED
            BY <1>1, <3>1, SmallestSubset
    <2>2. CASE T = {}
        <3>1. Image(T) = {}
            BY <2>2
        <3> QED
            BY <2>1, <2>2, <3>1, SumOfNone, FS_EmptySet
    <2>3. CASE T # {}
        <3>1. PICK x \in T : TRUE
            BY <2>3
        <3> DEFINE S == T \ {x}
                   I == Image(S)
        <3>2. Good(S)
            BY <2>1, <3>1
        <3>3. IsFiniteSet(T) /\ IsFiniteSet(S)
            BY FS_Subset
        <3>4. SumFunctionOnSet(f, T) = f[x] + SumFunctionOnSet(f, S)
            BY <3>1, <3>3, SumTakes
        <3>5. Image(T) = I \cup {m[x]} /\ m[x] \notin I
            BY <3>1
        <3>6. IsFiniteSet(I) /\ \A z \in I \cup {m[x]} : g[z] \in Int
            BY <3>2
        <3>7. SumFunctionOnSet(g, I) = SumFunctionOnSet(f, S) /\ g[m[x]] = f[x]
            BY <3>2
        <3> HIDE DEF I
        <3>8. SumFunctionOnSet(g, I \cup {m[x]}) = g[m[x]] + SumFunctionOnSet(g, I)
            BY ONLY <3>5, <3>6, SumAdds
        <3>9. IsFiniteSet(I \cup {m[x]})
            BY <3>6, FS_AddElement
        <3> QED
            BY <2>1, <3>4, <3>5, <3>7, <3>8, <3>9
    <2> QED
        BY <2>2, <2>3
<1> QED
    BY <1>1
============================================================================
