--------------------------- MODULE FiguresProofs ----------------------------
(***************************************************************************)
(* The theorems about the figures of the dashboard (Dashboard) and of a      *)
(* report (ReportEvidence), for every table.  A sum over a finite set is a   *)
(* fold of the community modules, a recursive function on its subsets; what  *)
(* the proofs need of sums comes first.                                     *)
(***************************************************************************)
EXTENDS Dashboard, ReportEvidence, Intelligence, Rankings, Charts, FiniteSetTheorems, TLAPS

----------------------------------------------------------------------------
\* Sums.

\* What holds of a set whenever it holds of all its proper subsets holds of every finite
\* set; and so does what holds of no element, and of one more whenever it holds of some.
\* The sets of which it holds are G.
LEMMA SubsetInduction ==
    ASSUME NEW S, IsFiniteSet(S), NEW G,
           \A T \in SUBSET S : (\A U \in SUBSET T : U # T => U \in G) => T \in G
    PROVE  S \in G
<1> SUFFICES ASSUME S \notin G PROVE FALSE
  OBVIOUS
<1> DEFINE F == {T \in SUBSET S : T \notin G}
<1>1. F \subseteq FiniteSubsetsOf(S) /\ F # {}
  BY FS_Subset DEF FiniteSubsetsOf
<1>2. PICK T \in F : \A V \in F : ~(<<V, T>> \in StrictSubsetOrdering(S))
  <2> HIDE DEF F
  <2> QED BY <1>1, FS_StrictSubsetOrderingWellFounded, WFMin
<1>3. ASSUME NEW U \in SUBSET T, U # T PROVE U \in G
  <2>1. U \in SUBSET S /\ <<U, T>> \in StrictSubsetOrdering(S)
    BY <1>3 DEF StrictSubsetOrdering
  <2> QED BY <1>2, <2>1
<1> QED BY <1>3

LEMMA SetInduction ==
    ASSUME NEW S, IsFiniteSet(S), NEW G, {} \in G,
           \A T \in SUBSET S : T \in G => \A x \in S \ T : T \cup {x} \in G
    PROVE  S \in G
<1>1. ASSUME NEW T \in SUBSET S, \A U \in SUBSET T : U # T => U \in G, T # {} PROVE T \in G
  <2>1. PICK x \in T : TRUE
    BY <1>1
  <2>2. T \ {x} \in SUBSET S /\ T \ {x} \in G /\ x \in S \ (T \ {x})
    BY <1>1
  <2>3. (T \ {x}) \cup {x} = T
    OBVIOUS
  <2> QED BY <2>2, <2>3
<1>2. \A T \in SUBSET S : (\A U \in SUBSET T : U # T => U \in G) => T \in G
  BY <1>1
<1> QED BY <1>2, SubsetInduction

\* The elements of a set in the order a fold takes them, and the sums of its subsets.
Taken(s) == CHOOSE x \in s : TRUE

SumsOf(f, S, g) ==
    g = [s \in SUBSET S |-> IF s = {} THEN 0 ELSE f[Taken(s)] + g[s \ {Taken(s)}]]

SumOver(f, S) == MapThenSumSet(LAMBDA k : f[k], S)

LEMMA SumIsTaken == \A f, S : SumOver(f, S) = (CHOOSE g : SumsOf(f, S, g))[S]
  BY DEF SumOver, MapThenSumSet, MapThenFoldSet, SumsOf, Taken
\* The sums of the subsets of a set are those of the subsets of a larger one.
LEMMA SumsAgree ==
    ASSUME NEW S, IsFiniteSet(S), NEW T \in SUBSET S, NEW f, NEW g, NEW h,
           SumsOf(f, S, g), SumsOf(f, T, h)
    PROVE  h[T] = g[T]
<1> DEFINE G == {U \in SUBSET T : h[U] = g[U]}
<1>1. ASSUME NEW U \in SUBSET T, \A V \in SUBSET U : V # U => V \in G PROVE h[U] = g[U]
  <2>1. CASE U = {}
    BY <2>1 DEF SumsOf
  <2>2. CASE U # {}
    <3> DEFINE x == Taken(U)
    <3>1. x \in U
      BY <2>2 DEF Taken
    <3>2. h[U \ {x}] = g[U \ {x}]
      BY <1>1, <3>1
    <3>3. h[U] = f[x] + h[U \ {x}] /\ g[U] = f[x] + g[U \ {x}]
      BY <2>2 DEF SumsOf
    <3> QED BY <3>2, <3>3
  <2> QED BY <2>1, <2>2
<1>2. T \in G
  <2>1. IsFiniteSet(T)
    BY FS_Subset
  <2>2. \A U \in SUBSET T : (\A V \in SUBSET U : V # U => V \in G) => U \in G
    BY <1>1
  <2> HIDE DEF G
  <2> QED BY <2>1, <2>2, SubsetInduction
<1> QED BY <1>2

\* The fold is well defined.
LEMMA SumsExist ==
    ASSUME NEW S, IsFiniteSet(S), NEW f
    PROVE  \E g : SumsOf(f, S, g)
<1> DEFINE G == {T \in SUBSET S : \E g : SumsOf(f, T, g)}
<1>1. ASSUME NEW T \in SUBSET S, \A U \in SUBSET T : U # T => U \in G
      PROVE  \E g : SumsOf(f, T, g)
  <2>1. IsFiniteSet(T)
    BY FS_Subset
  <2>2. ASSUME NEW U \in SUBSET T, U # T PROVE SumsOf(f, U, CHOOSE g : SumsOf(f, U, g))
    <3>1. \E g : SumsOf(f, U, g)
      BY <1>1, <2>2
    <3> QED BY <3>1, Zenon
  <2> DEFINE h == [s \in SUBSET T |-> IF s = {} THEN 0 ELSE f[Taken(s)] + SumOver(f, s \ {Taken(s)})]
  <2>3. ASSUME NEW U \in SUBSET T, U # T PROVE h[U] = SumOver(f, U)
    <3> DEFINE u == CHOOSE g : SumsOf(f, U, g)
    <3>1. SumsOf(f, U, u) /\ SumOver(f, U) = u[U]
      BY <2>2, <2>3, SumIsTaken
    <3>2. CASE U = {}
      BY <3>1, <3>2 DEF SumsOf
    <3>3. CASE U # {}
      <4> DEFINE x == Taken(U)
                 V == U \ {x}
                 w == CHOOSE g : SumsOf(f, V, g)
      <4>1. x \in U
        BY <3>3 DEF Taken
      <4>2. V \in SUBSET T /\ V # T /\ V \in SUBSET U /\ IsFiniteSet(U)
        BY <4>1, <2>1, <2>3, FS_Subset
      <4>3. SumsOf(f, V, w) /\ SumOver(f, V) = w[V]
        BY <4>2, <2>2, SumIsTaken
      <4> HIDE DEF w, u
      <4>4. w[V] = u[V]
        BY <4>2, <4>3, <3>1, SumsAgree
      <4>5. u[U] = f[x] + u[V]
        BY <3>1, <3>3 DEF SumsOf
      <4>6. h[U] = f[x] + SumOver(f, V)
        BY <3>3
      <4> QED BY <3>1, <4>3, <4>4, <4>5, <4>6
    <3> QED BY <3>2, <3>3
  <2>4. ASSUME NEW s \in SUBSET T, s # {}
        PROVE  SumOver(f, s \ {Taken(s)}) = h[s \ {Taken(s)}]
    <3>1. Taken(s) \in s
      BY <2>4 DEF Taken
    <3>2. s \ {Taken(s)} \in SUBSET T /\ s \ {Taken(s)} # T
      BY <3>1
    <3> HIDE DEF h
    <3> QED BY <3>2, <2>3
  <2>5. h = [s \in SUBSET T |-> IF s = {} THEN 0 ELSE f[Taken(s)] + h[s \ {Taken(s)}]]
    <3> DEFINE H == h
    <3>1. \A s \in SUBSET T : h[s] = IF s = {} THEN 0 ELSE f[Taken(s)] + H[s \ {Taken(s)}]
      BY <2>4
    <3>2. h = [s \in SUBSET T |-> h[s]]
      OBVIOUS
    <3> HIDE DEF H
    <3>3. h = [s \in SUBSET T |-> IF s = {} THEN 0 ELSE f[Taken(s)] + H[s \ {Taken(s)}]]
      BY <3>1
    <3> QED BY <3>3 DEF H
  <2>6. SumsOf(f, T, h)
    BY <2>5 DEF SumsOf
  <2> QED BY <2>6
<1>2. S \in G
  <2> HIDE DEF G
  <2>1. \A T \in SUBSET S : (\A U \in SUBSET T : U # T => U \in G) => T \in G
    BY <1>1 DEF G
  <2> QED BY <2>1, SubsetInduction
<1> QED BY <1>2

\* A sum over a set takes one of its elements, and sums the others.
LEMMA SumTakes ==
    ASSUME NEW S, IsFiniteSet(S), NEW f
    PROVE  /\ SumOver(f, {}) = 0
           /\ S # {} => /\ Taken(S) \in S
                        /\ SumOver(f, S) = f[Taken(S)] + SumOver(f, S \ {Taken(S)})
<1> DEFINE sums(T) == CHOOSE g : SumsOf(f, T, g)
<1>1. ASSUME NEW T, IsFiniteSet(T) PROVE SumsOf(f, T, sums(T)) /\ SumOver(f, T) = sums(T)[T]
  BY <1>1, SumsExist, SumIsTaken, Zenon
<1> HIDE DEF sums
<1>2. SumOver(f, {}) = 0
  BY <1>1, FS_EmptySet DEF SumsOf
<1>3. ASSUME S # {}
      PROVE  Taken(S) \in S /\ SumOver(f, S) = f[Taken(S)] + SumOver(f, S \ {Taken(S)})
  <2> DEFINE x == Taken(S)
             T == S \ {x}
  <2>1. x \in S
    BY <1>3 DEF Taken
  <2>2. T \in SUBSET S /\ IsFiniteSet(T)
    BY FS_Subset
  <2>3. sums(S)[S] = f[x] + sums(S)[T]
    BY <1>1, <1>3 DEF SumsOf
  <2>4. sums(T)[T] = sums(S)[T]
    BY <1>1, <2>2, SumsAgree
  <2> QED BY <2>1, <2>2, <2>3, <2>4, <1>1
<1> QED BY <1>2, <1>3

\* A sum of integers is one, whichever of its elements is added last.
LEMMA SumAddsAny ==
    ASSUME NEW S, IsFiniteSet(S), NEW f, \A k \in S : f[k] \in Int
    PROVE  /\ SumOver(f, S) \in Int
           /\ \A x \in S : SumOver(f, S) = SumOver(f, S \ {x}) + f[x]
<1> DEFINE Good(T) == /\ SumOver(f, T) \in Int
                      /\ \A x \in T : SumOver(f, T) = SumOver(f, T \ {x}) + f[x]
           G == {T \in SUBSET S : Good(T)}
<1>1. ASSUME NEW T \in SUBSET S, \A U \in SUBSET T : U # T => U \in G
      PROVE  Good(T)
  <2>1. CASE T = {}
    <3>1. SumOver(f, {}) = 0
      BY SumTakes
    <3> QED BY <2>1, <3>1
  <2>2. CASE T # {}
    <3> DEFINE y == Taken(T)
    <3>1. IsFiniteSet(T)
      BY FS_Subset
    <3>2. y \in T /\ SumOver(f, T) = f[y] + SumOver(f, T \ {y})
      BY <2>2, <3>1, SumTakes
    <3>3. SumOver(f, T \ {y}) \in Int /\ f[y] \in Int
      BY <1>1, <3>2
    <3>4. ASSUME NEW x \in T, x # y PROVE SumOver(f, T) = SumOver(f, T \ {x}) + f[x]
      <4> DEFINE U == (T \ {x}) \ {y}
      <4>1. Good(T \ {x}) /\ Good(T \ {y}) /\ Good(U)
        BY <1>1, <3>2, <3>4
      <4>2. y \in T \ {x} /\ x \in T \ {y} /\ (T \ {y}) \ {x} = U
        BY <3>2, <3>4
      <4> DEFINE a == SumOver(f, U)
      <4>3. /\ SumOver(f, T \ {x}) = a + f[y]
            /\ SumOver(f, T \ {y}) = a + f[x]
            /\ a \in Int
        BY <4>1, <4>2
      <4>4. f[x] \in Int
        OBVIOUS
      <4> HIDE DEF a
      <4> QED BY <3>2, <3>3, <4>3, <4>4
    <3>5. SumOver(f, T) = SumOver(f, T \ {y}) + f[y] /\ SumOver(f, T) \in Int
      BY <3>2, <3>3
    <3> QED BY <3>4, <3>5
  <2> QED BY <2>1, <2>2
<1>2. S \in G
  <2>1. \A T \in SUBSET S : (\A U \in SUBSET T : U # T => U \in G) => T \in G
    BY <1>1
  <2> HIDE DEF G
  <2> QED BY <2>1, SubsetInduction
<1> QED BY <1>2

LEMMA SumType ==
    ASSUME NEW S, IsFiniteSet(S), NEW f, \A k \in S : f[k] \in Int
    PROVE  SumOver(f, S) \in Int
  BY SumAddsAny

LEMMA SumAdds ==
    ASSUME NEW S, IsFiniteSet(S), NEW f, NEW x, x \notin S, \A k \in S : f[k] \in Int, f[x] \in Int
    PROVE  SumOver(f, S \cup {x}) = SumOver(f, S) + f[x]
<1>1. IsFiniteSet(S \cup {x}) /\ (S \cup {x}) \ {x} = S
  BY FS_AddElement
<1> QED BY <1>1, SumAddsAny

\* What is 0 adds nothing, and only what is summed counts.
LEMMA SumOfNone == \A f : SumOver(f, {}) = 0
  BY SumTakes, FS_EmptySet

LEMMA SumSame ==
    ASSUME NEW S, IsFiniteSet(S), NEW f, NEW g, NEW T \in SUBSET S,
           \A k \in T : f[k] \in Int /\ f[k] = g[k], \A k \in S \ T : g[k] = 0
    PROVE  SumOver(f, T) = SumOver(g, S)
<1> DEFINE G == {U \in SUBSET S : SumOver(f, U \cap T) = SumOver(g, U)}
<1>0. \A k \in S : g[k] \in Int
  OBVIOUS
<1>1. {} \in G
  <2>1. {} \cap T = {}
    OBVIOUS
  <2> QED BY <2>1, SumOfNone
<1>2. ASSUME NEW U \in SUBSET S, U \in G, NEW x \in S \ U PROVE U \cup {x} \in G
  <2>1. IsFiniteSet(U) /\ IsFiniteSet(U \cap T)
    <3>1. U \cap T \in SUBSET S
      OBVIOUS
    <3> QED BY <3>1, FS_Subset
  <2>2. SumOver(g, U \cup {x}) = SumOver(g, U) + g[x]
    <3>1. x \notin U /\ (\A k \in U : g[k] \in Int) /\ g[x] \in Int
      BY <1>0
    <3> QED BY <2>1, <3>1, SumAdds
  <2>3. SumOver(g, U) \in Int
    BY <1>0, <2>1, SumType
  <2>4. CASE x \in T
    <3>1. (U \cup {x}) \cap T = (U \cap T) \cup {x}
      BY <2>4
    <3>2. x \notin U \cap T /\ (\A k \in U \cap T : f[k] \in Int) /\ f[x] \in Int
      BY <2>4
    <3>3. SumOver(f, (U \cap T) \cup {x}) = SumOver(f, U \cap T) + f[x]
      <4> DEFINE V == U \cap T
      <4>1. IsFiniteSet(V) /\ x \notin V /\ (\A k \in V : f[k] \in Int) /\ f[x] \in Int
        BY <2>1, <3>2
      <4> HIDE DEF V
      <4>2. SumOver(f, V \cup {x}) = SumOver(f, V) + f[x]
        BY <4>1, SumAdds
      <4> QED BY <4>2 DEF V
    <3> QED BY <1>2, <2>2, <2>4, <3>1, <3>3
  <2>5. CASE x \notin T
    <3>1. (U \cup {x}) \cap T = U \cap T /\ g[x] = 0
      BY <2>5
    <3>2. SumOver(g, U \cup {x}) = SumOver(g, U)
      BY <2>2, <2>3, <3>1
    <3> QED BY <1>2, <3>1, <3>2
  <2> QED BY <2>4, <2>5
<1>3. S \in G
  <2> HIDE DEF G
  <2>1. \A U \in SUBSET S : U \in G => \A x \in S \ U : U \cup {x} \in G
    BY <1>2
  <2> QED BY <1>1, <2>1, SetInduction
<1>4. S \cap T = T
  OBVIOUS
<1> QED BY <1>3, <1>4

\* The sum of differences is the difference of the sums.
LEMMA SumOfDifferences ==
    ASSUME NEW S, IsFiniteSet(S), NEW f, NEW g, NEW h,
           \A k \in S : f[k] \in Int /\ g[k] \in Int /\ h[k] = f[k] - g[k]
    PROVE  SumOver(h, S) = SumOver(f, S) - SumOver(g, S)
<1> DEFINE G == {U \in SUBSET S : SumOver(h, U) = SumOver(f, U) - SumOver(g, U)}
<1>1. {} \in G
  BY SumOfNone
<1>2. ASSUME NEW U \in SUBSET S, U \in G, NEW x \in S \ U PROVE U \cup {x} \in G
  <2>1. IsFiniteSet(U) /\ U \cup {x} \in SUBSET S
    BY FS_Subset
  <2>2. \A k \in U \cup {x} : f[k] \in Int /\ g[k] \in Int /\ h[k] \in Int /\ h[k] = f[k] - g[k]
    BY <2>1
  <2>3. /\ SumOver(f, U \cup {x}) = SumOver(f, U) + f[x]
        /\ SumOver(g, U \cup {x}) = SumOver(g, U) + g[x]
        /\ SumOver(h, U \cup {x}) = SumOver(h, U) + h[x]
    <3>1. ASSUME NEW e, \A k \in U : e[k] \in Int, e[x] \in Int
          PROVE  SumOver(e, U \cup {x}) = SumOver(e, U) + e[x]
      <4>1. x \notin U
        OBVIOUS
      <4> QED BY <2>1, <3>1, <4>1, SumAdds
    <3> QED BY <2>2, <3>1
  <2>4. SumOver(f, U) \in Int /\ SumOver(g, U) \in Int
    BY <2>1, <2>2, SumType
  <2>5. f[x] \in Int /\ g[x] \in Int /\ h[x] = f[x] - g[x]
    OBVIOUS
  <2> DEFINE a == SumOver(f, U)
             b == SumOver(g, U)
  <2>6. a \in Int /\ b \in Int /\ SumOver(h, U) = a - b
    BY <1>2, <2>4
  <2> HIDE DEF a, b
  <2>7. (a - b) + h[x] = (a + f[x]) - (b + g[x])
    BY <2>5, <2>6
  <2>8. SumOver(h, U \cup {x}) = SumOver(f, U \cup {x}) - SumOver(g, U \cup {x})
    BY <2>3, <2>6, <2>7 DEF a, b
  <2> QED BY <2>1, <2>8
<1>3. S \in G
  <2> HIDE DEF G
  <2>1. \A U \in SUBSET S : U \in G => \A x \in S \ U : U \cup {x} \in G
    BY <1>2
  <2> QED BY <1>1, <2>1, SetInduction
<1> QED BY <1>3

\* Disjoint sets add up.
LEMMA SumOfUnion ==
    ASSUME NEW S, IsFiniteSet(S), NEW T, IsFiniteSet(T), S \cap T = {},
           NEW f, \A k \in S \cup T : f[k] \in Int
    PROVE  SumOver(f, S \cup T) = SumOver(f, S) + SumOver(f, T)
<1> DEFINE G == {U \in SUBSET T : SumOver(f, S \cup U) = SumOver(f, S) + SumOver(f, U)}
<1>1. {} \in G
  <2>1. S \cup {} = S /\ SumOver(f, {}) = 0 /\ SumOver(f, S) \in Int
    BY SumOfNone, SumType
  <2> QED BY <2>1
<1>2. ASSUME NEW U \in SUBSET T, U \in G, NEW x \in T \ U PROVE U \cup {x} \in G
  <2> DEFINE V == S \cup U
  <2>1. IsFiniteSet(U) /\ IsFiniteSet(V)
    BY FS_Subset, FS_Union
  <2>2. x \notin V /\ (\A k \in V : f[k] \in Int) /\ f[x] \in Int /\ S \cup (U \cup {x}) = V \cup {x}
    OBVIOUS
  <2>3. x \notin U /\ (\A k \in U : f[k] \in Int) /\ (\A k \in S : f[k] \in Int)
    OBVIOUS
  <2>4. SumOver(f, V) = SumOver(f, S) + SumOver(f, U)
    BY <1>2
  <2> HIDE DEF V, G
  <2>5. SumOver(f, V \cup {x}) = SumOver(f, V) + f[x]
    BY <2>1, <2>2, SumAdds
  <2>6. SumOver(f, U \cup {x}) = SumOver(f, U) + f[x]
    BY <2>1, <2>2, <2>3, SumAdds
  <2>7. SumOver(f, S) \in Int /\ SumOver(f, U) \in Int
    BY <2>1, <2>3, SumType
  <2>8. SumOver(f, S \cup (U \cup {x})) = SumOver(f, S) + SumOver(f, U \cup {x})
    <3> DEFINE a == SumOver(f, S)
               b == SumOver(f, U)
    <3>1. a \in Int /\ b \in Int /\ f[x] \in Int /\ SumOver(f, V \cup {x}) = (a + b) + f[x]
      BY <2>2, <2>4, <2>5, <2>7
    <3> HIDE DEF a, b
    <3>2. (a + b) + f[x] = a + (b + f[x])
      BY <3>1
    <3> QED BY <2>2, <2>6, <3>1, <3>2 DEF a, b
  <2> QED BY <2>8 DEF G
<1>3. T \in G
  <2> HIDE DEF G
  <2>1. \A U \in SUBSET T : U \in G => \A x \in T \ U : U \cup {x} \in G
    BY <1>2
  <2> QED BY <1>1, <2>1, SetInduction
<1> QED BY <1>3

\* A sum does not depend on the names of what it sums.
LEMMA SumRenamed ==
    ASSUME NEW T, IsFiniteSet(T), NEW p, NEW f, NEW z,
           \A c, d \in T : p[c] = p[d] => c = d,
           \A d \in T : z[p[d]] \in Int /\ f[d] = z[p[d]]
    PROVE  SumOver(f, T) = SumOver(z, {p[d] : d \in T})
<1> DEFINE images(U) == {p[d] : d \in U}
           G == {U \in SUBSET T : SumOver(f, U) = SumOver(z, images(U)) /\ IsFiniteSet(images(U))}
<1>1. {} \in G
  <2>1. images({}) = {}
    OBVIOUS
  <2> QED BY <2>1, SumOfNone, FS_EmptySet
<1>2. ASSUME NEW U \in SUBSET T, U \in G, NEW x \in T \ U PROVE U \cup {x} \in G
  <2> DEFINE V == images(U)
  <2>1. IsFiniteSet(U)
    BY FS_Subset
  <2>2. IsFiniteSet(V) /\ SumOver(f, U) = SumOver(z, V)
    BY <1>2
  <2>3. images(U \cup {x}) = V \cup {p[x]} /\ p[x] \notin V
    OBVIOUS
  <2>4. (\A k \in V : z[k] \in Int) /\ z[p[x]] \in Int /\ f[x] = z[p[x]]
    OBVIOUS
  <2>5. (\A k \in U : f[k] \in Int) /\ x \notin U /\ U \cup {x} \in SUBSET T
    OBVIOUS
  <2> HIDE DEF V, images, G
  <2>6. SumOver(f, U \cup {x}) = SumOver(f, U) + f[x]
    BY ONLY <2>1, <2>4, <2>5, SumAdds, ZenonT(40)
  <2>7. SumOver(z, V \cup {p[x]}) = SumOver(z, V) + z[p[x]]
    <3> DEFINE y == p[x]
    <3>1. y \notin V /\ z[y] \in Int
      BY <2>3, <2>4
    <3> HIDE DEF y
    <3>2. SumOver(z, V \cup {y}) = SumOver(z, V) + z[y]
      BY ONLY <2>2, <2>4, <3>1, SumAdds
    <3> QED BY <3>2 DEF y
  <2>8. IsFiniteSet(V \cup {p[x]})
    BY <2>2, FS_AddElement
  <2> QED BY <2>2, <2>3, <2>4, <2>5, <2>6, <2>7, <2>8 DEF G
<1>3. T \in G
  <2> HIDE DEF G
  <2>1. \A U \in SUBSET T : U \in G => \A x \in T \ U : U \cup {x} \in G
    BY <1>2
  <2> QED BY <1>1, <2>1, SetInduction
<1> QED BY <1>3

\* A sum over pairs is the sum of those of its rows, and of those of its columns.
LEMMA SumOfParts ==
    ASSUME NEW I, IsFiniteSet(I), NEW part, NEW z, NEW r,
           \A i \in I : IsFiniteSet(part[i]) /\ r[i] = SumOver(z, part[i]),
           \A i, j \in I : i # j => part[i] \cap part[j] = {},
           \A i \in I : \A k \in part[i] : z[k] \in Int
    PROVE  SumOver(z, UNION {part[i] : i \in I}) = SumOver(r, I)
<1> DEFINE all(U) == UNION {part[i] : i \in U}
           G == {U \in SUBSET I : SumOver(z, all(U)) = SumOver(r, U) /\ IsFiniteSet(all(U))}
<1>1. {} \in G
  <2>1. all({}) = {}
    OBVIOUS
  <2> QED BY <2>1, SumOfNone, FS_EmptySet
<1>2. ASSUME NEW U \in SUBSET I, U \in G, NEW x \in I \ U PROVE U \cup {x} \in G
  <2> DEFINE V == all(U)
  <2>1. IsFiniteSet(U)
    BY FS_Subset
  <2>2. IsFiniteSet(V) /\ SumOver(z, V) = SumOver(r, U)
    BY <1>2
  <2>3. all(U \cup {x}) = V \cup part[x] /\ V \cap part[x] = {}
    OBVIOUS
  <2>4. \A k \in V \cup part[x] : z[k] \in Int
    OBVIOUS
  <2>5. x \notin U /\ IsFiniteSet(part[x]) /\ r[x] = SumOver(z, part[x]) /\ U \cup {x} \in SUBSET I
    OBVIOUS
  <2>6. \A i \in I : r[i] \in Int
    BY SumType
  <2> HIDE DEF V
  <2>7. SumOver(z, V \cup part[x]) = SumOver(z, V) + SumOver(z, part[x])
    BY <2>2, <2>3, <2>4, <2>5, SumOfUnion
  <2>8. SumOver(r, U \cup {x}) = SumOver(r, U) + r[x]
    <3>1. IsFiniteSet(U) /\ x \notin U /\ (\A i \in U : r[i] \in Int) /\ r[x] \in Int
      BY <2>1, <2>6
    <3> QED BY ONLY <3>1, SumAdds
  <2>9. IsFiniteSet(V \cup part[x])
    BY <2>2, <2>5, FS_Union
  <2>10. SumOver(z, all(U \cup {x})) = SumOver(r, U \cup {x}) /\ IsFiniteSet(all(U \cup {x}))
    BY <2>2, <2>3, <2>5, <2>7, <2>8, <2>9
  <2> HIDE DEF all
  <2> QED BY <2>5, <2>10
<1>3. I \in G
  <2> HIDE DEF G
  <2>1. \A U \in SUBSET I : U \in G => \A x \in I \ U : U \cup {x} \in G
    BY <1>2
  <2> QED BY <1>1, <2>1, SetInduction
<1> QED BY <1>3

\* What is gained from day to day is gained from the first to the last.
LEMMA SumOfSteps ==
    ASSUME NEW a \in Int, NEW b \in Int, a <= b, NEW h, NEW f, \A i \in a..b : h[i] \in Int,
           \A i \in a + 1..b : f[i] = h[i] - h[i - 1]
    PROVE  SumOver(f, a + 1..b) = h[b] - h[a]
<1> DEFINE S == a + 1..b
           Good(T) == \A n \in a..b : T = a + 1..n => SumOver(f, T) = h[n] - h[a]
           G == {T \in SUBSET S : Good(T)}
<1>1. IsFiniteSet(S)
  BY FS_Interval
<1>2. ASSUME NEW T \in SUBSET S, \A U \in SUBSET T : U # T => U \in G PROVE Good(T)
  <2> SUFFICES ASSUME NEW n \in a..b, T = a + 1..n PROVE SumOver(f, T) = h[n] - h[a]
    OBVIOUS
  <2>1. CASE n = a
    <3>1. T = {} /\ h[n] - h[a] = 0
      BY <2>1
    <3> QED BY <3>1, SumOfNone
  <2>2. CASE n # a
    <3>1. n - 1 \in a..b /\ n \in T /\ T \ {n} = a + 1..(n - 1)
      BY <2>2
    <3>2. T \ {n} \in SUBSET T /\ T \ {n} # T
      BY <3>1
    <3>3. Good(T \ {n})
      BY <1>2, <3>2
    <3>4. SumOver(f, T \ {n}) = h[n - 1] - h[a]
      BY <3>1, <3>3
    <3>5. IsFiniteSet(T) /\ \A i \in T : f[i] \in Int
      <4>1. IsFiniteSet(T)
        BY <1>1, FS_Subset
      <4>2. \A i \in T : i \in a + 1..b /\ h[i] \in Int /\ h[i - 1] \in Int
        OBVIOUS
      <4>3. \A i \in T : f[i] \in Int
        BY <4>2
      <4> QED BY <4>1, <4>3
    <3>6. SumOver(f, T) = SumOver(f, T \ {n}) + f[n]
      BY <3>1, <3>5, SumAddsAny
    <3>7. f[n] = h[n] - h[n - 1] /\ h[n] \in Int /\ h[n - 1] \in Int /\ h[a] \in Int
      BY <3>1
    <3> QED BY <3>4, <3>6, <3>7
  <2> QED BY <2>1, <2>2
<1>3. S \in G
  <2>1. \A T \in SUBSET S : (\A U \in SUBSET T : U # T => U \in G) => T \in G
    BY <1>2
  <2> HIDE DEF G, S
  <2> QED BY <1>1, <2>1, SubsetInduction
<1> QED BY <1>3

----------------------------------------------------------------------------
\* Figures by channel or by day.
Figures(f) == IsFiniteSet(DOMAIN f) /\ \A k \in DOMAIN f : Figure(f[k])

LEMMA TotalIs == \A f : Total(f) = SumOver(f, Known(f))
  BY DEF Total, SumOver

\* What is known of figures is some of them, and their total is a number.
LEMMA KnownFigures ==
    ASSUME NEW f, Figures(f)
    PROVE  /\ IsFiniteSet(Known(f)) /\ Known(f) \subseteq DOMAIN f
           /\ \A k \in Known(f) : f[k] \in Int
           /\ Cardinality(Known(f)) \in Nat /\ Cardinality(DOMAIN f) \in Nat
           /\ Cardinality(Known(f)) <= Cardinality(DOMAIN f)
           /\ (Cardinality(Known(f)) = 0) = (Known(f) = {})
           /\ (Cardinality(Known(f)) = Cardinality(DOMAIN f)) = (Known(f) = DOMAIN f)
           /\ Total(f) \in Int /\ Total(f) # NULL
<1>1. IsFiniteSet(DOMAIN f) /\ Known(f) \in SUBSET DOMAIN f
  BY DEF Figures, Known
<1>2. \A k \in Known(f) : f[k] \in Int
  BY DEF Figures, Figure, Known
<1>3. IsFiniteSet(Known(f)) /\ Cardinality(Known(f)) <= Cardinality(DOMAIN f)
  BY <1>1, FS_Subset
<1>4. Cardinality(Known(f)) = Cardinality(DOMAIN f) => Known(f) = DOMAIN f
  BY <1>1, FS_Subset
<1>5. Cardinality(Known(f)) \in Nat /\ Cardinality(DOMAIN f) \in Nat
  BY <1>1, <1>3, FS_CardinalityType
<1>6. Cardinality(Known(f)) = 0 <=> Known(f) = {}
  BY <1>3, FS_EmptySet
<1>7. Total(f) \in Int
  BY <1>2, <1>3, SumType, TotalIs
<1>8. Total(f) # NULL
  BY <1>7, FigureAssumption
<1> QED BY <1>1, <1>2, <1>3, <1>4, <1>5, <1>6, <1>7, <1>8

\* A metric observed parses, and so does the strict total beside it.
LEMMA ObservedParses ==
    ASSUME NEW f, Figures(f)
    PROVE  /\ MetricParses(Observed(f))
           /\ Observed(f).total = Cardinality(DOMAIN f)
           /\ StrictParses(Observed(f), SumComplete(f))
<1> DEFINE covered == Cardinality(Known(f))
           total == Cardinality(DOMAIN f)
           m == Observed(f)
<1>1. /\ covered \in Nat /\ total \in Nat /\ covered <= total
      /\ (covered = 0) = (Known(f) = {})
      /\ (covered = total) = (Known(f) = DOMAIN f)
      /\ Total(f) # NULL
  BY KnownFigures
<1>2. /\ m.value = (IF covered = 0 THEN NULL ELSE Total(f))
      /\ m.covered = covered /\ m.total = total
      /\ m.status = (IF covered = 0 THEN "UNAVAILABLE"
                     ELSE IF Known(f) = DOMAIN f THEN "COMPLETE" ELSE "PARTIAL")
  BY DEF Observed
<1>3. Known(f) = {} \/ DOMAIN f # {}
  BY DEF Known
<1> HIDE DEF covered, total, m
<1>4. MetricParses(m)
  BY <1>1, <1>2 DEF MetricParses
<1>5. StrictParses(m, SumComplete(f))
  BY <1>1, <1>2, <1>3 DEF StrictParses, SumComplete
<1> QED BY <1>2, <1>4, <1>5 DEF m, total

----------------------------------------------------------------------------
\* The changes of a day, of every channel, are figures; and so are those of the period.
LEMMA TrendFigures ==
    ASSUME NEW t, NEW baseline, TrendData(t, baseline)
    PROVE  /\ Figures(TotalDeltas(t, baseline))
           /\ \A d \in baseline + 1..t.today : Figures(DailyDeltas(t, d))
<1>1. IsFiniteSet(t.shown) /\ baseline \in Int /\ t.today \in Int /\ baseline < t.today
  BY DEF TrendData
<1>2. \A x, y : Figure(x) /\ Figure(y) => Figure(Gain(x, y))
  BY DEF Figure, Gain
<1>3. ASSUME NEW c \in t.shown
      PROVE  Figure(TotalDeltas(t, baseline)[c])
  <2>1. baseline \in baseline..t.today
    BY <1>1
  <2>2. Figure(t.current[c].figure) /\ Figure(CountOn(t, c, baseline))
    BY <2>1 DEF TrendData
  <2> QED BY <1>2, <2>2 DEF TotalDeltas, Figure
<1>4. ASSUME NEW d \in baseline + 1..t.today, NEW c \in t.shown
      PROVE  Figure(DailyDeltas(t, d)[c])
  <2>1. d \in baseline..t.today /\ d - 1 \in baseline..t.today
    BY <1>1
  <2>2. Figure(t.current[c].figure) /\ Figure(CountOn(t, c, d - 1)) /\ Figure(CountOn(t, c, d))
    BY <2>1 DEF TrendData
  <2>3. Figure(StoredDelta(t, c, d))
    BY <1>4, <2>2 DEF TrendData, Figure
  <2>4. Figure(Gain(t.current[c].figure, CountOn(t, c, d - 1)))
    BY <1>2, <2>2
  <2> QED BY <2>3, <2>4 DEF DailyDeltas
<1> QED BY <1>1, <1>3, <1>4 DEF Figures, TotalDeltas, DailyDeltas

\* Whatever rows and figures are missing, the trends computed (DashboardService.trends) are an
\* answer its contract takes: coverages, statuses and nulls agree, of the total and of every day.
THEOREM TrendsAlwaysParse ==
    ASSUME NEW t, NEW baseline, TrendData(t, baseline)
    PROVE  TrendsParse(Trends(t, baseline))
<1> DEFINE a == Trends(t, baseline)
           days == baseline + 1..t.today
<1>1. /\ a.total = SumComplete(TotalDeltas(t, baseline))
      /\ a.observed = Observed(TotalDeltas(t, baseline))
      /\ a.series = [d \in days |-> TrendPoint(t, d)]
      /\ a.channels = Cardinality(t.shown)
      /\ a.scanned = Cardinality({c \in t.shown : ScannedOn(t, c, t.today)})
      /\ a.current = Cardinality({c \in t.shown : HasCurrent(t, c)})
      /\ a.based = Cardinality({c \in t.shown : CountOn(t, c, baseline) # NULL})
  BY DEF Trends
<1>2. \A S \in SUBSET t.shown : Cardinality(S) <= Cardinality(t.shown)
  BY FS_Subset DEF TrendData
<1>3. \A n \in {a.scanned, a.current, a.based} : n <= a.channels
  BY <1>1, <1>2
<1>4. DOMAIN TotalDeltas(t, baseline) = t.shown /\ \A d : DOMAIN DailyDeltas(t, d) = t.shown
  BY DEF TotalDeltas, DailyDeltas
<1>5. /\ MetricParses(a.observed) /\ a.observed.total = a.channels
      /\ StrictParses(a.observed, a.total)
  BY <1>1, <1>4, TrendFigures, ObservedParses
<1>6. ASSUME NEW d \in DOMAIN a.series
      PROVE  /\ MetricParses(a.series[d].observed) /\ a.series[d].observed.total = a.channels
             /\ StrictParses(a.series[d].observed, a.series[d].delta)
  <2>1. d \in days /\ a.series[d] = TrendPoint(t, d)
    BY <1>1
  <2>2. /\ TrendPoint(t, d).observed = Observed(DailyDeltas(t, d))
        /\ TrendPoint(t, d).delta = SumComplete(DailyDeltas(t, d))
    BY DEF TrendPoint
  <2>3. Figures(DailyDeltas(t, d)) /\ DOMAIN DailyDeltas(t, d) = t.shown
    BY <1>4, <2>1, TrendFigures
  <2> QED BY <1>1, <2>1, <2>2, <2>3, ObservedParses
<1> QED BY <1>3, <1>5, <1>6 DEF TrendsParse

\* A strict sum is told when there is something and all of it is known.
LEMMA StrictSum ==
    ASSUME NEW f, Figures(f)
    PROVE  /\ SumComplete(f) # NULL <=> DOMAIN f # {} /\ \A k \in DOMAIN f : f[k] # NULL
           /\ SumComplete(f) # NULL => SumComplete(f) = SumOver(f, DOMAIN f)
<1>1. Total(f) # NULL
  BY KnownFigures
<1>2. Known(f) = DOMAIN f <=> \A k \in DOMAIN f : f[k] # NULL
  BY DEF Known
<1> QED BY <1>1, <1>2, TotalIs DEF SumComplete

\* The total of a period is the sum of its days whenever both are told.
LEMMA DaysMakeTheTotal ==
    ASSUME NEW t, NEW baseline, TrendData(t, baseline),
           SumComplete(TotalDeltas(t, baseline)) # NULL,
           \A d \in baseline + 1..t.today : SumComplete(DailyDeltas(t, d)) # NULL,
           NEW days, \A d \in baseline + 1..t.today : days[d] = SumComplete(DailyDeltas(t, d))
    PROVE  SumOver(days, baseline + 1..t.today) = SumComplete(TotalDeltas(t, baseline))
<1> DEFINE count(d) == [c \in t.shown |-> CountOn(t, c, d)]
           now == [c \in t.shown |-> t.current[c].figure]
           last == t.today - 1
           h == [d \in baseline..t.today |->
                   IF d = t.today THEN SumOver(now, t.shown) ELSE SumOver(count(d), t.shown)]
<1>1. /\ IsFiniteSet(t.shown) /\ baseline \in Int /\ t.today \in Int /\ baseline < t.today
      /\ last \in baseline..t.today /\ baseline \in baseline..t.today
  BY DEF TrendData
<1>2. DOMAIN TotalDeltas(t, baseline) = t.shown /\ \A d : DOMAIN DailyDeltas(t, d) = t.shown
  BY DEF TotalDeltas, DailyDeltas
\* Every channel was scanned today, and its figure is known, as it was at the baseline.
<1>3. ASSUME NEW c \in t.shown
      PROVE  /\ ScannedOn(t, c, t.today) /\ now[c] \in Int /\ count(baseline)[c] \in Int
             /\ TotalDeltas(t, baseline)[c] = now[c] - count(baseline)[c]
  <2>1. TotalDeltas(t, baseline)[c] # NULL
    BY <1>2, TrendFigures, StrictSum
  <2>2. /\ ScannedOn(t, c, t.today) /\ t.current[c].figure # NULL /\ CountOn(t, c, baseline) # NULL
        /\ TotalDeltas(t, baseline)[c] = t.current[c].figure - CountOn(t, c, baseline)
    BY <2>1 DEF TotalDeltas, Gain
  <2>3. Figure(t.current[c].figure) /\ Figure(CountOn(t, c, baseline))
    BY <1>1 DEF TrendData
  <2> QED BY <2>2, <2>3 DEF Figure
\* And so were those of every day of the period before today.
<1>4. ASSUME NEW d \in baseline + 1..t.today, NEW c \in t.shown
      PROVE  /\ count(d - 1)[c] \in Int
             /\ d = t.today => DailyDeltas(t, d)[c] = now[c] - count(d - 1)[c]
             /\ d # t.today => /\ count(d)[c] \in Int
                               /\ DailyDeltas(t, d)[c] = count(d)[c] - count(d - 1)[c]
  <2>1. DailyDeltas(t, d)[c] # NULL
    BY <1>2, TrendFigures, StrictSum
  <2>2. d \in baseline..t.today /\ d - 1 \in baseline..t.today
    BY <1>1
  <2>3. Figure(CountOn(t, c, d)) /\ Figure(CountOn(t, c, d - 1))
    BY <2>2 DEF TrendData
  <2>4. CASE d = t.today
    <3>1. /\ DailyDeltas(t, d)[c] = Gain(t.current[c].figure, CountOn(t, c, d - 1))
      BY <1>3, <2>4 DEF DailyDeltas
    <3>2. CountOn(t, c, d - 1) # NULL /\ DailyDeltas(t, d)[c] = t.current[c].figure - CountOn(t, c, d - 1)
      BY <2>1, <3>1 DEF Gain
    <3> QED BY <2>3, <2>4, <3>2 DEF Figure
  <2>5. CASE d # t.today
    <3>1. StoredDelta(t, c, d) # NULL /\ DailyDeltas(t, d)[c] = StoredDelta(t, c, d)
      BY <2>1, <2>5 DEF DailyDeltas
    <3>2. /\ CountOn(t, c, d) # NULL /\ CountOn(t, c, d - 1) # NULL
          /\ StoredDelta(t, c, d) = CountOn(t, c, d) - CountOn(t, c, d - 1)
      BY <3>1 DEF TrendData
    <3> QED BY <2>3, <2>5, <3>1, <3>2 DEF Figure
  <2> QED BY <2>4, <2>5
<1>5. \A d \in baseline..last, c \in t.shown : count(d)[c] \in Int
  <2>1. ASSUME NEW d \in baseline..last PROVE d + 1 \in baseline + 1..t.today /\ (d + 1) - 1 = d
    BY <1>1
  <2> HIDE DEF count
  <2> QED BY <1>4, <2>1
<1>6. \A d \in baseline..t.today : h[d] \in Int
  <2>1. ASSUME NEW d \in baseline..t.today, d # t.today PROVE SumOver(count(d), t.shown) \in Int
    <3>1. d \in baseline..last
      BY <1>1, <2>1
    <3> HIDE DEF count
    <3> QED BY <1>1, <1>5, <3>1, SumType
  <2>2. SumOver(now, t.shown) \in Int
    <3> HIDE DEF now
    <3> QED BY <1>1, <1>3, SumType
  <2> QED BY <2>1, <2>2
<1>7. ASSUME NEW d \in baseline + 1..t.today PROVE days[d] = h[d] - h[d - 1]
  <2>1. days[d] = SumOver(DailyDeltas(t, d), t.shown)
    BY <1>2, TrendFigures, StrictSum
  <2>2. d - 1 \in baseline..t.today /\ d - 1 # t.today /\ d \in baseline..t.today
    BY <1>1
  <2>3. h[d - 1] = SumOver(count(d - 1), t.shown)
    BY <2>2
  <2>4. CASE d = t.today
    <3>1. h[d] = SumOver(now, t.shown)
      BY <2>4, <2>2
    <3>2. SumOver(DailyDeltas(t, d), t.shown) = SumOver(now, t.shown) - SumOver(count(d - 1), t.shown)
      <4> HIDE DEF now, count
      <4>1. \A c \in t.shown : /\ now[c] \in Int /\ count(d - 1)[c] \in Int
                               /\ DailyDeltas(t, d)[c] = now[c] - count(d - 1)[c]
        BY <1>3, <1>4, <2>4
      <4> QED BY <1>1, <4>1, SumOfDifferences
    <3> QED BY <2>1, <2>3, <3>1, <3>2
  <2>5. CASE d # t.today
    <3>1. h[d] = SumOver(count(d), t.shown)
      BY <2>5, <2>2
    <3>2. SumOver(DailyDeltas(t, d), t.shown) = SumOver(count(d), t.shown) - SumOver(count(d - 1), t.shown)
      <4> HIDE DEF count
      <4>1. \A c \in t.shown : /\ count(d)[c] \in Int /\ count(d - 1)[c] \in Int
                               /\ DailyDeltas(t, d)[c] = count(d)[c] - count(d - 1)[c]
        BY <1>4, <2>5
      <4> QED BY <1>1, <4>1, SumOfDifferences
    <3> QED BY <2>1, <2>3, <3>1, <3>2
  <2> QED BY <2>4, <2>5
<1>8. SumOver(days, baseline + 1..t.today) = h[t.today] - h[baseline]
  <2> DEFINE end == t.today
  <2>1. baseline \in Int /\ end \in Int /\ baseline <= end
    BY <1>1
  <2>2. (\A d \in baseline..end : h[d] \in Int) /\ \A d \in baseline + 1..end : days[d] = h[d] - h[d - 1]
    BY <1>6, <1>7
  <2> HIDE DEF h, end
  <2>3. SumOver(days, baseline + 1..end) = h[end] - h[baseline]
    BY ONLY <2>1, <2>2, SumOfSteps, ZenonT(40)
  <2> QED BY <2>3 DEF end
<1>9. SumOver(TotalDeltas(t, baseline), t.shown) = SumOver(now, t.shown) - SumOver(count(baseline), t.shown)
  <2> HIDE DEF now, count
  <2> QED BY <1>1, <1>3, SumOfDifferences
<1>10. SumComplete(TotalDeltas(t, baseline)) = SumOver(TotalDeltas(t, baseline), t.shown)
  BY <1>2, TrendFigures, StrictSum
<1>11. h[t.today] = SumOver(now, t.shown) /\ h[baseline] = SumOver(count(baseline), t.shown)
  BY <1>1
<1> QED BY <1>8, <1>9, <1>10, <1>11

\* When every channel has its baseline, every day is complete and every change before today
\* is on record, the total and all its days are told.
LEMMA WholePeriodIsTold ==
    ASSUME NEW t, NEW baseline, TrendData(t, baseline), t.shown # {},
           \A c \in t.shown : CountOn(t, c, baseline) # NULL,
           \A d \in baseline + 1..t.today : CompleteDay(t, d),
           \A c \in t.shown, d \in baseline + 1..t.today - 1 : StoredDelta(t, c, d) # NULL
    PROVE  /\ SumComplete(TotalDeltas(t, baseline)) # NULL
           /\ \A d \in baseline + 1..t.today : SumComplete(DailyDeltas(t, d)) # NULL
<1>1. /\ IsFiniteSet(t.shown) /\ baseline \in Int /\ t.today \in Int /\ baseline < t.today
      /\ baseline \in baseline..t.today /\ t.today \in baseline + 1..t.today
  BY DEF TrendData
<1>2. DOMAIN TotalDeltas(t, baseline) = t.shown /\ \A d : DOMAIN DailyDeltas(t, d) = t.shown
  BY DEF TotalDeltas, DailyDeltas
<1>3. ASSUME NEW x, NEW y, Figure(x), Figure(y), x # NULL, y # NULL
      PROVE  Gain(x, y) # NULL
  BY <1>3, FigureAssumption DEF Figure, Gain
<1>4. ASSUME NEW c \in t.shown
      PROVE  ScannedOn(t, c, t.today) /\ t.current[c].figure # NULL /\ Figure(t.current[c].figure)
  BY <1>1 DEF CompleteDay, HasCurrent, TrendData
<1>5. ASSUME NEW c \in t.shown PROVE TotalDeltas(t, baseline)[c] # NULL
  <2>1. Figure(CountOn(t, c, baseline)) /\ CountOn(t, c, baseline) # NULL
    BY <1>1 DEF TrendData
  <2> QED BY <1>3, <1>4, <2>1 DEF TotalDeltas
<1>6. ASSUME NEW d \in baseline + 1..t.today, NEW c \in t.shown PROVE DailyDeltas(t, d)[c] # NULL
  <2>1. CASE d # t.today
    <3>1. d \in baseline + 1..t.today - 1
      BY <1>1, <2>1
    <3>2. StoredDelta(t, c, d) # NULL
      BY <3>1
    <3> QED BY <2>1, <3>2 DEF DailyDeltas
  <2>2. CASE d = t.today
    <3>1. d - 1 \in baseline..t.today /\ (d - 1 = baseline \/ d - 1 \in baseline + 1..t.today) /\ d - 1 # t.today
      BY <1>1
    <3>2. CountOn(t, c, d - 1) # NULL
      <4>1. d - 1 = baseline \/ WholeOn(t, c, d - 1)
        BY <3>1 DEF CompleteDay
      <4> QED BY <3>1, <4>1 DEF TrendData
    <3>3. Figure(CountOn(t, c, d - 1))
      BY <3>1 DEF TrendData
    <3> QED BY <1>3, <1>4, <2>2, <3>2, <3>3 DEF DailyDeltas
  <2> QED BY <2>1, <2>2
<1> QED BY <1>2, <1>5, <1>6, <1>1, TrendFigures, StrictSum

\* What the dashboard says of a period is what its days say, channel by channel and day by
\* day, whichever of the two it was computed from (totalDeltaValues, dailyDeltaValues).
THEOREM TrendsAlwaysAddUp ==
    ASSUME NEW t, NEW baseline, TrendData(t, baseline)
    PROVE  TrendsAddUp(t, baseline, Trends(t, baseline))
<1> DEFINE a == Trends(t, baseline)
           span == baseline + 1..t.today
           days == [d \in span |-> SumComplete(DailyDeltas(t, d))]
           complete == {d \in span : CompleteDay(t, d)}
           based == {c \in t.shown : CountOn(t, c, baseline) # NULL}
<1>1. /\ a.total = SumComplete(TotalDeltas(t, baseline)) /\ DOMAIN a.series = span
      /\ a.based = Cardinality(based) /\ a.channels = Cardinality(t.shown)
      /\ a.completeDays = Cardinality(complete)
      /\ \A d \in span : a.series[d] = TrendPoint(t, d)
  BY DEF Trends
<1>2. [d \in DOMAIN a.series |-> a.series[d].delta] = days
  <2>1. \A d \in span : TrendPoint(t, d).delta = SumComplete(DailyDeltas(t, d))
    BY DEF TrendPoint
  <2> HIDE DEF a
  <2> QED BY <1>1, <2>1
<1>3. DOMAIN days = span /\ \A d \in span : days[d] = SumComplete(DailyDeltas(t, d))
  OBVIOUS
<1> HIDE DEF a, days
<1>4. ASSUME a.total # NULL, Known(days) = DOMAIN days
      PROVE  a.total = Total(days)
  <2>1. \A d \in span : SumComplete(DailyDeltas(t, d)) # NULL
    BY <1>3, <1>4 DEF Known
  <2>2. SumOver(days, span) = a.total
    BY <1>1, <1>3, <1>4, <2>1, DaysMakeTheTotal
  <2>3. Total(days) = SumOver(days, span)
    BY <1>3, <1>4, TotalIs
  <2> QED BY <2>2, <2>3
<1>5. ASSUME t.shown # {}, a.based = a.channels, a.completeDays = Cardinality(DOMAIN a.series),
             \A c \in t.shown, d \in baseline + 1..t.today - 1 : StoredDelta(t, c, d) # NULL
      PROVE  a.total # NULL /\ Known(days) = DOMAIN days
  <2>1. based = t.shown
    <3>1. based \in SUBSET t.shown /\ IsFiniteSet(t.shown)
      BY DEF TrendData
    <3> HIDE DEF based
    <3> QED BY <1>1, <1>5, <3>1, FS_Subset
  <2>2. complete = span
    <3>1. complete \in SUBSET span /\ IsFiniteSet(span)
      BY FS_Interval DEF TrendData
    <3> HIDE DEF complete, span
    <3> QED BY <1>1, <1>5, <3>1, FS_Subset
  <2>3. (\A c \in t.shown : CountOn(t, c, baseline) # NULL) /\ \A d \in span : CompleteDay(t, d)
    BY <2>1, <2>2
  <2>4. /\ SumComplete(TotalDeltas(t, baseline)) # NULL
        /\ \A d \in span : SumComplete(DailyDeltas(t, d)) # NULL
    BY <1>5, <2>3, WholePeriodIsTold
  <2> QED BY <1>1, <1>3, <2>4 DEF Known
<1>6. TrendsAddUp(t, baseline, a)
  BY <1>2, <1>4, <1>5 DEF TrendsAddUp
<1> QED BY <1>6 DEF a

----------------------------------------------------------------------------
\* A finite set of numbers has a greatest one.
LEMMA GreatestMember ==
    ASSUME NEW S, S \subseteq Int, IsFiniteSet(S), S # {}
    PROVE  \E x \in S : \A y \in S : y <= x
<1> DEFINE above(x) == {y \in S : x <= y}
           F == {above(x) : x \in S}
<1>1. F \subseteq FiniteSubsetsOf(S)
  <2>1. ASSUME NEW x \in S PROVE above(x) \in SUBSET S /\ IsFiniteSet(above(x))
    <3>1. above(x) \in SUBSET S
      OBVIOUS
    <3> QED BY <3>1, FS_Subset
  <2> QED BY <2>1 DEF FiniteSubsetsOf
<1>2. F # {}
  OBVIOUS
<1>3. PICK U \in F : \A V \in F : ~(<<V, U>> \in StrictSubsetOrdering(S))
  BY <1>1, <1>2, FS_StrictSubsetOrderingWellFounded, WFMin
<1>4. PICK x \in S : U = above(x)
  BY <1>3
<1>5. ASSUME NEW y \in S PROVE y <= x
  <2>1. SUFFICES ASSUME x < y PROVE FALSE
    OBVIOUS
  <2>2. above(y) \subseteq above(x) /\ x \in above(x) /\ x \notin above(y)
    <3>1. x \in Int /\ y \in Int /\ \A z \in S : z \in Int
      OBVIOUS
    <3>2. ASSUME NEW z \in above(y) PROVE z \in above(x)
      BY <2>1, <3>1
    <3>3. x <= x /\ ~(y <= x)
      BY <2>1, <3>1
    <3> QED BY <3>2, <3>3, Zenon
  <2>3. <<above(y), above(x)>> \in StrictSubsetOrdering(S)
    BY <2>2 DEF StrictSubsetOrdering
  <2> QED BY <1>3, <1>4, <2>3
<1> QED BY <1>5

----------------------------------------------------------------------------
\* The figures f are those of the parts I: figure c of part i, g[i][c], is figure p[i][c].
PartsOf(f, I, g, p) ==
    /\ \A i \in I : Figures(g[i])
    /\ \A i \in I : \A c, d \in DOMAIN g[i] : p[i][c] = p[i][d] => c = d
    /\ \A i, j \in I : \A c \in DOMAIN g[i], d \in DOMAIN g[j] : p[i][c] = p[j][d] => i = j
    /\ \A i \in I : \A c \in DOMAIN g[i] : p[i][c] \in DOMAIN f /\ f[p[i][c]] = g[i][c]
    /\ \A k \in DOMAIN f : \E i \in I : \E c \in DOMAIN g[i] : k = p[i][c]

\* What is observed of each part adds up to what is observed of the whole.
LEMMA ObservedAddsUp ==
    ASSUME NEW f, Figures(f), NEW I, IsFiniteSet(I), NEW g, NEW p, PartsOf(f, I, g, p),
           NEW values, DOMAIN values = I, \A i \in I : values[i] = Observed(g[i]).value
    PROVE  Total(values) = Total(f)
<1> DEFINE sums == [i \in I |-> Total(g[i])]
           part == [i \in I |-> {p[i][c] : c \in Known(g[i])}]
<1> USE DEF PartsOf
<1>1. ASSUME NEW i \in I
      PROVE  /\ values[i] = IF Known(g[i]) = {} THEN NULL ELSE Total(g[i])
             /\ Known(g[i]) = {} => Total(g[i]) = 0
             /\ Total(g[i]) \in Int /\ Total(g[i]) # NULL
  <2>1. Figures(g[i])
    OBVIOUS
  <2>2. (Cardinality(Known(g[i])) = 0) = (Known(g[i]) = {}) /\ Total(g[i]) \in Int /\ Total(g[i]) # NULL
    BY <2>1, KnownFigures
  <2>3. Observed(g[i]).value = IF Cardinality(Known(g[i])) = 0 THEN NULL ELSE Total(g[i])
    BY DEF Observed
  <2>4. Known(g[i]) = {} => Total(g[i]) = 0
    BY TotalIs, SumOfNone
  <2> QED BY <2>2, <2>3, <2>4
<1>2. Total(values) = SumOver(sums, I)
  <2> DEFINE T == Known(values)
  <2>1. T \in SUBSET I
    BY DEF Known
  <2>2. \A i \in T : values[i] \in Int /\ values[i] = sums[i]
    BY <1>1 DEF Known
  <2>3. \A i \in I \ T : sums[i] = 0
    BY <1>1 DEF Known
  <2>4. Total(values) = SumOver(values, T)
    BY TotalIs
  <2> HIDE DEF T, sums
  <2>5. SumOver(values, T) = SumOver(sums, I)
    BY ONLY IsFiniteSet(I), <2>1, <2>2, <2>3, SumSame
  <2> QED BY <2>4, <2>5
<1>3. ASSUME NEW i \in I
      PROVE  IsFiniteSet(part[i]) /\ sums[i] = SumOver(f, part[i]) /\ \A k \in part[i] : f[k] \in Int
  <2> DEFINE K == Known(g[i])
             q == p[i]
             y == g[i]
  <2>1. IsFiniteSet(K) /\ K \subseteq DOMAIN g[i] /\ \A c \in K : g[i][c] \in Int
    BY KnownFigures
  <2>2. \A c, d \in K : q[c] = q[d] => c = d
    BY <2>1
  <2>3. \A c \in K : f[q[c]] \in Int /\ y[c] = f[q[c]]
    BY <2>1
  <2>4. sums[i] = SumOver(y, K) /\ part[i] = {q[c] : c \in K}
    BY TotalIs
  <2>5. part[i] \in SUBSET DOMAIN f
    BY <2>1
  <2>6. IsFiniteSet(part[i])
    <3> HIDE DEF part
    <3> QED BY <2>5, FS_Subset DEF Figures
  <2> HIDE DEF K, q, y, part, sums
  <2>7. SumOver(y, K) = SumOver(f, {q[c] : c \in K})
    BY ONLY <2>1, <2>2, <2>3, SumRenamed
  <2> QED BY <2>3, <2>4, <2>6, <2>7
<1>4. UNION {part[i] : i \in I} = Known(f)
  <2>1. ASSUME NEW k \in Known(f) PROVE k \in UNION {part[i] : i \in I}
    <3>1. k \in DOMAIN f /\ f[k] # NULL
      BY DEF Known
    <3>2. PICK i \in I : \E c \in DOMAIN g[i] : k = p[i][c]
      BY <3>1
    <3>3. PICK c \in DOMAIN g[i] : k = p[i][c]
      BY <3>2
    <3>4. c \in Known(g[i])
      BY <3>1, <3>3 DEF Known
    <3> QED BY <3>3, <3>4
  <2>2. ASSUME NEW i \in I, NEW c \in Known(g[i]) PROVE p[i][c] \in Known(f)
    BY DEF Known
  <2> QED BY <2>1, <2>2
<1>5. \A i, j \in I : i # j => part[i] \cap part[j] = {}
  BY DEF Known
<1>6. SumOver(f, UNION {part[i] : i \in I}) = SumOver(sums, I)
  <2> HIDE DEF part, sums
  <2> QED BY ONLY IsFiniteSet(I), <1>3, <1>5, SumOfParts, ZenonT(40)
<1> QED BY <1>2, <1>4, <1>6, TotalIs

----------------------------------------------------------------------------
\* The tables of the revenue: finitely many channels and settings; a channel that is paid
\* has its price, and a change is a number where it is known.
RevenueData(t, first) ==
    /\ IsFiniteSet(t.shown) /\ first \in Int /\ t.today \in Int
    /\ \A c \in t.shown :
         /\ IsFiniteSet(DOMAIN t.setting[c]) /\ DOMAIN t.setting[c] \subseteq Int
         /\ \A e \in DOMAIN t.setting[c] : t.setting[c][e] # NULL =>
               /\ t.setting[c][e].monetized \in BOOLEAN
               /\ t.setting[c][e].monetized => t.setting[c][e].rpm \in Int
         /\ \A d \in first..t.today : Figure(StoredDelta(t, c, d))

\* The setting in force is one that has taken effect, and there is none only when none has.
LEMMA SettingInForce ==
    ASSUME NEW t, NEW first, RevenueData(t, first), NEW c \in t.shown, NEW d \in Int
    PROVE  /\ EffectiveSetting(t, c, d) = NULL
                <=> \A e \in DOMAIN t.setting[c] : e <= d => t.setting[c][e] = NULL
           /\ EffectiveSetting(t, c, d) # NULL =>
                /\ EffectiveSetting(t, c, d).monetized \in BOOLEAN
                /\ EffectiveSetting(t, c, d).monetized => EffectiveSetting(t, c, d).rpm \in Int
<1> DEFINE past == {e \in DOMAIN t.setting[c] : e <= d /\ t.setting[c][e] # NULL}
<1>1. past \in SUBSET DOMAIN t.setting[c]
  OBVIOUS
<1>2. IsFiniteSet(past) /\ past \subseteq Int
  BY <1>1, FS_Subset DEF RevenueData
<1>3. EffectiveSetting(t, c, d) = IF past = {} THEN NULL ELSE t.setting[c][Max(past)]
  BY DEF EffectiveSetting
<1>4. ASSUME past # {} PROVE Max(past) \in past
  <2>1. \E x \in past : \A y \in past : y <= x
    BY <1>2, <1>4, GreatestMember
  <2>2. \E x \in past : \A y \in past : x >= y
    BY <1>2, <2>1
  <2> HIDE DEF past
  <2> QED BY <2>2 DEF Max
<1>5. past = {} <=> \A e \in DOMAIN t.setting[c] : e <= d => t.setting[c][e] = NULL
  OBVIOUS
<1>6. ASSUME past # {}
      PROVE  LET m == t.setting[c][Max(past)]
             IN  m # NULL /\ m.monetized \in BOOLEAN /\ (m.monetized => m.rpm \in Int)
  <2>1. Max(past) \in DOMAIN t.setting[c] /\ t.setting[c][Max(past)] # NULL
    BY <1>4, <1>6
  <2> HIDE DEF past
  <2> QED BY <2>1 DEF RevenueData
<1> HIDE DEF past
<1> QED BY <1>3, <1>5, <1>6

\* A quotient rounded is a number.
LEMMA RoundedType ==
    ASSUME NEW n \in Int, NEW d \in Nat \ {0}
    PROVE  RoundedQuotient(n, d) \in Int
<1> DEFINE size == IF n < 0 THEN -n ELSE n
<1>1. size \in Int
  OBVIOUS
<1> HIDE DEF size
<1>2. size \div d \in Int
  BY <1>1
<1> DEFINE q == size \div d
<1>3. q \in Int
  BY <1>2
<1>4. RoundedQuotient(n, d) \in {q, q + 1, -q, -(q + 1), q + 0, -(q + 0)}
  BY DEF RoundedQuotient, size
<1> HIDE DEF q
<1> QED BY <1>3, <1>4

LEMMA RevenueFigure ==
    ASSUME NEW t, NEW first, RevenueData(t, first), NEW c \in t.shown, NEW d \in first..t.today
    PROVE  Figure(RevenueOn(t, c, d))
<1> DEFINE m == EffectiveSetting(t, c, d)
           delta == StoredDelta(t, c, d)
<1>1. d \in Int /\ Figure(delta)
  BY DEF RevenueData
<1>2. m # NULL => m.monetized \in BOOLEAN /\ (m.monetized => m.rpm \in Int)
  BY <1>1, SettingInForce
<1>3. RevenueOn(t, c, d) = RevenueForDay(delta, m)
  BY DEF RevenueOn, SettingOn
<1> HIDE DEF m, delta
<1>4. ASSUME m # NULL, m.monetized, delta # NULL
      PROVE  RoundedQuotient(delta * m.rpm, RpmUnit) \in Int
  <2>1. delta \in Int /\ m.rpm \in Int
    BY <1>1, <1>2, <1>4 DEF Figure
  <2>2. \A x, y \in Int : x * y \in Int
    OBVIOUS
  <2>3. delta * m.rpm \in Int
    BY <2>1, <2>2
  <2> QED BY <2>3, RoundedType, RpmUnitAssumption
<1> QED BY <1>3, <1>4 DEF RevenueForDay, Figure

\* The estimates of a channel, of a day and of the period are figures.
LEMMA RevenueFigures ==
    ASSUME NEW t, NEW first, RevenueData(t, first)
    PROVE  /\ IsFiniteSet(t.shown) /\ IsFiniteSet(first..t.today)
           /\ Figures([k \in t.shown \X (first..t.today) |-> RevenueOn(t, k[1], k[2])])
           /\ \A d \in first..t.today : Figures([c \in t.shown |-> RevenueOn(t, c, d)])
           /\ \A c \in t.shown : Figures([d \in first..t.today |-> RevenueOn(t, c, d)])
<1>1. IsFiniteSet(t.shown) /\ IsFiniteSet(first..t.today)
  BY FS_Interval DEF RevenueData
<1>2. IsFiniteSet(t.shown \X (first..t.today))
  BY <1>1, FS_Product
<1>3. \A k \in t.shown \X (first..t.today) : Figure(RevenueOn(t, k[1], k[2]))
  BY RevenueFigure
<1>4. Figures([k \in t.shown \X (first..t.today) |-> RevenueOn(t, k[1], k[2])])
  BY <1>2, <1>3 DEF Figures
<1>5. ASSUME NEW d \in first..t.today PROVE Figures([c \in t.shown |-> RevenueOn(t, c, d)])
  BY <1>1, RevenueFigure DEF Figures
<1>6. ASSUME NEW c \in t.shown PROVE Figures([d \in first..t.today |-> RevenueOn(t, c, d)])
  BY <1>1, RevenueFigure DEF Figures
<1> QED BY <1>1, <1>4, <1>5, <1>6

\* Whatever settings and changes are missing, the revenue computed (DashboardService.revenue) is
\* an answer its contract takes.
THEOREM RevenueAlwaysParses ==
    ASSUME NEW t, NEW first, RevenueData(t, first)
    PROVE  RevenueParses(Revenue(t, first))
<1> DEFINE a == Revenue(t, first)
           days == first..t.today
           f == [k \in t.shown \X days |-> RevenueOn(t, k[1], k[2])]
           byDay(d) == [c \in t.shown |-> RevenueOn(t, c, d)]
           byChannel(c) == [d \in days |-> RevenueOn(t, c, d)]
           latest == [c \in t.shown |-> EffectiveSetting(t, c, t.today)]
           paid == {c \in Known(latest) : latest[c].monetized}
<1>1. /\ a.metric = Observed(f)
      /\ a.series = [d \in days |-> Observed(byDay(d))]
      /\ a.channels = [c \in t.shown |-> ChannelRevenue(t, c, days)]
      /\ a.configured = Cardinality(Known(latest)) /\ a.monetized = Cardinality(paid)
  BY DEF Revenue
<1>2. /\ IsFiniteSet(t.shown) /\ IsFiniteSet(days) /\ Figures(f)
      /\ \A d \in days : Figures(byDay(d))
      /\ \A c \in t.shown : Figures(byChannel(c))
  BY RevenueFigures
<1>3. /\ DOMAIN a.series = days /\ DOMAIN a.channels = t.shown
      /\ \A d \in days : a.series[d] = Observed(byDay(d))
      /\ \A c \in t.shown : a.channels[c] = ChannelRevenue(t, c, days)
  <2> HIDE DEF a, byDay, days
  <2> QED BY <1>1
<1>4. MetricParses(a.metric) /\ a.metric.total = Cardinality(DOMAIN a.channels) * Cardinality(DOMAIN a.series)
  <2>1. a.metric.total = Cardinality(DOMAIN f) /\ DOMAIN f = t.shown \X days /\ MetricParses(Observed(f))
    BY <1>1, <1>2, ObservedParses
  <2> HIDE DEF a, f, days
  <2>2. Cardinality(t.shown \X days) = Cardinality(t.shown) * Cardinality(days)
    BY <1>2, FS_Product
  <2> QED BY <1>1, <1>3, <2>1, <2>2
<1>5. \A d \in DOMAIN a.series : MetricParses(a.series[d])
  <2> HIDE DEF a, byDay, days
  <2> QED BY <1>2, <1>3, ObservedParses
<1>6. ASSUME NEW c \in DOMAIN a.channels PROVE ChannelParses(a.channels[c])
  <2> DEFINE m == EffectiveSetting(t, c, t.today)
             r == ChannelRevenue(t, c, days)
  <2>1. c \in t.shown /\ a.channels[c] = r
    BY <1>3
  <2>2. /\ r.metric = Observed(byChannel(c))
        /\ r.status = (IF m = NULL THEN "UNCONFIGURED" ELSE IF m.monetized THEN "ENABLED" ELSE "DISABLED")
        /\ r.rpm = (IF m # NULL /\ m.monetized THEN m.rpm ELSE NULL)
    BY DEF ChannelRevenue
  <2>3. MetricParses(r.metric)
    BY <1>2, <2>1, <2>2, ObservedParses
  <2>4. t.today \in Int /\ (m # NULL => m.monetized \in BOOLEAN /\ (m.monetized => m.rpm \in Int))
    BY <2>1, SettingInForce DEF RevenueData
  <2>5. (r.status = "ENABLED") <=> (r.rpm # NULL)
    <3> HIDE DEF m, r
    <3> QED BY <2>2, <2>4, FigureAssumption
  <2>6. ASSUME r.status = "UNCONFIGURED" PROVE r.metric.status = "UNAVAILABLE"
    <3>1. m = NULL
      <4> HIDE DEF m, r
      <4> QED BY <2>2, <2>6
    <3>2. \A e \in DOMAIN t.setting[c] : e <= t.today => t.setting[c][e] = NULL
      BY <2>1, <2>4, <3>1, SettingInForce
    <3>3. ASSUME NEW d \in days PROVE RevenueOn(t, c, d) = NULL
      <4>1. d \in Int /\ d <= t.today
        BY <2>4 DEF RevenueData
      <4>2. \A e \in DOMAIN t.setting[c] : e \in Int
        BY <2>1 DEF RevenueData
      <4>3. \A e \in DOMAIN t.setting[c] : e <= d => t.setting[c][e] = NULL
        BY <2>4, <3>2, <4>1, <4>2
      <4>4. EffectiveSetting(t, c, d) = NULL
        BY <2>1, <4>1, <4>3, SettingInForce
      <4> QED BY <4>4 DEF RevenueOn, SettingOn, RevenueForDay
    <3>4. Known(byChannel(c)) = {}
      BY <3>3 DEF Known
    <3>5. Observed(byChannel(c)).status = "UNAVAILABLE"
      BY <3>4, FS_EmptySet DEF Observed
    <3> QED BY <2>2, <3>5
  <2> HIDE DEF r
  <2> QED BY <2>1, <2>3, <2>5, <2>6 DEF ChannelParses
<1>7. a.monetized <= a.configured /\ a.configured <= Cardinality(DOMAIN a.channels)
  <2>1. Known(latest) \in SUBSET t.shown /\ paid \in SUBSET Known(latest)
    BY DEF Known
  <2> HIDE DEF paid, latest, a
  <2>2. IsFiniteSet(Known(latest)) /\ Cardinality(Known(latest)) <= Cardinality(t.shown)
    BY <1>2, <2>1, FS_Subset
  <2>3. Cardinality(paid) <= Cardinality(Known(latest))
    BY <2>1, <2>2, FS_Subset
  <2> QED BY <1>1, <1>3, <2>2, <2>3
<1> HIDE DEF a
<1>8. RevenueParses(a)
  BY <1>4, <1>5, <1>6, <1>7 DEF RevenueParses
<1> QED BY <1>8 DEF a

\* Day by day or channel by channel, the estimates of a period add up to its own, and no day
\* is paid before a setting took effect (revenueForDay, revenueCoverage).
THEOREM RevenueAlwaysAddsUp ==
    ASSUME NEW t, NEW first, RevenueData(t, first)
    PROVE  RevenueAddsUp(t, Revenue(t, first))
<1> DEFINE a == Revenue(t, first)
           span == first..t.today
           f == [k \in t.shown \X span |-> RevenueOn(t, k[1], k[2])]
           byDay == [d \in span |-> [c \in t.shown |-> RevenueOn(t, c, d)]]
           byChannel == [c \in t.shown |-> [d \in span |-> RevenueOn(t, c, d)]]
           days == [d \in DOMAIN a.series |-> a.series[d].value]
           channels == [c \in DOMAIN a.channels |-> a.channels[c].metric.value]
           whole == IF a.metric.value = NULL THEN 0 ELSE a.metric.value
<1>1. /\ IsFiniteSet(t.shown) /\ IsFiniteSet(span) /\ Figures(f)
      /\ \A d \in span : Figures(byDay[d])
      /\ \A c \in t.shown : Figures(byChannel[c])
  BY RevenueFigures
<1>2. /\ a.metric = Observed(f)
      /\ a.series = [d \in span |-> Observed(byDay[d])]
      /\ a.channels = [c \in t.shown |-> ChannelRevenue(t, c, span)]
      /\ \A c \in t.shown : ChannelRevenue(t, c, span).metric = Observed(byChannel[c])
  BY DEF Revenue, ChannelRevenue
<1>3. /\ DOMAIN a.series = span /\ \A d \in span : a.series[d] = Observed(byDay[d])
      /\ DOMAIN a.channels = t.shown /\ \A c \in t.shown : a.channels[c].metric = Observed(byChannel[c])
  <2> HIDE DEF a, byDay, byChannel, span
  <2> QED BY <1>2
<1>4. /\ DOMAIN days = span /\ \A d \in span : days[d] = Observed(byDay[d]).value
      /\ DOMAIN channels = t.shown /\ \A c \in t.shown : channels[c] = Observed(byChannel[c]).value
  <2> HIDE DEF a, byDay, byChannel, span
  <2> QED BY <1>3
<1>5. whole = Total(f)
  <2>1. Observed(f).value = IF Cardinality(Known(f)) = 0 THEN NULL ELSE Total(f)
    BY DEF Observed
  <2>2. (Cardinality(Known(f)) = 0) = (Known(f) = {}) /\ Total(f) # NULL
    BY <1>1, KnownFigures
  <2>3. Known(f) = {} => Total(f) = 0
    BY TotalIs, SumOfNone
  <2> HIDE DEF f, a
  <2> QED BY <1>2, <2>1, <2>2, <2>3
<1>6. Total(days) = Total(f)
  <2> DEFINE p == [d \in span |-> [c \in t.shown |-> <<c, d>>]]
  <2>1. /\ \A d \in span : \A b, c \in DOMAIN byDay[d] : p[d][b] = p[d][c] => b = c
        /\ \A d, e \in span : \A b \in DOMAIN byDay[d], c \in DOMAIN byDay[e] : p[d][b] = p[e][c] => d = e
        /\ \A d \in span : \A c \in DOMAIN byDay[d] : p[d][c] \in DOMAIN f /\ f[p[d][c]] = byDay[d][c]
        /\ \A k \in DOMAIN f : \E d \in span : \E c \in DOMAIN byDay[d] : k = p[d][c]
    <3> HIDE DEF span
    <3> QED OBVIOUS
  <2> HIDE DEF f, p, byDay, span, days
  <2>2. PartsOf(f, span, byDay, p)
    BY <1>1, <2>1 DEF PartsOf
  <2> QED BY ONLY <1>1, <1>4, <2>2, ObservedAddsUp
<1>7. Total(channels) = Total(f)
  <2> DEFINE p == [c \in t.shown |-> [d \in span |-> <<c, d>>]]
  <2>1. /\ \A c \in t.shown : \A d, e \in DOMAIN byChannel[c] : p[c][d] = p[c][e] => d = e
        /\ \A b, c \in t.shown : \A d \in DOMAIN byChannel[b], e \in DOMAIN byChannel[c] : p[b][d] = p[c][e] => b = c
        /\ \A c \in t.shown : \A d \in DOMAIN byChannel[c] : p[c][d] \in DOMAIN f /\ f[p[c][d]] = byChannel[c][d]
        /\ \A k \in DOMAIN f : \E c \in t.shown : \E d \in DOMAIN byChannel[c] : k = p[c][d]
    <3> HIDE DEF span
    <3> QED OBVIOUS
  <2> HIDE DEF f, p, byChannel, channels, span
  <2>2. PartsOf(f, t.shown, byChannel, p)
    BY <1>1, <2>1 DEF PartsOf
  <2> QED BY ONLY <1>1, <1>4, <2>2, ObservedAddsUp
<1>8. ASSUME NEW d \in span, \A c \in t.shown : \A e \in DOMAIN t.setting[c] : e <= d => t.setting[c][e] = NULL
      PROVE  a.series[d].status = "UNAVAILABLE"
  <2>1. d \in Int
    BY DEF RevenueData
  <2>2. ASSUME NEW c \in t.shown PROVE RevenueOn(t, c, d) = NULL
    <3>1. EffectiveSetting(t, c, d) = NULL
      BY <1>8, <2>1, SettingInForce
    <3> QED BY <3>1 DEF RevenueOn, SettingOn, RevenueForDay
  <2>3. Known(byDay[d]) = {}
    BY <2>2 DEF Known
  <2>4. Observed(byDay[d]).status = "UNAVAILABLE"
    BY <2>3, FS_EmptySet DEF Observed
  <2> HIDE DEF a, byDay, span
  <2> QED BY <1>3, <2>4
<1> HIDE DEF f, byDay, byChannel
<1>9. /\ Total(days) = whole /\ Total(channels) = whole
      /\ \A d \in DOMAIN a.series :
           (\A c \in t.shown : \A e \in DOMAIN t.setting[c] : e <= d => t.setting[c][e] = NULL)
           => a.series[d].status = "UNAVAILABLE"
  BY <1>3, <1>5, <1>6, <1>7, <1>8
<1> HIDE DEF a
<1>10. RevenueAddsUp(t, a)
  BY <1>9 DEF RevenueAddsUp
<1> QED BY <1>10 DEF a

----------------------------------------------------------------------------
\* The rows of a report: a change on record is the difference of the figures of its two days.
PeriodRows(t, p) ==
    /\ p.first \in Int /\ p.last \in Int /\ p.first <= p.last
    /\ \A c \in t.channels, d \in PeriodDays(p) :
         t.row[c][d] # NULL /\ t.row[c][d].delta # NULL =>
             /\ t.row[c][d].count \in Int
             /\ t.row[c][d - 1] # NULL /\ t.row[c][d - 1].count \in Int
             /\ t.row[c][d].delta = t.row[c][d].count - t.row[c][d - 1].count

\* What a report says a period has brought a channel (AiReportAggregateBuilder) is the difference
\* between its ends.
THEOREM PeriodsAlwaysAddUp ==
    ASSUME NEW t, NEW p, PeriodRows(t, p)
    PROVE  PeriodsAddUp(t, p)
<1> SUFFICES ASSUME NEW c \in t.channels, PeriodDelta(t, p, c) # NULL
             PROVE  /\ t.row[c][p.first - 1] # NULL
                    /\ PeriodDelta(t, p, c) = t.row[c][p.last].count - t.row[c][p.first - 1].count
  BY DEF PeriodsAddUp
<1> DEFINE before == p.first - 1
           deltas == [d \in PeriodDays(p) |-> IF t.row[c][d] = NULL THEN NULL ELSE t.row[c][d].delta]
           count == [d \in before..p.last |-> t.row[c][d].count]
<1>1. /\ p.first \in Int /\ p.last \in Int /\ before \in Int /\ before <= p.last
      /\ PeriodDays(p) = before + 1..p.last /\ p.first \in PeriodDays(p)
  BY DEF PeriodRows, PeriodDays
<1>2. /\ \A d \in PeriodDays(p) : deltas[d] # NULL
      /\ PeriodDelta(t, p, c) = SumOver(deltas, PeriodDays(p))
  BY DEF PeriodDelta, SumOver
<1>3. ASSUME NEW d \in before + 1..p.last
      PROVE  /\ t.row[c][d - 1] # NULL /\ count[d] \in Int /\ count[d - 1] \in Int
             /\ deltas[d] = count[d] - count[d - 1]
  <2>1. d \in PeriodDays(p) /\ d \in before..p.last /\ d - 1 \in before..p.last
    BY <1>1
  <2>2. t.row[c][d] # NULL /\ t.row[c][d].delta # NULL /\ deltas[d] = t.row[c][d].delta
    BY <1>2, <2>1
  <2>3. /\ t.row[c][d].count \in Int
        /\ t.row[c][d - 1] # NULL /\ t.row[c][d - 1].count \in Int
        /\ t.row[c][d].delta = t.row[c][d].count - t.row[c][d - 1].count
    BY <2>1, <2>2 DEF PeriodRows
  <2> QED BY <2>1, <2>2, <2>3
<1>4. \A d \in before..p.last : count[d] \in Int
  <2>1. ASSUME NEW d \in before..p.last
        PROVE  d \in before + 1..p.last \/ (d = (before + 1) - 1 /\ before + 1 \in before + 1..p.last)
    BY <1>1
  <2> HIDE DEF count, before, deltas
  <2> QED BY <1>3, <2>1
<1>5. SumOver(deltas, before + 1..p.last) = count[p.last] - count[before]
  <2> DEFINE end == p.last
  <2>1. /\ before \in Int /\ end \in Int /\ before <= end /\ (\A d \in before..end : count[d] \in Int)
        /\ \A d \in before + 1..end : deltas[d] = count[d] - count[d - 1]
    BY <1>1, <1>3, <1>4
  <2> HIDE DEF count, before, deltas, end
  <2>2. SumOver(deltas, before + 1..end) = count[end] - count[before]
    BY ONLY <2>1, SumOfSteps
  <2> QED BY <2>2 DEF end
<1>6. t.row[c][before] # NULL
  <2>1. p.first \in before + 1..p.last /\ p.first - 1 = before
    BY <1>1
  <2> HIDE DEF before
  <2> QED BY <1>3, <2>1
<1>7. count[p.last] = t.row[c][p.last].count /\ count[before] = t.row[c][before].count
  BY <1>1
<1> QED BY <1>1, <1>2, <1>5, <1>6, <1>7

----------------------------------------------------------------------------
\* The catalogues the leaders are taken from: finitely many channels, numbered by title, and
\* videos, numbered by id, whose views are numbers where they are known.
LeaderData(t) ==
    /\ IsFiniteSet(t.shown) /\ t.shown \subseteq Int
    /\ \A c \in t.shown : Figure(StoredDelta(t, c, t.today))
    /\ \A c \in t.shown, d \in {t.today - 1, t.today} : t.scan[c][d] # NULL =>
         Figures(t.scan[c][d].views) /\ DOMAIN t.scan[c][d].views \subseteq Int

\* A finite set of numbers has a least one.
LEMMA FirstMember ==
    ASSUME NEW S, S \subseteq Int, IsFiniteSet(S), S # {}
    PROVE  Min(S) \in S /\ \A y \in S : Min(S) <= y
<1> DEFINE opposite == [x \in S |-> -x]
           T == {opposite[x] : x \in S}
<1>1. IsFiniteSet(T)
  <2>1. opposite \in Surjection(S, T)
    BY DEF Surjection
  <2> HIDE DEF opposite, T
  <2> QED BY <2>1, FS_Surjection
<1>2. T \subseteq Int /\ T # {}
  <2>1. \A x \in S : opposite[x] \in T /\ opposite[x] \in Int
    OBVIOUS
  <2>2. PICK x \in S : TRUE
    OBVIOUS
  <2> QED BY <2>1, <2>2
<1>3. PICK z \in T : \A y \in T : y <= z
  <2> HIDE DEF T
  <2> QED BY <1>1, <1>2, GreatestMember
<1>4. PICK x \in S : z = -x
  OBVIOUS
<1>5. ASSUME NEW y \in S PROVE x <= y
  <2>1. -y <= -x
    BY <1>3, <1>4
  <2>2. x \in Int /\ y \in Int
    OBVIOUS
  <2> QED BY <2>1, <2>2
<1>6. \E w \in S : \A y \in S : w <= y
  BY <1>5
<1> QED BY <1>6 DEF Min

\* The gains of the videos of a channel, and the video that gained most.
LEMMA BestIs ==
    ASSUME NEW t, LeaderData(t), NEW c \in Compared(t)
    PROVE  /\ \A v \in DOMAIN VideoGains(t, c) : VideoGains(t, c)[v] \in Int
           /\ Best(t, c) # NULL =>
                /\ Best(t, c) \in DOMAIN VideoGains(t, c) /\ VideoGains(t, c)[Best(t, c)] > 0
                /\ \A v \in DOMAIN VideoGains(t, c) : VideoGains(t, c)[v] <= VideoGains(t, c)[Best(t, c)]
           /\ Best(t, c) = NULL => \A v \in DOMAIN VideoGains(t, c) : VideoGains(t, c)[v] <= 0
<1> DEFINE previous == t.scan[c][t.today - 1].views
           current == t.scan[c][t.today].views
           gains == VideoGains(t, c)
           both == Known(previous) \cap Known(current)
           most == {v \in DOMAIN gains : gains[v] > 0 /\ \A w \in DOMAIN gains : gains[w] <= gains[v]}
<1>1. c \in t.shown /\ t.scan[c][t.today - 1] # NULL /\ t.scan[c][t.today] # NULL
  BY DEF Compared
<1>2. Figures(previous) /\ Figures(current) /\ DOMAIN previous \subseteq Int
  BY <1>1 DEF LeaderData
<1>3. DOMAIN gains = both /\ \A v \in both : gains[v] = current[v] - previous[v]
  BY DEF VideoGains
<1>4. IsFiniteSet(both) /\ both \subseteq Int
  <2>1. IsFiniteSet(Known(previous)) /\ Known(previous) \subseteq DOMAIN previous
    BY <1>2, KnownFigures
  <2>2. both \in SUBSET Known(previous)
    OBVIOUS
  <2> HIDE DEF both, previous
  <2> QED BY <1>2, <2>1, <2>2, FS_Subset
<1>5. \A v \in both : gains[v] \in Int
  <2>1. \A v \in both : current[v] \in Int /\ previous[v] \in Int
    BY <1>2, KnownFigures
  <2> HIDE DEF both, current, previous, gains
  <2> QED BY <1>3, <2>1
<1>6. Best(t, c) = IF most = {} THEN NULL ELSE Min(most)
  BY DEF Best
<1>7. most \in SUBSET both
  BY <1>3
<1> HIDE DEF gains, both
<1>8. most # {} => Min(most) \in most /\ Min(most) \in Int
  <2>1. IsFiniteSet(most) /\ most \subseteq Int
    <3> HIDE DEF most
    <3> QED BY <1>4, <1>7, FS_Subset
  <2> HIDE DEF most
  <2> QED BY <2>1, FirstMember
<1>9. ASSUME most = {}, NEW v \in both PROVE gains[v] <= 0
  <2> DEFINE T == {gains[w] : w \in both}
  <2>1. IsFiniteSet(T)
    <3> DEFINE g == [w \in both |-> gains[w]]
    <3>1. g \in Surjection(both, T)
      BY DEF Surjection
    <3> HIDE DEF g, T
    <3> QED BY <1>4, <3>1, FS_Surjection
  <2>2. T \subseteq Int /\ T # {}
    BY <1>5
  <2>3. PICK z \in T : \A y \in T : y <= z
    <3> HIDE DEF T
    <3> QED BY <2>1, <2>2, GreatestMember
  <2>4. PICK w \in both : z = gains[w]
    OBVIOUS
  <2>5. \A u \in both : gains[u] <= gains[w]
    BY <2>3, <2>4
  <2>6. ~(gains[w] > 0)
    BY <1>3, <1>9, <2>5
  <2> QED BY <1>5, <2>5, <2>6
<1>10. Min(most) \in most => /\ Min(most) \in both /\ gains[Min(most)] > 0
                             /\ \A w \in both : gains[w] <= gains[Min(most)]
  BY <1>3
<1>11. \A x : x \in Int => x # NULL
  BY FigureAssumption
<1> HIDE DEF most
<1> QED BY <1>3, <1>5, <1>6, <1>8, <1>9, <1>10, <1>11 DEF gains

\* A set that is ordered is listed whole, each member once and in that order.
StrictOrder(S, before) ==
    /\ \A x \in S : <<x, x>> \notin before
    /\ \A x, y, z \in S : <<x, y>> \in before /\ <<y, z>> \in before => <<x, z>> \in before
    /\ \A x, y \in S : x = y \/ <<x, y>> \in before \/ <<y, x>> \in before

LEMMA OrderedIs ==
    ASSUME NEW S, IsFiniteSet(S), NEW before, StrictOrder(S, before)
    PROVE  /\ Cardinality(S) \in Nat
           /\ DOMAIN Ordered(S, before) = 1..Cardinality(S)
           /\ \A i \in 1..Cardinality(S) : Ordered(S, before)[i] \in S
           /\ \A x \in S : \E i \in 1..Cardinality(S) : Ordered(S, before)[i] = x
           /\ \A i, j \in 1..Cardinality(S) :
                i < j <=> <<Ordered(S, before)[i], Ordered(S, before)[j]>> \in before
<1> DEFINE first(x) == {y \in S : <<y, x>> \in before}
           rank == [x \in S |-> 1 + Cardinality(first(x))]
           n == Cardinality(S)
           s == Ordered(S, before)
<1>1. \A x \in S : rank[x] = 1 + Cardinality(first(x))
  OBVIOUS
<1>2. n \in Nat
  BY FS_CardinalityType
<1>3. ASSUME NEW x \in S
      PROVE  IsFiniteSet(first(x)) /\ Cardinality(first(x)) \in Nat /\ Cardinality(first(x)) < n
  <2>1. x \notin first(x) /\ first(x) \in SUBSET S
    BY DEF StrictOrder
  <2> HIDE DEF first
  <2>2. IsFiniteSet(first(x)) /\ Cardinality(first(x)) <= n /\ (Cardinality(first(x)) = n => first(x) = S)
    BY <2>1, FS_Subset
  <2>3. Cardinality(first(x)) \in Nat
    BY <2>2, FS_CardinalityType
  <2>4. Cardinality(first(x)) # n
    BY <2>1, <2>2
  <2> QED BY <1>2, <2>2, <2>3, <2>4
<1>4. ASSUME NEW x \in S, NEW y \in S, <<x, y>> \in before
      PROVE  Cardinality(first(x)) < Cardinality(first(y))
  <2>1. first(x) \subseteq first(y)
    BY <1>4 DEF StrictOrder
  <2>2. x \in first(y) /\ x \notin first(x)
    BY <1>4 DEF StrictOrder
  <2> HIDE DEF first
  <2>3. first(x) \in SUBSET first(y) /\ first(x) # first(y)
    BY <2>1, <2>2
  <2>4. /\ Cardinality(first(x)) <= Cardinality(first(y))
        /\ Cardinality(first(x)) = Cardinality(first(y)) => first(x) = first(y)
    BY <1>3, <2>3, FS_Subset
  <2> QED BY <1>3, <2>3, <2>4
<1> HIDE DEF first
<1>5. \A x \in S : rank[x] \in 1..n
  BY <1>1, <1>2, <1>3
<1>6. ASSUME NEW x \in S, NEW y \in S
      PROVE  /\ rank[x] < rank[y] <=> <<x, y>> \in before
             /\ rank[x] = rank[y] => x = y
  <2>1. rank[x] \in Int /\ rank[y] \in Int
    BY <1>1, <1>3
  <2>2. <<x, y>> \in before => rank[x] < rank[y]
    BY <1>1, <1>3, <1>4
  <2>3. <<y, x>> \in before => rank[y] < rank[x]
    BY <1>1, <1>3, <1>4
  <2>4. x = y \/ <<x, y>> \in before \/ <<y, x>> \in before
    BY DEF StrictOrder
  <2> HIDE DEF rank
  <2> QED BY <2>1, <2>2, <2>3, <2>4
<1>7. \A i \in 1..n : \E x \in S : rank[x] = i
  <2>1. IsFiniteSet(1..n) /\ Cardinality(1..n) = n
    <3> HIDE DEF n
    <3>1. /\ IsFiniteSet(1..n) /\ Cardinality(1..n) = (IF 1 > n THEN 0 ELSE n - 1 + 1)
      BY <1>2, FS_Interval
    <3> QED BY <1>2, <3>1
  <2>2. rank \in [S -> 1..n]
    BY <1>5
  <2>3. rank \in Injection(S, 1..n)
    <3> HIDE DEF rank, n
    <3> QED BY <1>6, <2>2 DEF Injection, IsInjective
  <2>4. rank \in Surjection(S, 1..n)
    BY <2>1, <2>3, FS_Injection
  <2> HIDE DEF rank, n
  <2> QED BY <2>4 DEF Surjection
<1>8. ASSUME NEW i \in 1..n PROVE s[i] \in S /\ rank[s[i]] = i
  <2> DEFINE P(x) == Cardinality(first(x)) = i - 1
  <2>1. s[i] = CHOOSE x \in S : P(x)
    BY DEF Ordered, first
  <2>2. PICK x \in S : rank[x] = i
    BY <1>7
  <2>3. P(x)
    BY <1>1, <1>2, <1>3, <2>2
  <2> HIDE DEF P
  <2>4. s[i] \in S /\ P(s[i])
    BY <2>1, <2>3, Zenon
  <2>5. Cardinality(first(s[i])) = i - 1
    BY <2>4 DEF P
  <2> QED BY <1>1, <1>2, <2>4, <2>5
<1>9. DOMAIN s = 1..n
  BY DEF Ordered
<1> HIDE DEF rank, s, n
<1>10. ASSUME NEW x \in S PROVE \E i \in 1..n : s[i] = x
  <2>1. rank[x] \in 1..n
    BY <1>5
  <2> QED BY <1>6, <1>8, <2>1
<1>11. ASSUME NEW i \in 1..n, NEW j \in 1..n PROVE i < j <=> <<s[i], s[j]>> \in before
  BY <1>6, <1>8
<1> QED BY <1>2, <1>8, <1>9, <1>10, <1>11 DEF s, n

\* Channels by their gains, the first listed of those that gained the same.
Ahead(gain, b, c) == gain[b] > gain[c] \/ (gain[b] = gain[c] /\ b < c)

LEMMA AheadOrders ==
    ASSUME NEW led, led \subseteq Int, NEW gain, \A c \in led : gain[c] \in Int
    PROVE  StrictOrder(led, {k \in led \X led : Ahead(gain, k[1], k[2])})
<1> DEFINE before == {k \in led \X led : Ahead(gain, k[1], k[2])}
<1>1. \A b, c \in led : <<b, c>> \in before <=> Ahead(gain, b, c)
  OBVIOUS
<1>2. \A c \in led : c \in Int /\ gain[c] \in Int
  OBVIOUS
<1> HIDE DEF before
<1>3. StrictOrder(led, before)
  BY <1>1, <1>2 DEF StrictOrder, Ahead
<1> QED BY <1>3 DEF before

Led(t) == {c \in Comparable(t) : Best(t, c) # NULL}
LedGain(t) == [c \in Led(t) |-> VideoGains(t, c)[Best(t, c)]]

\* The items of the ranking are those of the channels that are led, the largest gain first.
LEMMA LeadersAre ==
    ASSUME NEW t, LeaderData(t)
    PROVE  /\ IsFiniteSet(Led(t)) /\ Led(t) \subseteq Comparable(t) /\ Led(t) \subseteq Int
           /\ \A c \in Led(t) : LedGain(t)[c] \in Int /\ LedGain(t)[c] > 0
           /\ DOMAIN LeadersOf(t) = 1..Cardinality(Led(t))
           /\ \A c \in Led(t) : \E i \in DOMAIN LeadersOf(t) : LeadersOf(t)[i].chan = c
           /\ \A i, j \in DOMAIN LeadersOf(t) : j < i => LeadersOf(t)[j].delta >= LeadersOf(t)[i].delta
           /\ \A i \in DOMAIN LeadersOf(t) :
                LET item == LeadersOf(t)[i]
                IN  /\ item.chan \in Led(t)
                    /\ item.video = Best(t, item.chan) /\ item.delta = LedGain(t)[item.chan]
                    /\ item.contribution = Contribution(item.delta, StoredDelta(t, item.chan, t.today))
<1> DEFINE led == Led(t)
           gain == LedGain(t)
           before == {k \in led \X led : Ahead(gain, k[1], k[2])}
           order == Ordered(led, before)
           n == Cardinality(led)
           item(c) == [chan |-> c, video |-> Best(t, c), delta |-> gain[c],
                       channelDelta |-> StoredDelta(t, c, t.today),
                       contribution |-> Contribution(gain[c], StoredDelta(t, c, t.today))]
<1>1. led \in SUBSET t.shown /\ led \subseteq Comparable(t) /\ \A c \in led : c \in Compared(t)
  BY DEF Led, Comparable, Compared
<1>2. IsFiniteSet(led) /\ led \subseteq Int
  <2> HIDE DEF led
  <2> QED BY <1>1, FS_Subset DEF LeaderData
<1>3. ASSUME NEW c \in led PROVE gain[c] \in Int /\ gain[c] > 0
  <2>1. c \in Compared(t) /\ Best(t, c) # NULL /\ gain[c] = VideoGains(t, c)[Best(t, c)]
    BY <1>1 DEF Led, LedGain
  <2> HIDE DEF gain, led
  <2> QED BY <2>1, BestIs
<1>4. LeadersOf(t) = [i \in DOMAIN order |-> item(order[i])]
  BY DEF LeadersOf, Led, LedGain, Ahead
<1>5. \A b, c \in led : <<b, c>> \in before => gain[b] >= gain[c]
  BY <1>3 DEF Ahead
<1> HIDE DEF led, gain
<1>6. StrictOrder(led, before)
  BY <1>2, <1>3, AheadOrders
<1> HIDE DEF before
<1>7. /\ DOMAIN order = 1..n
      /\ \A i \in 1..n : order[i] \in led
      /\ \A c \in led : \E i \in 1..n : order[i] = c
      /\ \A i, j \in 1..n : i < j <=> <<order[i], order[j]>> \in before
  BY <1>2, <1>6, OrderedIs
<1> HIDE DEF order, n
<1>8. DOMAIN LeadersOf(t) = 1..n
  BY <1>4, <1>7
<1>9. ASSUME NEW i \in 1..n
      PROVE  LET x == LeadersOf(t)[i]
             IN  /\ x.chan = order[i] /\ x.chan \in led
                 /\ x.video = Best(t, x.chan) /\ x.delta = gain[x.chan]
                 /\ x.contribution = Contribution(x.delta, StoredDelta(t, x.chan, t.today))
  BY <1>4, <1>7
<1>10. \A c \in led : \E i \in 1..n : LeadersOf(t)[i].chan = c
  BY <1>7, <1>9
<1>11. ASSUME NEW i \in 1..n, NEW j \in 1..n, j < i
       PROVE  LeadersOf(t)[j].delta >= LeadersOf(t)[i].delta
  <2>1. <<order[j], order[i]>> \in before /\ order[j] \in led /\ order[i] \in led
    BY ONLY <1>7, <1>11
  <2>2. gain[order[j]] >= gain[order[i]]
    BY ONLY <1>5, <2>1
  <2>3. LeadersOf(t)[j].delta = gain[order[j]] /\ LeadersOf(t)[i].delta = gain[order[i]]
    BY <1>9, <1>11
  <2> QED BY ONLY <2>2, <2>3
<1>12. \A c \in Led(t) : \E i \in DOMAIN LeadersOf(t) : LeadersOf(t)[i].chan = c
  BY <1>8, <1>10 DEF led
<1>13. \A i, j \in DOMAIN LeadersOf(t) : j < i => LeadersOf(t)[j].delta >= LeadersOf(t)[i].delta
  BY <1>8, <1>11
<1>14. \A i \in DOMAIN LeadersOf(t) :
         LET x == LeadersOf(t)[i]
         IN  /\ x.chan \in Led(t) /\ x.video = Best(t, x.chan) /\ x.delta = LedGain(t)[x.chan]
             /\ x.contribution = Contribution(x.delta, StoredDelta(t, x.chan, t.today))
  BY <1>8, <1>9 DEF led, gain
<1>15. /\ IsFiniteSet(Led(t)) /\ Led(t) \subseteq Comparable(t) /\ Led(t) \subseteq Int
       /\ \A c \in Led(t) : LedGain(t)[c] \in Int /\ LedGain(t)[c] > 0
       /\ DOMAIN LeadersOf(t) = 1..Cardinality(Led(t))
  BY <1>1, <1>2, <1>3, <1>8 DEF led, gain, n
<1> HIDE DEF item
<1> QED BY ONLY <1>12, <1>13, <1>14, <1>15

\* The leaders (dailyVideoLeaders) gained most of their channels, between catalogues that
\* are whole, and come in that order; an answer said complete leaves out no channel that gained.
THEOREM LeadersAlwaysTell ==
    ASSUME NEW t, LeaderData(t)
    PROVE  LeadersTellTheTruth(t, Leaders(t))
<1> DEFINE a == Leaders(t)
<1>1. /\ IsFiniteSet(Led(t)) /\ DOMAIN LeadersOf(t) = 1..Cardinality(Led(t))
      /\ \A c \in Led(t) : \E i \in DOMAIN LeadersOf(t) : LeadersOf(t)[i].chan = c
  BY LeadersAre
<1>2. \A i, j \in DOMAIN LeadersOf(t) : j < i => LeadersOf(t)[j].delta >= LeadersOf(t)[i].delta
  BY LeadersAre
<1>3. a.items = LeadersOf(t)
  BY DEF Leaders
<1>4. ASSUME NEW i \in DOMAIN a.items
      PROVE  LET previous == t.scan[a.items[i].chan][t.today - 1]
                 current == t.scan[a.items[i].chan][t.today]
                 gain(v) == current.views[v] - previous.views[v]
             IN  /\ Cardinality(Known(previous.views)) = previous.total
                 /\ Cardinality(Known(current.views)) = current.total
                 /\ a.items[i].delta = gain(a.items[i].video)
                 /\ \A v \in Known(previous.views) \cap Known(current.views) : gain(v) <= a.items[i].delta
                 /\ \A j \in 1..i - 1 : a.items[j].delta >= a.items[i].delta
  <2> DEFINE x == a.items[i]
             c == x.chan
             previous == t.scan[c][t.today - 1]
             current == t.scan[c][t.today]
             gain(v) == current.views[v] - previous.views[v]
             both == Known(previous.views) \cap Known(current.views)
  <2>1. /\ c \in Led(t) /\ x.video = Best(t, c) /\ x.delta = LedGain(t)[c]
    BY <1>3, LeadersAre
  <2>2. c \in Comparable(t) /\ c \in Compared(t) /\ Best(t, c) # NULL
    BY <2>1 DEF Led, Comparable
  <2>3. /\ Cardinality(Known(previous.views)) = previous.total
        /\ Cardinality(Known(current.views)) = current.total
    BY <2>2 DEF Comparable, CompleteBucket, Viewed
  <2>4. VideoGains(t, c) = [v \in both |-> gain(v)]
    BY DEF VideoGains
  <2>5. DOMAIN VideoGains(t, c) = both /\ \A v \in both : VideoGains(t, c)[v] = gain(v)
    <3> HIDE DEF both, gain, c
    <3> QED BY <2>4
  <2>6. x.delta = VideoGains(t, c)[Best(t, c)]
    BY <2>1 DEF LedGain
  <2>7. /\ Best(t, c) \in DOMAIN VideoGains(t, c)
        /\ \A v \in DOMAIN VideoGains(t, c) : VideoGains(t, c)[v] <= VideoGains(t, c)[Best(t, c)]
    <3> HIDE DEF c
    <3> QED BY <2>2, BestIs
  <2>8. x.delta = gain(x.video) /\ \A v \in both : gain(v) <= x.delta
    <3> HIDE DEF both, gain, c, x
    <3> QED BY <2>1, <2>5, <2>6, <2>7
  <2>9. ASSUME NEW j \in 1..i - 1 PROVE a.items[j].delta >= x.delta
    <3>1. i \in 1..Cardinality(Led(t)) /\ Cardinality(Led(t)) \in Nat
      BY <1>1, <1>3, FS_CardinalityType
    <3>2. j \in DOMAIN a.items /\ j < i
      <4> HIDE DEF a
      <4> QED BY <1>1, <1>3, <3>1
    <3> HIDE DEF a
    <3> QED BY <1>2, <1>3, <3>2
  <2> QED BY <2>3, <2>8, <2>9
<1>5. ASSUME a.status = "COMPLETE"
      PROVE  /\ \A c \in t.shown : StoredDelta(t, c, t.today) # NULL
             /\ \A c \in t.shown \ {a.items[i].chan : i \in DOMAIN a.items} :
                  \A v \in DOMAIN VideoGains(t, c) : VideoGains(t, c)[v] <= 0
             /\ a.warnings \subseteq {"NO_POSITIVE_DAILY_GAIN"}
  <2> DEFINE deltas == [c \in t.shown |-> StoredDelta(t, c, t.today)]
             unknown == t.shown \ Known(deltas)
  <2>1. unknown = {} /\ Comparable(t) = t.shown /\ t.shown # {} /\ Compared(t) # {}
    BY <1>5 DEF Leaders
  <2>2. Comparable(t) \subseteq Compared(t) /\ Compared(t) \subseteq t.shown
    BY DEF Comparable, Compared
  <2>3. \A c \in t.shown : StoredDelta(t, c, t.today) # NULL
    BY <2>1 DEF Known
  <2>4. Compared(t) = t.shown
    BY <2>1, <2>2
  <2>5. ASSUME NEW c \in t.shown \ {a.items[i].chan : i \in DOMAIN a.items},
               NEW v \in DOMAIN VideoGains(t, c)
        PROVE  VideoGains(t, c)[v] <= 0
    <3>1. c \notin Led(t)
      BY <1>1, <1>3
    <3>2. c \in Compared(t) /\ Best(t, c) = NULL
      BY <2>1, <2>4, <3>1 DEF Led
    <3> QED BY <3>2, BestIs
  <2>6. a.warnings \subseteq {"NO_POSITIVE_DAILY_GAIN"}
    BY <2>1, <2>4 DEF Leaders
  <2> QED BY <2>3, <2>5, <2>6
<1> HIDE DEF a
<1>6. LeadersTellTheTruth(t, a)
  BY <1>4, <1>5 DEF LeadersTellTheTruth
<1> QED BY <1>6 DEF a

\* Whatever catalogues are missing or partial, the leaders computed are an answer its contract
\* takes.
THEOREM LeadersAlwaysParse ==
    ASSUME NEW t, LeaderData(t)
    PROVE  LeadersParse(Leaders(t))
<1> DEFINE a == Leaders(t)
           deltas == [c \in t.shown |-> StoredDelta(t, c, t.today)]
           gaining == {c \in Known(deltas) : deltas[c] > 0}
<1>1. /\ a.items = LeadersOf(t) /\ a.channels = Cardinality(t.shown)
      /\ a.gaining = Cardinality(gaining) /\ a.comparable = Cardinality(Comparable(t))
  BY DEF Leaders
<1>2. gaining \in SUBSET t.shown /\ Comparable(t) \in SUBSET t.shown
  BY DEF Known, Comparable, Compared
<1>3. a.gaining <= a.channels /\ a.comparable <= a.channels
  <2> HIDE DEF gaining, a
  <2> QED BY <1>1, <1>2, FS_Subset DEF LeaderData
<1>4. ASSUME NEW i \in DOMAIN a.items
      PROVE  a.items[i].delta >= 0 /\ (a.items[i].contribution = NULL \/ a.items[i].contribution >= 0)
  <2> DEFINE x == a.items[i]
             whole == StoredDelta(t, x.chan, t.today)
  <2>1. /\ x.chan \in Led(t) /\ x.delta = LedGain(t)[x.chan] /\ x.contribution = Contribution(x.delta, whole)
    BY <1>1, LeadersAre
  <2>2. x.delta \in Int /\ x.delta > 0 /\ x.chan \in t.shown
    BY <1>2, <2>1, LeadersAre
  <2>3. Figure(whole)
    BY <2>2 DEF LeaderData
  <2> HIDE DEF x, whole
  <2>4. ASSUME whole # NULL, ~(whole <= 0)
        PROVE  (x.delta * 1000 + whole \div 2) \div whole >= 0
    <3>1. whole \in Nat \ {0} /\ x.delta \in Nat
      BY <2>2, <2>3, <2>4 DEF Figure
    <3>2. whole \div 2 \in Nat
      BY <3>1
    <3> DEFINE n == x.delta * 1000 + whole \div 2
    <3>3. n \in Nat
      BY <3>1, <3>2
    <3> HIDE DEF n
    <3>4. \A m \in Nat, k \in Nat \ {0} : m \div k >= 0
      BY SMTT(20)
    <3>5. n \div whole >= 0
      BY <3>1, <3>3, <3>4
    <3> QED BY <3>5 DEF n
  <2>5. x.contribution = NULL \/ x.contribution >= 0
    BY <2>1, <2>4 DEF Contribution
  <2>6. x.delta >= 0
    BY <2>2
  <2> QED BY <2>5, <2>6 DEF x
<1> HIDE DEF a
<1>5. LeadersParse(a)
  BY <1>3, <1>4 DEF LeadersParse
<1> QED BY <1>5 DEF a

----------------------------------------------------------------------------
\* The greatest of the numbers, and what is greatest up to a limit.
LEMMA GreatestIs ==
    ASSUME NEW S, S \subseteq Int, IsFiniteSet(S), S # {}
    PROVE  Max(S) \in S /\ \A y \in S : Max(S) >= y
<1>1. PICK x \in S : \A y \in S : y <= x
  BY GreatestMember
<1>2. x \in S /\ \A y \in S : x >= y
  BY <1>1
<1> QED BY <1>2 DEF Max

\* The videos of a ranking: finitely many, numbered by id, each with the snapshots of finitely
\* many instants, whose views are numbers where they are known.
VideoData(videos) ==
    /\ IsFiniteSet(DOMAIN videos) /\ DOMAIN videos \subseteq Int
    /\ \A v \in DOMAIN videos :
         /\ DOMAIN videos[v].seen \subseteq Int /\ Figures(videos[v].seen)
         /\ Figure(videos[v].published)

LEMMA SnapshotsAre ==
    ASSUME NEW videos, VideoData(videos), NEW v \in DOMAIN videos, NEW S, S \subseteq KnownAt(videos[v])
    PROVE  /\ IsFiniteSet(S) /\ S \subseteq Int /\ \A t \in S : videos[v].seen[t] \in Int
           /\ S # {} => Max(S) \in S /\ \A t \in S : Max(S) >= t
<1>1. S \subseteq DOMAIN videos[v].seen /\ IsFiniteSet(DOMAIN videos[v].seen) /\ DOMAIN videos[v].seen \subseteq Int
  BY DEF VideoData, Figures, KnownAt
<1>2. IsFiniteSet(S) /\ S \subseteq Int
  BY <1>1, FS_Subset
<1>3. \A t \in S : videos[v].seen[t] \in Int
  BY DEF VideoData, Figures, Figure, KnownAt
<1> QED BY <1>2, <1>3, GreatestIs

\* A gain of an hour (calculateVph) is the change over one window or more.
LEMMA VphIs ==
    ASSUME NEW videos, VideoData(videos), NEW v \in DOMAIN videos, NEW window \in Nat \ {0},
           Vph(videos[v], window) # NULL
    PROVE  \E gained \in Int, over \in Nat : over >= window /\ Vph(videos[v], window) = <<gained, over>>
<1> DEFINE seen == videos[v].seen
           latest == Max(KnownAt(videos[v]))
           before == Upto(videos[v], latest - window)
<1>1. KnownAt(videos[v]) # {} /\ before # {} /\ Vph(videos[v], window) = <<seen[latest] - seen[Max(before)], latest - Max(before)>>
  BY DEF Vph
<1>2. latest \in Int /\ latest \in KnownAt(videos[v]) /\ seen[latest] \in Int
  BY <1>1, SnapshotsAre
<1>3. before \subseteq KnownAt(videos[v])
  BY DEF Upto
<1>4. Max(before) \in before /\ Max(before) \in Int /\ seen[Max(before)] \in Int
  <2> HIDE DEF before
  <2> QED BY <1>1, <1>3, SnapshotsAre
<1>5. Max(before) <= latest - window
  BY <1>4 DEF Upto
<1> HIDE DEF latest, before, seen
<1>6. seen[latest] - seen[Max(before)] \in Int /\ latest - Max(before) \in Nat /\ latest - Max(before) >= window
  BY <1>2, <1>4, <1>5
<1> QED BY <1>1, <1>6

\* What a video gained in the week is measured between two of its snapshots, the newest up to
\* now and the newest up to a week ago, no further back than the tolerance.
LEMMA WeeklyGainIs ==
    ASSUME NEW videos, VideoData(videos), NEW now \in Int, NEW v \in DOMAIN videos
    PROVE  /\ WeeklyGain(videos[v], now) # NULL =>
                 \E t, u \in KnownAt(videos[v]) :
                    /\ t \in now - Week - WeekTolerance..now - Week
                    /\ u \in t..now
                    /\ ~\E s \in KnownAt(videos[v]) : s \in u + 1..now \/ s \in t + 1..now - Week
                    /\ WeeklyGain(videos[v], now)[1] = videos[v].seen[u] - videos[v].seen[t]
           /\ \A i \in DOMAIN Hours :
                Vph(videos[v], Hours[i]) # NULL => Vph(videos[v], Hours[i])[2] >= Hours[i]
<1>0. Week \in Nat /\ WeekTolerance \in Nat /\ \A i \in DOMAIN Hours : Hours[i] \in Nat \ {0}
  BY RankingsAssumption
<1>1. ASSUME WeeklyGain(videos[v], now) # NULL
      PROVE  \E t, u \in KnownAt(videos[v]) :
                /\ t \in now - Week - WeekTolerance..now - Week
                /\ u \in t..now
                /\ ~\E s \in KnownAt(videos[v]) : s \in u + 1..now \/ s \in t + 1..now - Week
                /\ WeeklyGain(videos[v], now)[1] = videos[v].seen[u] - videos[v].seen[t]
  <2> DEFINE before == Upto(videos[v], now - Week)
             recent == Upto(videos[v], now)
             t == Max(before)
             u == Max(recent)
  <2>1. /\ before # {} /\ ~(now - Week - t > WeekTolerance)
        /\ WeeklyGain(videos[v], now) = <<videos[v].seen[u] - videos[v].seen[t], 1>>
    BY <1>1 DEF WeeklyGain, WeeklyBaseline
  <2>2. before \subseteq KnownAt(videos[v]) /\ recent \subseteq KnownAt(videos[v]) /\ KnownAt(videos[v]) \subseteq Int
    BY SnapshotsAre DEF Upto
  <2>3. \A s \in KnownAt(videos[v]) : (s \in before <=> s <= now - Week) /\ (s \in recent <=> s <= now)
    BY DEF Upto
  <2> HIDE DEF before, recent
  <2>4. t \in before /\ \A s \in before : t >= s
    BY <2>1, <2>2, SnapshotsAre
  <2>5. t \in recent
    BY <1>0, <2>2, <2>3, <2>4
  <2>6. u \in recent /\ \A s \in recent : u >= s
    BY <2>2, <2>5, SnapshotsAre
  <2> HIDE DEF t, u
  <2>7. t \in Int /\ u \in Int /\ t <= now - Week /\ t <= u /\ u <= now /\ t >= now - Week - WeekTolerance
    BY <1>0, <2>1, <2>2, <2>3, <2>4, <2>5, <2>6
  <2>8. ASSUME NEW s \in KnownAt(videos[v]) PROVE s \notin u + 1..now /\ s \notin t + 1..now - Week
    BY <1>0, <2>2, <2>3, <2>4, <2>6, <2>7
  <2>9. t \in KnownAt(videos[v]) /\ u \in KnownAt(videos[v])
    BY <2>2, <2>4, <2>6
  <2>10. t \in now - Week - WeekTolerance..now - Week /\ u \in t..now
    BY <1>0, <2>7
  <2> QED BY <2>1, <2>8, <2>9, <2>10
<1>2. ASSUME NEW i \in DOMAIN Hours, Vph(videos[v], Hours[i]) # NULL
      PROVE  Vph(videos[v], Hours[i])[2] >= Hours[i]
  BY <1>0, <1>2, VphIs
<1> QED BY <1>1, <1>2

\* What is read of the videos (listForRanking): of the first of them, the newest snapshots.
LEMMA ListIs ==
    ASSUME NEW videos, VideoData(videos)
    PROVE  /\ VideoData(ListForRanking(videos))
           /\ DOMAIN ListForRanking(videos) = VideosRead(videos) /\ VideosRead(videos) \subseteq DOMAIN videos
           /\ \A v \in VideosRead(videos) :
                /\ ListForRanking(videos)[v].chan = videos[v].chan
                /\ \A t \in SnapshotsRead(videos[v]) : ListForRanking(videos)[v].seen[t] = videos[v].seen[t]
                /\ KnownAt(ListForRanking(videos)[v]) = KnownAt(videos[v]) \cap SnapshotsRead(videos[v])
<1> DEFINE read == ListForRanking(videos)
           kept(v) == [t \in SnapshotsRead(videos[v]) |-> videos[v].seen[t]]
<1>1. DOMAIN read = VideosRead(videos) /\ VideosRead(videos) \subseteq DOMAIN videos
  BY DEF ListForRanking, VideosRead
<1>2. \A v \in VideosRead(videos) :
         read[v] = [chan |-> videos[v].chan, published |-> videos[v].published, seen |-> kept(v)]
  BY DEF ListForRanking
<1> HIDE DEF read, kept
<1>3. ASSUME NEW v \in VideosRead(videos)
      PROVE  /\ DOMAIN read[v].seen \subseteq Int /\ Figures(read[v].seen) /\ Figure(read[v].published)
             /\ KnownAt(read[v]) = KnownAt(videos[v]) \cap SnapshotsRead(videos[v])
             /\ read[v].chan = videos[v].chan
             /\ \A t \in SnapshotsRead(videos[v]) : read[v].seen[t] = videos[v].seen[t]
  <2>1. read[v].seen = kept(v) /\ read[v].published = videos[v].published /\ read[v].chan = videos[v].chan
    <3>1. read[v] = [chan |-> videos[v].chan, published |-> videos[v].published, seen |-> kept(v)]
      BY <1>2
    <3> DEFINE row(x, y, z) == [chan |-> x, published |-> y, seen |-> z]
    <3>2. \A x, y, z : row(x, y, z).chan = x /\ row(x, y, z).published = y /\ row(x, y, z).seen = z
      OBVIOUS
    <3>3. read[v] = row(videos[v].chan, videos[v].published, kept(v))
      BY <3>1
    <3> HIDE DEF row
    <3> QED BY <3>2, <3>3
  <2>2. DOMAIN kept(v) = SnapshotsRead(videos[v]) /\ SnapshotsRead(videos[v]) \subseteq DOMAIN videos[v].seen
        /\ \A t \in SnapshotsRead(videos[v]) : kept(v)[t] = videos[v].seen[t]
    BY DEF SnapshotsRead, kept
  <2>3. /\ DOMAIN videos[v].seen \subseteq Int /\ IsFiniteSet(DOMAIN videos[v].seen)
        /\ \A t \in DOMAIN videos[v].seen : Figure(videos[v].seen[t])
        /\ Figure(videos[v].published)
    BY <1>1 DEF VideoData, Figures
  <2>4. IsFiniteSet(DOMAIN kept(v))
    BY <2>2, <2>3, FS_Subset
  <2>5. DOMAIN kept(v) \subseteq Int /\ Figures(kept(v))
    BY <2>2, <2>3, <2>4 DEF Figures
  <2>6. KnownAt(read[v]) = KnownAt(videos[v]) \cap SnapshotsRead(videos[v])
    BY <2>1, <2>2 DEF KnownAt
  <2> QED BY <2>1, <2>2, <2>3, <2>5, <2>6
<1>4. IsFiniteSet(VideosRead(videos)) /\ VideosRead(videos) \subseteq Int
  BY <1>1, FS_Subset DEF VideoData
<1>5. VideoData(read)
  BY <1>1, <1>3, <1>4 DEF VideoData
<1> QED BY <1>1, <1>3, <1>5 DEF read

\* A snapshot newer than one that is read is read.
LEMMA NewerIsRead ==
    ASSUME NEW videos, VideoData(videos), NEW v \in DOMAIN videos, NEW t \in SnapshotsRead(videos[v]),
           NEW s \in DOMAIN videos[v].seen, s >= t
    PROVE  s \in SnapshotsRead(videos[v])
<1> DEFINE seen == DOMAIN videos[v].seen
           newer(x) == {u \in seen : u > x}
<1>1. seen \subseteq Int /\ IsFiniteSet(seen)
  BY DEF VideoData, Figures
<1>2. t \in seen /\ Cardinality(newer(t)) < MaxSnapshots
  BY DEF SnapshotsRead
<1>3. newer(s) \subseteq newer(t) /\ newer(t) \subseteq seen
  BY <1>1, <1>2
<1> HIDE DEF newer, seen
<1>4. IsFiniteSet(newer(t))
  BY <1>1, <1>3, FS_Subset
<1>5. /\ Cardinality(newer(s)) \in Nat /\ Cardinality(newer(t)) \in Nat
      /\ Cardinality(newer(s)) <= Cardinality(newer(t))
  BY <1>3, <1>4, FS_Subset, FS_CardinalityType
<1>6. MaxSnapshots \in Nat
  BY RankingsAssumption
<1>7. Cardinality(newer(s)) < MaxSnapshots
  BY <1>2, <1>5, <1>6
<1> QED BY <1>7 DEF SnapshotsRead, newer, seen

\* A gain of the week (calculateWeeklyGain) is measured between snapshots of that week, and
\* one of an hour over an hour at least, whatever snapshots are missing and however few of
\* them are read: none that is left out would have been taken instead.
THEOREM GainsAlwaysOfTheirWindow ==
    ASSUME NEW videos, VideoData(videos), NEW now \in Int
    PROVE  GainsAreOfTheirWindow(videos, now)
<1> DEFINE read == ListForRanking(videos)
<1> SUFFICES ASSUME NEW v \in DOMAIN read
             PROVE  /\ WeeklyGain(read[v], now) # NULL =>
                         \E t, u \in KnownAt(videos[v]) :
                            /\ t \in now - Week - WeekTolerance..now - Week
                            /\ u \in t..now
                            /\ ~\E s \in KnownAt(videos[v]) : s \in u + 1..now \/ s \in t + 1..now - Week
                            /\ WeeklyGain(read[v], now)[1] = videos[v].seen[u] - videos[v].seen[t]
                    /\ \A i \in DOMAIN Hours :
                         Vph(read[v], Hours[i]) # NULL => Vph(read[v], Hours[i])[2] >= Hours[i]
  BY DEF GainsAreOfTheirWindow
<1>1. /\ VideoData(read) /\ v \in DOMAIN videos
      /\ \A t \in SnapshotsRead(videos[v]) : read[v].seen[t] = videos[v].seen[t]
      /\ KnownAt(read[v]) = KnownAt(videos[v]) \cap SnapshotsRead(videos[v])
  BY ListIs
<1> HIDE DEF read
<1>2. ASSUME WeeklyGain(read[v], now) # NULL
      PROVE  \E t, u \in KnownAt(videos[v]) :
                /\ t \in now - Week - WeekTolerance..now - Week
                /\ u \in t..now
                /\ ~\E s \in KnownAt(videos[v]) : s \in u + 1..now \/ s \in t + 1..now - Week
                /\ WeeklyGain(read[v], now)[1] = videos[v].seen[u] - videos[v].seen[t]
  <2>1. PICK t \in KnownAt(read[v]), u \in KnownAt(read[v]) :
           /\ t \in now - Week - WeekTolerance..now - Week
           /\ u \in t..now
           /\ ~\E s \in KnownAt(read[v]) : s \in u + 1..now \/ s \in t + 1..now - Week
           /\ WeeklyGain(read[v], now)[1] = read[v].seen[u] - read[v].seen[t]
    <3>1. \E t, u \in KnownAt(read[v]) :
             /\ t \in now - Week - WeekTolerance..now - Week
             /\ u \in t..now
             /\ ~\E s \in KnownAt(read[v]) : s \in u + 1..now \/ s \in t + 1..now - Week
             /\ WeeklyGain(read[v], now)[1] = read[v].seen[u] - read[v].seen[t]
      BY ONLY v \in DOMAIN read, now \in Int, <1>1, <1>2, WeeklyGainIs
    <3> QED BY ONLY <3>1
  <2>2. /\ {t, u} \subseteq KnownAt(videos[v]) /\ {t, u} \subseteq SnapshotsRead(videos[v])
        /\ read[v].seen[t] = videos[v].seen[t] /\ read[v].seen[u] = videos[v].seen[u]
    BY <1>1
  <2>3. KnownAt(videos[v]) \subseteq DOMAIN videos[v].seen /\ KnownAt(videos[v]) \subseteq Int
    BY <1>1, SnapshotsAre DEF KnownAt
  <2>4. ASSUME NEW s \in KnownAt(videos[v]), s \in u + 1..now \/ s \in t + 1..now - Week
        PROVE  FALSE
    <3>1. s >= t
      BY <2>1, <2>2, <2>3, <2>4
    <3>2. s \in SnapshotsRead(videos[v])
      BY <1>1, <2>2, <2>3, <3>1, NewerIsRead
    <3>3. s \in KnownAt(read[v])
      BY <1>1, <3>2
    <3> QED BY <2>1, <2>4, <3>3
  <2> QED BY <2>1, <2>2, <2>4
<1>3. \A i \in DOMAIN Hours : Vph(read[v], Hours[i]) # NULL => Vph(read[v], Hours[i])[2] >= Hours[i]
  BY <1>1, WeeklyGainIs
<1> QED BY <1>2, <1>3

----------------------------------------------------------------------------
\* The tables of one channel: its figures are numbers where they are known.
PageData(t, c, baseline) ==
    /\ {"shown", "today", "row", "current"} \subseteq DOMAIN t
    /\ t.today \in Int /\ baseline \in Int /\ baseline < t.today
    /\ Figure(t.current[c].figure) /\ Figure(t.latest[c].figure)
    /\ \A d \in baseline..t.today : Figure(CountOn(t, c, d))

\* The total of a channel alone is its own gain.
LEMMA LoneTotal ==
    ASSUME NEW b, NEW c, b.shown = {c}, NEW baseline, Figure(b.current[c].figure),
           Figure(CountOn(b, c, baseline)), SumComplete(TotalDeltas(b, baseline)) # NULL
    PROVE  /\ b.current[c].figure \in Int /\ CountOn(b, c, baseline) \in Int
           /\ SumComplete(TotalDeltas(b, baseline)) = b.current[c].figure - CountOn(b, c, baseline)
<1> DEFINE f == TotalDeltas(b, baseline)
<1>1. DOMAIN f = {c}
  BY DEF TotalDeltas
<1>2. f[c] = IF ScannedOn(b, c, b.today) THEN Gain(b.current[c].figure, CountOn(b, c, baseline)) ELSE NULL
  BY DEF TotalDeltas
<1>3. Figure(f[c])
  BY <1>2 DEF Figure, Gain
<1> HIDE DEF f
<1>4. Figures(f)
  BY <1>1, <1>3, FS_Singleton DEF Figures
<1>5. f[c] # NULL /\ SumComplete(f) = SumOver(f, {c})
  BY <1>1, <1>4, StrictSum DEF f
<1>6. f[c] \in Int /\ b.current[c].figure \in Int /\ CountOn(b, c, baseline) \in Int
      /\ f[c] = b.current[c].figure - CountOn(b, c, baseline)
  BY <1>2, <1>3, <1>5 DEF Figure, Gain
<1>7. SumOver(f, {c}) = f[c]
  <2>1. IsFiniteSet({c}) /\ \A k \in {c} : f[k] \in Int
    BY <1>6, FS_Singleton
  <2>2. SumOver(f, {c}) = SumOver(f, {c} \ {c}) + f[c]
    BY ONLY <2>1, SumAddsAny
  <2>3. {c} \ {c} = {}
    OBVIOUS
  <2>4. SumOver(f, {c} \ {c}) = 0
    BY ONLY <2>3, SumOfNone
  <2>5. f[c] \in Int
    BY <1>6
  <2> QED BY ONLY <2>2, <2>4, <2>5
<1> QED BY <1>5, <1>6, <1>7 DEF f

\* Days told of and days that are whole, of sets of days that are so one by one.
LEMMA DaysCompared ==
    ASSUME NEW days, IsFiniteSet(days), NEW today \in days,
           NEW covered \in SUBSET days, NEW partly \in SUBSET (days \ covered),
           NEW complete \in SUBSET days, NEW partial \in SUBSET (days \ complete),
           \A d \in days \ {today} : d \in covered <=> d \in complete
    PROVE  /\ Cardinality(covered) \in Nat /\ Cardinality(complete) \in Nat
           /\ Cardinality(covered) <= Cardinality(complete) + 1
           /\ Cardinality(complete) <= Cardinality(covered) + 1
           /\ covered \cup partly = complete \cup partial =>
                Cardinality(covered) + Cardinality(partly) = Cardinality(complete) + Cardinality(partial)
           /\ (today \in covered => today \in complete) => Cardinality(covered) <= Cardinality(complete)
           /\ (today \in covered <=> today \in complete) => covered = complete
<1> DEFINE common == covered \ {today}
<1>1. common = complete \ {today} /\ common \subseteq days /\ today \notin common
  OBVIOUS
<1> HIDE DEF common
<1>2. \A S : S \subseteq days => IsFiniteSet(S) /\ Cardinality(S) \in Nat
  BY FS_Subset, FS_CardinalityType
<1>3. Cardinality(common \cup {today}) = Cardinality(common) + 1 /\ Cardinality(common) \in Nat
  BY <1>1, <1>2, FS_AddElement
<1>4. \A S \in {covered, complete} :
         Cardinality(S) = IF today \in S THEN Cardinality(common) + 1 ELSE Cardinality(common)
  <2>1. \A S \in {covered, complete} : S = IF today \in S THEN common \cup {today} ELSE common
    BY <1>1 DEF common
  <2> QED BY <1>3, <2>1
<1>5. ASSUME NEW S, NEW T, S \subseteq days, T \subseteq days \ S
      PROVE  Cardinality(S \cup T) = Cardinality(S) + Cardinality(T)
  <2>1. IsFiniteSet(S) /\ IsFiniteSet(T) /\ S \cap T = {} /\ Cardinality({}) = 0
    BY <1>2, <1>5, FS_EmptySet
  <2>2. Cardinality(S \cup T) = Cardinality(S) + Cardinality(T) - Cardinality(S \cap T)
    BY ONLY <2>1, FS_Union
  <2>3. Cardinality(S) \in Nat /\ Cardinality(T) \in Nat
    BY ONLY <2>1, FS_CardinalityType
  <2>4. Cardinality(S \cap T) = 0
    BY ONLY <2>1, Zenon
  <2> QED BY ONLY <2>2, <2>3, <2>4
<1>6. /\ Cardinality(covered \cup partly) = Cardinality(covered) + Cardinality(partly)
      /\ Cardinality(complete \cup partial) = Cardinality(complete) + Cardinality(partial)
  BY <1>5
<1>7. (today \in covered <=> today \in complete) => covered = complete
  BY <1>1 DEF common
<1>8. /\ Cardinality(covered) \in Nat /\ Cardinality(complete) \in Nat
      /\ Cardinality(covered) <= Cardinality(complete) + 1
      /\ Cardinality(complete) <= Cardinality(covered) + 1
      /\ (today \in covered => today \in complete) => Cardinality(covered) <= Cardinality(complete)
  BY <1>3, <1>4
<1> QED BY <1>6, <1>7, <1>8

\* The page of a channel (publicIntelligence) and the dashboard of it alone, of every table:
\* their gains differ by what the snapshot and the row they read differ, their whole days by
\* today at most; and what they read of one collection they tell alike.
THEOREM PagesAlwaysAgree ==
    ASSUME NEW t, NEW c, NEW baseline, PageData(t, c, baseline), NEW old \in BOOLEAN, NEW exact, NEW catalog
    PROVE  PagesAgree(t, c, baseline, old, IntelligenceOf(t, c, baseline, old, exact, catalog))
<1> DEFINE a == IntelligenceOf(t, c, baseline, old, exact, catalog)
           b == [t EXCEPT !.shown = {c}]
           board == Trends(b, baseline)
           days == baseline + 1..t.today
           covered == {d \in days : Covers(t, c, d, old)}
           partly == {d \in days : PartlyCovers(t, c, d, old)}
           complete == {d \in days : CompleteDay(b, d)}
           partial == {d \in days \ complete : HasSnapshot(b, d)}
           same == t.latest[c] = t.current[c]
           frozenBefore == WholeOn(t, c, t.today) /\ ~ScannedOn(t, c, t.today)
<1>1. b.shown = {c} /\ b.today = t.today /\ b.row = t.row /\ b.current = t.current
  BY DEF PageData
<1> HIDE DEF b
<1>2. \A d : /\ ScannedOn(b, c, d) = ScannedOn(t, c, d) /\ CountOn(b, c, d) = CountOn(t, c, d)
             /\ WholeOn(b, c, d) = WholeOn(t, c, d)
  BY <1>1 DEF ScannedOn, CountOn, WholeOn
<1>3. /\ t.today \in Int /\ baseline \in Int /\ IsFiniteSet(days) /\ baseline \in baseline..t.today
      /\ t.today \in days
  <2>1. t.today \in Int /\ baseline \in Int /\ baseline < t.today
    BY DEF PageData
  <2>2. baseline + 1 \in Int /\ baseline \in baseline..t.today /\ t.today \in days
    BY <2>1
  <2>3. IsFiniteSet(days)
    BY ONLY <2>1, <2>2, FS_Interval
  <2> QED BY <2>1, <2>2, <2>3
<1>4. /\ board.total = SumComplete(TotalDeltas(b, baseline))
      /\ board.completeDays = Cardinality(complete) /\ board.partialDays = Cardinality(partial)
  BY <1>1 DEF Trends
<1>5. /\ a.views = CurrentCounter(t, c, old) /\ a.gained = DerivedCounter(t, c, baseline, old)
      /\ a.published = CatalogCounter(catalog.published, catalog)
      /\ a.completeDays = Cardinality(covered) /\ a.partialDays = Cardinality(partly)
      /\ "STALE_CURRENT_SNAPSHOT" \in a.warnings => HasSnapshotRow(t, c) /\ old
  BY DEF IntelligenceOf
<1>6. ASSUME a.gained.value # NULL, board.total # NULL
      PROVE  a.gained.value - board.total = t.latest[c].figure - t.current[c].figure
  <2>1. /\ board.total = t.current[c].figure - CountOn(t, c, baseline)
        /\ t.current[c].figure \in Int /\ CountOn(t, c, baseline) \in Int
    <3>1. Figure(b.current[c].figure) /\ Figure(CountOn(b, c, baseline))
      BY <1>1, <1>2, <1>3 DEF PageData
    <3> QED BY <1>1, <1>2, <1>4, <1>6, <3>1, LoneTotal
  <2>2. a.gained.value = t.latest[c].figure - CountOn(t, c, baseline) /\ t.latest[c].figure # NULL
    BY <1>5, <1>6 DEF DerivedCounter, CurrentCounter, Told
  <2>3. t.latest[c].figure \in Int
    BY <2>2 DEF PageData, Figure
  <2> QED BY <2>1, <2>2, <2>3
<1>7. ASSUME NEW d \in days
      PROVE  /\ d \in complete <=> IF d = t.today THEN ScannedOn(t, c, d) /\ t.current[c].whole
                                   ELSE WholeOn(t, c, d)
             /\ d \in covered <=> IF d = t.today /\ LatestOn(t, c, d) THEN ~old /\ t.latest[c].whole
                                  ELSE WholeOn(t, c, d)
             /\ d \in partial <=> d \notin complete /\ (t.row[c][d] # NULL \/ (d = t.today /\ ScannedOn(t, c, d)))
             /\ d \in partly <=> d \notin covered /\ (t.row[c][d] # NULL \/ (d = t.today /\ LatestOn(t, c, d)))
  <2>1. CompleteDay(b, d) <=> IF d = t.today THEN ScannedOn(t, c, d) /\ t.current[c].whole
                              ELSE WholeOn(t, c, d)
    BY <1>1, <1>2 DEF CompleteDay, HasCurrent
  <2>2. HasSnapshot(b, d) <=> t.row[c][d] # NULL \/ (d = t.today /\ ScannedOn(t, c, d))
    BY <1>1, <1>2 DEF HasSnapshot
  <2>3. Covers(t, c, d, old) <=> IF d = t.today /\ LatestOn(t, c, d) THEN ~old /\ t.latest[c].whole
                                 ELSE WholeOn(t, c, d)
    BY DEF Covers
  <2>4. PartlyCovers(t, c, d, old) <=>
            ~Covers(t, c, d, old) /\ (t.row[c][d] # NULL \/ (d = t.today /\ LatestOn(t, c, d)))
    BY DEF PartlyCovers
  <2> HIDE DEF days
  <2> QED BY <2>1, <2>2, <2>3, <2>4
<1>8. /\ covered \subseteq days /\ partly \subseteq days \ covered
      /\ complete \subseteq days /\ partial \subseteq days \ complete
  BY DEF PartlyCovers
<1> HIDE DEF covered, complete, partly, partial, days, a, board
<1>9. /\ Cardinality(covered) \in Nat /\ Cardinality(complete) \in Nat
      /\ Cardinality(covered) <= Cardinality(complete) + 1
      /\ Cardinality(complete) <= Cardinality(covered) + 1
      /\ covered \cup partly = complete \cup partial =>
           Cardinality(covered) + Cardinality(partly) = Cardinality(complete) + Cardinality(partial)
      /\ (t.today \in covered => t.today \in complete) => Cardinality(covered) <= Cardinality(complete)
      /\ (t.today \in covered <=> t.today \in complete) => covered = complete
  <2>1. \A d \in days \ {t.today} : d \in covered <=> d \in complete
    BY <1>7
  <2>2. /\ covered \in SUBSET days /\ partly \in SUBSET (days \ covered)
        /\ complete \in SUBSET days /\ partial \in SUBSET (days \ complete)
        /\ IsFiniteSet(days) /\ t.today \in days
    BY <1>3, <1>8
  <2> QED BY ONLY <2>1, <2>2, DaysCompared
<1>10. a.completeDays - board.completeDays \in -1..1
  BY <1>4, <1>5, <1>9
<1>11. ASSUME same PROVE a.completeDays + a.partialDays = board.completeDays + board.partialDays
  <2>1. LatestOn(t, c, t.today) = ScannedOn(t, c, t.today)
    BY <1>11 DEF LatestOn, ScannedOn
  <2>2. \A d \in days : d \in covered \cup partly <=> d \in complete \cup partial
    <3>1. \A d \in days : WholeOn(t, c, d) => t.row[c][d] # NULL
      BY DEF WholeOn
    <3> QED BY <1>7, <2>1, <3>1
  <2>3. covered \cup partly = complete \cup partial
    BY <1>8, <2>2
  <2> QED BY <1>4, <1>5, <1>9, <2>3
<1>12. ASSUME same, ~frozenBefore
       PROVE  a.completeDays <= board.completeDays /\ (~old => a.completeDays = board.completeDays)
  <2>1. LatestOn(t, c, t.today) = ScannedOn(t, c, t.today) /\ t.latest[c].whole = t.current[c].whole
    BY <1>12 DEF LatestOn, ScannedOn
  <2>2. /\ t.today \in covered => t.today \in complete
        /\ ~old => (t.today \in covered <=> t.today \in complete)
    BY <1>3, <1>7, <1>12, <2>1
  <2>3. Cardinality(covered) <= Cardinality(complete) /\ (~old => covered = complete)
    BY <1>9, <2>2
  <2> QED BY <1>4, <1>5, <2>3
<1>13. ASSUME a.gained.status = "READY"
       PROVE  ~old /\ WholeOn(t, c, baseline) /\ "STALE_CURRENT_SNAPSHOT" \notin a.warnings
  <2>1. ~old /\ WholeOn(t, c, baseline)
    BY <1>5, <1>13 DEF DerivedCounter, Told
  <2> QED BY <1>5, <2>1
<1>14. ASSUME NEW m \in {a.views, a.gained, a.published} PROVE (m.reason = NULL) <=> (m.status = "READY")
  <2>1. CASE m = a.views
    BY <1>5, <2>1, ReasonAssumption DEF CurrentCounter
  <2>2. CASE m = a.gained
    BY <1>5, <2>2, ReasonAssumption DEF DerivedCounter, Told
  <2>3. CASE m = a.published
    BY <1>5, <2>3, ReasonAssumption DEF CatalogCounter, Told
  <2> QED BY <1>14, <2>1, <2>2, <2>3
<1> HIDE DEF same, frozenBefore
<1>15. PagesAgree(t, c, baseline, old, a)
  BY <1>6, <1>10, <1>11, <1>12, <1>13, <1>14 DEF PagesAgree, board, b, same, frozenBefore
<1> QED BY <1>15 DEF a

----------------------------------------------------------------------------
\* Of finitely many there is one that none comes before.
LEMMA MinimalMember ==
    ASSUME NEW S, IsFiniteSet(S), S # {}, NEW before,
           \A x \in S : <<x, x>> \notin before,
           \A x, y, z \in S : <<x, y>> \in before /\ <<y, z>> \in before => <<x, z>> \in before
    PROVE  \E x \in S : \A y \in S : <<y, x>> \notin before
<1> DEFINE first(x) == {y \in S : <<y, x>> \in before}
           F == {first(x) : x \in S}
<1>1. F \subseteq FiniteSubsetsOf(S)
  <2>1. \A x \in S : first(x) \in SUBSET S
    OBVIOUS
  <2> HIDE DEF first
  <2>2. \A x \in S : IsFiniteSet(first(x))
    BY <2>1, FS_Subset
  <2> QED BY <2>1, <2>2 DEF FiniteSubsetsOf
<1>2. F # {}
  <2>1. PICK x \in S : first(x) \in F
    OBVIOUS
  <2> QED BY <2>1
<1>3. PICK U \in F : \A V \in F : ~(<<V, U>> \in StrictSubsetOrdering(S))
  <2> HIDE DEF F
  <2> QED BY <1>1, <1>2, FS_StrictSubsetOrderingWellFounded, WFMin
<1>4. PICK x \in S : U = first(x)
  BY <1>3
<1>5. ASSUME NEW y \in S, <<y, x>> \in before PROVE FALSE
  <2>1. first(y) \subseteq first(x) /\ y \in first(x) /\ y \notin first(y)
    BY <1>5
  <2>2. <<first(y), first(x)>> \in StrictSubsetOrdering(S)
    BY <2>1 DEF StrictSubsetOrdering
  <2> QED BY <1>3, <1>4, <2>2
<1> QED BY <1>5

\* What a function takes its arguments to is finite when they are.
LEMMA FiniteRange ==
    ASSUME NEW f, IsFiniteSet(DOMAIN f)
    PROVE  IsFiniteSet({f[x] : x \in DOMAIN f})
<1> DEFINE T == {f[x] : x \in DOMAIN f}
           g == [x \in DOMAIN f |-> f[x]]
<1>1. g \in Surjection(DOMAIN f, T)
  BY DEF Surjection
<1> HIDE DEF g, T
<1>2. IsFiniteSet(T)
  BY <1>1, FS_Surjection
<1> QED BY <1>2 DEF T

LEMMA TimesKeeps ==
    ASSUME NEW x \in Int, NEW y \in Int, NEW n \in Nat \ {0}
    PROVE  x <= y <=> x * n <= y * n
  OBVIOUS

LEMMA QuotientIs ==
    ASSUME NEW a \in Int, NEW n \in Nat \ {0}
    PROVE  a \div n \in Int /\ (a \div n) * n <= a /\ a < (a \div n) * n + n
  OBVIOUS

\* Fractions whose second number is positive are ordered: a / x before b / y when a * y < b * x.
LEMMA LessFollows ==
    ASSUME NEW a \in Int, NEW b \in Int, NEW c \in Int,
           NEW x \in Nat \ {0}, NEW y \in Nat \ {0}, NEW z \in Nat \ {0}
    PROVE  /\ a * y < b * x /\ b * z < c * y => a * z < c * x
           /\ a * y <= b * x /\ b * z <= c * y => a * z <= c * x
<1>1. /\ a * y \in Int /\ b * x \in Int /\ b * z \in Int /\ c * y \in Int
      /\ a * z \in Int /\ c * x \in Int
  OBVIOUS
<1>2. (a * z) * y = (a * y) * z /\ (c * x) * y = (c * y) * x /\ (b * x) * z = (b * z) * x
  OBVIOUS
<1>3. ASSUME a * y <= b * x, b * z <= c * y PROVE a * z <= c * x
  <2>1. (a * y) * z <= (b * x) * z /\ (b * z) * x <= (c * y) * x
    BY <1>1, <1>3, TimesKeeps
  <2>2. (a * z) * y <= (c * x) * y
    BY <1>1, <1>2, <2>1
  <2> QED BY <1>1, <2>2, TimesKeeps
<1>4. ASSUME a * y < b * x, b * z < c * y PROVE a * z < c * x
  <2>1. ~((b * x) * z <= (a * y) * z) /\ (b * z) * x <= (c * y) * x
    BY <1>1, <1>4, TimesKeeps
  <2>2. ~((c * x) * y <= (a * z) * y)
    BY <1>1, <1>2, <2>1
  <2> QED BY <1>1, <2>2, TimesKeeps
<1> QED BY <1>3, <1>4

\* The scale of a chart of values: 0 and all of them are between its ends, which differ.
LEMMA ScaleIs ==
    ASSUME NEW values, IsFiniteSet(values), values \subseteq Int
    PROVE  /\ Lowest(values) \in Int /\ Highest(values) \in Int /\ Lowest(values) < Highest(values)
           /\ \A v \in values : v \in Int /\ Lowest(values) <= v /\ v <= Highest(values)
<1> DEFINE all == values \cup {0}
<1>1. IsFiniteSet(all) /\ all \subseteq Int /\ all # {}
  BY FS_AddElement
<1>2. Min(all) \in all /\ (\A v \in all : Min(all) <= v) /\ Max(all) \in all /\ \A v \in all : Max(all) >= v
  <2> HIDE DEF all
  <2> QED BY <1>1, FirstMember, GreatestIs
<1>3. Min(all) \in Int /\ Max(all) \in Int /\ \A v \in values : v \in Int /\ Min(all) <= v /\ v <= Max(all)
  BY <1>1, <1>2
<1>4. Min(all) <= Max(all)
  BY <1>2, <1>3
<1>5. Lowest(values) = Min(all) /\ Highest(values) = IF Min(all) = Max(all) THEN Min(all) + 1 ELSE Max(all)
  BY DEF Lowest, Highest
<1> HIDE DEF all
<1> QED BY <1>3, <1>4, <1>5

\* A height of a scale is in the chart, lower for less, and over a line of the grid for no
\* more than its label.
LEMMA HeightIs ==
    ASSUME NEW values, IsFiniteSet(values), values \subseteq Int, NEW v \in values
    PROVE  /\ Height(values, v) \in 0..Thousand
           /\ \A w \in values : w > v => Height(values, w) <= Height(values, v)
           /\ \A step \in 0..3 : Height(values, v) * 3 > Thousand * step => v <= GridLabel(values, step)
<1> DEFINE low == Lowest(values)
           high == Highest(values)
           scale == high - low
           h(w) == ((high - w) * Thousand) \div scale
<1>1. /\ low \in Int /\ high \in Int /\ low < high
      /\ \A w \in values : w \in Int /\ low <= w /\ w <= high
  BY ScaleIs
<1>2. /\ \A w : Height(values, w) = h(w)
      /\ \A step : GridLabel(values, step) = high - (scale * step) \div 3
  BY DEF Height, GridLabel
<1> HIDE DEF low, high
<1>3. scale \in Nat \ {0} /\ scale = high - low
  BY <1>1
<1> HIDE DEF scale
<1>4. ASSUME NEW w \in values
      PROVE  /\ high - w \in Int /\ (high - w) * Thousand \in Int
             /\ h(w) \in Int /\ h(w) * scale <= (high - w) * Thousand
             /\ (high - w) * Thousand < h(w) * scale + scale
  <2>1. high - w \in Int /\ (high - w) * Thousand \in Int
    BY <1>1 DEF Thousand
  <2> QED BY <1>3, <2>1, QuotientIs
<1> HIDE DEF h
<1>5. ASSUME NEW w \in values PROVE h(w) \in 0..Thousand
  <2>1. h(w) \in Int /\ h(w) + 1 \in Int /\ (h(w) + 1) * scale = h(w) * scale + scale
    BY <1>3, <1>4
  <2>2. 0 <= (high - w) * Thousand /\ (high - w) * Thousand <= scale * Thousand
    BY <1>1, <1>3 DEF Thousand
  <2>3. h(w) * scale <= Thousand * scale /\ ~((h(w) + 1) * scale <= 0 * scale)
    BY <1>3, <1>4, <2>1, <2>2 DEF Thousand
  <2>4. h(w) <= Thousand /\ ~(h(w) + 1 <= 0)
    <3>1. Thousand \in Int
      BY DEF Thousand
    <3> QED BY <1>3, <2>1, <2>3, <3>1, TimesKeeps
  <2> QED BY <2>1, <2>4 DEF Thousand
<1>6. ASSUME NEW w \in values, w > v PROVE h(w) <= h(v)
  <2>1. (high - w) * Thousand <= (high - v) * Thousand
    BY <1>1, <1>6 DEF Thousand
  <2>2. h(v) \in Int /\ h(v) + 1 \in Int /\ (h(v) + 1) * scale = h(v) * scale + scale
    BY <1>3, <1>4
  <2>3. h(w) \in Int /\ h(w) * scale \in Int /\ h(v) * scale \in Int
    BY <1>3, <1>4
  <2>4. ~((h(v) + 1) * scale <= h(w) * scale)
    BY <1>3, <1>4, <2>1, <2>2, <2>3
  <2>5. ~(h(v) + 1 <= h(w))
    BY <1>3, <2>2, <2>3, <2>4, TimesKeeps
  <2> QED BY <2>2, <2>3, <2>5
<1>7. ASSUME NEW step \in 0..3, h(v) * 3 > Thousand * step PROVE v <= high - (scale * step) \div 3
  <2> DEFINE third == (scale * step) \div 3
  <2>1. scale * step \in Int /\ third \in Int /\ third * 3 <= scale * step
    BY <1>3, QuotientIs
  <2>2. h(v) * 3 \in Int /\ Thousand * step \in Int /\ Thousand * step <= h(v) * 3 /\ h(v) \in Int
    BY <1>4, <1>7 DEF Thousand
  <2>3. (Thousand * step) * scale <= (h(v) * 3) * scale
    BY <1>3, <2>2, TimesKeeps
  <2>4. (Thousand * step) * scale = Thousand * (scale * step) /\ (h(v) * 3) * scale = 3 * (h(v) * scale)
    BY <1>3, <2>2 DEF Thousand
  <2>5. h(v) * scale \in Int /\ h(v) * scale <= (high - v) * Thousand /\ high - v \in Int
    BY <1>3, <1>4
  <2> HIDE DEF third
  <2>6. Thousand * (scale * step) <= 3 * ((high - v) * Thousand)
    BY <2>1, <2>3, <2>4, <2>5 DEF Thousand
  <2>7. scale * step <= 3 * (high - v)
    BY <2>1, <2>5, <2>6 DEF Thousand
  <2>8. v \in Int /\ high \in Int /\ third <= high - v
    BY <1>1, <2>1, <2>5, <2>7
  <2>9. v <= high - third
    BY <2>1, <2>8
  <2> QED BY <2>9 DEF third
<1> QED BY <1>2, <1>5, <1>6, <1>7

----------------------------------------------------------------------------
\* The days of a chart: finitely many, each with a metric that its contract takes.
SeriesData(series) ==
    /\ DOMAIN series \subseteq Int /\ IsFiniteSet(DOMAIN series)
    /\ \A d \in DOMAIN series : series[d] \in Metrics /\ MetricParses(series[d])

HasData(series) == {d \in DOMAIN series : series[d].value # NULL}

\* Which days are known, and what is known of a day by its status.
LEMMA DaysOfSeries ==
    ASSUME NEW series, SeriesData(series)
    PROVE  /\ HasData(series) \subseteq Int /\ IsFiniteSet(HasData(series))
           /\ HasData(series) = {d \in DOMAIN series : series[d].status # "UNAVAILABLE"}
           /\ \A d \in HasData(series) :
                /\ series[d].value \in Int /\ series[d].covered \in Nat /\ series[d].total \in Nat \ {0}
                /\ d \notin PartialDays(series) => series[d].covered = series[d].total
           /\ PartialDays(series) \subseteq HasData(series)
<1>1. HasData(series) \in SUBSET DOMAIN series
  BY DEF HasData
<1>2. ASSUME NEW d \in DOMAIN series
      PROVE  /\ (series[d].status # "UNAVAILABLE") = (series[d].value # NULL)
             /\ series[d].value # NULL =>
                  /\ series[d].value \in Int /\ series[d].covered \in Nat /\ series[d].total \in Nat \ {0}
                  /\ series[d].status # "PARTIAL" => series[d].covered = series[d].total
  <2>1. /\ series[d].value \in Int \cup {NULL} /\ series[d].covered \in Nat /\ series[d].total \in Nat
        /\ series[d].status \in {"COMPLETE", "PARTIAL", "UNAVAILABLE"}
    BY DEF SeriesData, Metrics
  <2>2. MetricParses(series[d])
    BY DEF SeriesData
  <2>3. CASE series[d].status = "UNAVAILABLE"
    BY <2>2, <2>3 DEF MetricParses
  <2>4. CASE series[d].status = "PARTIAL"
    BY <2>1, <2>2, <2>4 DEF MetricParses
  <2>5. CASE series[d].status = "COMPLETE"
    BY <2>1, <2>2, <2>5 DEF MetricParses
  <2> QED BY <2>1, <2>3, <2>4, <2>5
<1>3. IsFiniteSet(HasData(series)) /\ HasData(series) \subseteq Int
  BY <1>1, FS_Subset DEF SeriesData
<1>4. HasData(series) = {d \in DOMAIN series : series[d].status # "UNAVAILABLE"}
  BY <1>2 DEF HasData
<1>5. PartialDays(series) \subseteq HasData(series)
  BY <1>4 DEF PartialDays
<1> QED BY <1>2, <1>3, <1>4, <1>5 DEF HasData, PartialDays

\* Every day that is known is in a segment, with the day after when that one is known; and
\* the days of a segment are known.
LEMMA SegmentsAre ==
    ASSUME NEW series, SeriesData(series)
    PROVE  /\ \A segment \in Segments(series) : segment \subseteq HasData(series)
           /\ \A d \in HasData(series) :
                \E segment \in Segments(series) : d \in segment /\ (d + 1 \in HasData(series) => d + 1 \in segment)
<1> DEFINE known == HasData(series)
           ends == {k \in known \X known : /\ k[1] <= k[2] /\ k[1]..k[2] \subseteq known
                                          /\ {k[1] - 1, k[2] + 1} \cap known = {}}
<1>1. Segments(series) = {k[1]..k[2] : k \in ends}
  BY DaysOfSeries DEF Segments
<1>2. known \subseteq Int /\ IsFiniteSet(known)
  BY DaysOfSeries
<1> HIDE DEF known
<1>3. \A segment \in Segments(series) : segment \subseteq known
  BY <1>1
<1>4. ASSUME NEW d \in known
      PROVE  \E segment \in Segments(series) : d \in segment /\ (d + 1 \in known => d + 1 \in segment)
  <2> DEFINE before == {x \in known : x <= d /\ x..d \subseteq known}
             after == {x \in known : d <= x /\ d..x \subseteq known}
             a == Min(before)
             b == Max(after)
  <2>1. d \in Int /\ d..d = {d}
    BY <1>2
  <2>2. before \in SUBSET known /\ after \in SUBSET known /\ d \in before /\ d \in after
    BY <2>1
  <2>3. /\ IsFiniteSet(before) /\ before \subseteq Int /\ before # {}
        /\ IsFiniteSet(after) /\ after \subseteq Int /\ after # {}
    <3> HIDE DEF before, after
    <3> QED BY <1>2, <2>2, FS_Subset
  <2>4. a \in before /\ (\A x \in before : a <= x) /\ b \in after /\ \A x \in after : b >= x
    <3> HIDE DEF before, after
    <3> QED BY <2>3, FirstMember, GreatestIs
  <2>5. /\ a \in Int /\ a \in known /\ a <= d /\ a..d \subseteq known
        /\ b \in Int /\ b \in known /\ d <= b /\ d..b \subseteq known
    BY <1>2, <2>4
  <2> HIDE DEF a, b
  <2>6. a..b \subseteq known
    <3>1. ASSUME NEW x \in a..b PROVE x \in a..d \/ x \in d..b
      BY <2>1, <2>5
    <3> QED BY <2>5, <3>1
  <2>7. a - 1 \notin known
    <3>1. SUFFICES ASSUME a - 1 \in known PROVE FALSE
      OBVIOUS
    <3>2. (a - 1)..d \subseteq known
      <4>1. ASSUME NEW x \in (a - 1)..d PROVE x = a - 1 \/ x \in a..d
        BY <2>1, <2>5
      <4> QED BY <2>5, <3>1, <4>1
    <3>3. a - 1 <= d /\ ~(a <= a - 1)
      BY <2>1, <2>5
    <3>4. a - 1 \in before
      BY <3>1, <3>2, <3>3
    <3> HIDE DEF before
    <3> QED BY <2>4, <3>3, <3>4
  <2>8. b + 1 \notin known
    <3>1. SUFFICES ASSUME b + 1 \in known PROVE FALSE
      OBVIOUS
    <3>2. d..(b + 1) \subseteq known
      <4>1. ASSUME NEW x \in d..(b + 1) PROVE x = b + 1 \/ x \in d..b
        BY <2>1, <2>5
      <4> QED BY <2>5, <3>1, <4>1
    <3>3. d <= b + 1 /\ ~(b >= b + 1)
      BY <2>1, <2>5
    <3>4. b + 1 \in after
      BY <3>1, <3>2, <3>3
    <3> HIDE DEF after
    <3> QED BY <2>4, <3>3, <3>4
  <2>9. a <= b
    BY <2>1, <2>5
  <2>10. <<a, b>> \in ends
    BY <2>5, <2>6, <2>7, <2>8, <2>9
  <2>11. a..b \in Segments(series)
    <3> HIDE DEF ends
    <3>1. <<a, b>>[1]..<<a, b>>[2] \in Segments(series)
      BY <1>1, <2>10
    <3> QED BY <3>1
  <2>12. d \in a..b /\ (d + 1 \in known => d + 1 \in a..b)
    <3>1. d \in a..b
      BY <2>1, <2>5
    <3>2. ASSUME d + 1 \in known PROVE d + 1 \in a..b
      <4>1. d # b
        BY <2>8, <3>2
      <4> QED BY <2>1, <2>5, <4>1
    <3> QED BY <3>1, <3>2
  <2> QED BY <2>11, <2>12
<1> QED BY <1>3, <1>4 DEF known

\* A chart whose dashed edges are all the edges of its segments that touch a partial day.
LEMMA ChartTells ==
    ASSUME NEW series, SeriesData(series), NEW dashed,
           \A segment \in Segments(series) : \A e \in EdgesOf(segment) \ dashed :
              {e[1], e[2]} \cap PartialDays(series) = {}
    PROVE  ChartTellsTheDays(series, Chart(series, dashed))
<1> DEFINE chart == Chart(series, dashed)
           values == {Drawn(series[d]) : d \in DOMAIN series}
           known == HasData(series)
<1>1. /\ chart.height = [d \in DOMAIN series |-> Height(values, Drawn(series[d]))]
      /\ chart.grid = [step \in 0..3 |-> GridLabel(values, step)]
      /\ chart.edges = UNION {EdgesOf(segment) : segment \in Segments(series)}
      /\ chart.dashed = dashed /\ chart.dots = UNION Segments(series)
  BY DEF Chart
<1> HIDE DEF chart
<1>2. ASSUME NEW d \in DOMAIN series PROVE Drawn(series[d]) \in Int
  BY DEF SeriesData, Metrics, Drawn
<1>3. IsFiniteSet(values) /\ values \subseteq Int
  <2> DEFINE f == [d \in DOMAIN series |-> Drawn(series[d])]
  <2>1. IsFiniteSet(DOMAIN f)
    BY DEF SeriesData
  <2>2. values = {f[x] : x \in DOMAIN f}
    OBVIOUS
  <2> HIDE DEF f
  <2>3. IsFiniteSet(values)
    BY <2>1, <2>2, FiniteRange
  <2> QED BY <1>2, <2>3
<1>4. known \subseteq Int /\ known \subseteq DOMAIN series
  BY DaysOfSeries DEF HasData
<1>5. chart.dots = known
  <2>1. chart.dots \subseteq known
    BY <1>1, SegmentsAre
  <2>2. known \subseteq chart.dots
    BY <1>1, SegmentsAre
  <2> QED BY <2>1, <2>2
<1>6. chart.edges = {e \in (DOMAIN series) \X (DOMAIN series) : e[2] = e[1] + 1 /\ e[1] \in known /\ e[2] \in known}
  <2>1. ASSUME NEW e \in chart.edges
        PROVE  e \in (DOMAIN series) \X (DOMAIN series) /\ e[2] = e[1] + 1 /\ e[1] \in known /\ e[2] \in known
    <3>1. PICK segment \in Segments(series) : e \in EdgesOf(segment)
      BY <1>1
    <3>2. PICK d \in segment : d + 1 \in segment /\ e = <<d, d + 1>>
      BY <3>1 DEF EdgesOf
    <3>3. d \in known /\ d + 1 \in known
      BY <3>1, <3>2, SegmentsAre
    <3> QED BY <1>4, <3>2, <3>3
  <2>2. ASSUME NEW e \in (DOMAIN series) \X (DOMAIN series), e[2] = e[1] + 1, e[1] \in known, e[2] \in known
        PROVE  e \in chart.edges
    <3>1. e = <<e[1], e[1] + 1>>
      BY <2>2
    <3>2. PICK segment \in Segments(series) : e[1] \in segment /\ e[1] + 1 \in segment
      BY <2>2, SegmentsAre
    <3>3. <<e[1], e[1] + 1>> \in EdgesOf(segment)
      BY <3>2 DEF EdgesOf
    <3> QED BY <1>1, <3>1, <3>2, <3>3
  <2> QED BY <2>1, <2>2
<1>7. ASSUME NEW e \in chart.edges \ dashed, NEW i \in {1, 2} PROVE series[e[i]].covered = series[e[i]].total
  <2>1. PICK segment \in Segments(series) : e \in EdgesOf(segment)
    BY <1>1
  <2>2. {e[1], e[2]} \cap PartialDays(series) = {}
    BY <2>1
  <2>3. e[i] \in known /\ e[i] \notin PartialDays(series)
    BY <1>6, <2>2
  <2> QED BY <2>3, DaysOfSeries
<1>8. ASSUME NEW d \in DOMAIN series
      PROVE  /\ chart.height[d] \in 0..Thousand
             /\ \A c \in DOMAIN series :
                  Drawn(series[c]) > Drawn(series[d]) => chart.height[c] <= chart.height[d]
             /\ \A step \in 0..3 :
                  chart.height[d] * 3 > Thousand * step => Drawn(series[d]) <= chart.grid[step]
  <2>1. \A c \in DOMAIN series : Drawn(series[c]) \in values /\ chart.height[c] = Height(values, Drawn(series[c]))
    BY <1>1
  <2>2. \A step \in 0..3 : chart.grid[step] = GridLabel(values, step)
    BY <1>1
  <2> HIDE DEF values
  <2>3. /\ Height(values, Drawn(series[d])) \in 0..Thousand
        /\ \A w \in values : w > Drawn(series[d]) => Height(values, w) <= Height(values, Drawn(series[d]))
        /\ \A step \in 0..3 : Height(values, Drawn(series[d])) * 3 > Thousand * step
                                => Drawn(series[d]) <= GridLabel(values, step)
    BY <1>3, <2>1, HeightIs
  <2> QED BY <2>1, <2>2, <2>3
<1>9. \A d \in DOMAIN series : d \in known <=> series[d].value # NULL
  BY DEF HasData
<1>10. /\ chart.edges = {e \in (DOMAIN series) \X (DOMAIN series) :
                           /\ e[2] = e[1] + 1
                           /\ e[1] \in DOMAIN series /\ series[e[1]].value # NULL
                           /\ e[2] \in DOMAIN series /\ series[e[2]].value # NULL}
       /\ chart.dots = {d \in DOMAIN series : series[d].value # NULL}
  BY <1>5, <1>6 DEF HasData
<1> HIDE DEF known, values
<1> QED BY <1>1, <1>7, <1>8, <1>10 DEF ChartTellsTheDays, chart

\* A metric observed of figures is one of a chart.
LEMMA ObservedType ==
    ASSUME NEW f, Figures(f)
    PROVE  Observed(f) \in Metrics /\ MetricParses(Observed(f))
<1>1. /\ Cardinality(Known(f)) \in Nat /\ Cardinality(DOMAIN f) \in Nat /\ Total(f) \in Int
  BY KnownFigures
<1>2. Observed(f) \in Metrics
  BY <1>1 DEF Observed, Metrics
<1> QED BY <1>2, ObservedParses

\* A day is covered least when no other is covered less, and there is one when a day is partial.
LEMMA LowestIs ==
    ASSUME NEW series, SeriesData(series)
    PROVE  /\ (LowestCoverage(series) = NULL) = (PartialDays(series) = {})
           /\ \A d \in PartialDays(series) :
                LowestCoverage(series).covered * series[d].total <= series[d].covered * LowestCoverage(series).total
<1> DEFINE partial == PartialDays(series)
           before == {k \in partial \X partial : Lower(series, k[1], k[2])}
           lowest == {d \in partial : ~\E c \in partial : Lower(series, c, d)}
<1>1. /\ partial \subseteq Int /\ IsFiniteSet(partial)
      /\ \A d \in partial : series[d].covered \in Nat /\ series[d].total \in Nat \ {0}
      /\ \A d \in partial : series[d] \in Metrics
  <2>1. partial \in SUBSET HasData(series)
    BY DaysOfSeries
  <2>2. \A d \in partial : series[d] \in Metrics
    BY DEF PartialDays, SeriesData
  <2> HIDE DEF partial
  <2> QED BY <2>1, <2>2, DaysOfSeries, FS_Subset
<1> HIDE DEF partial
<1>2. \A c, d \in partial : <<c, d>> \in before <=> Lower(series, c, d)
  OBVIOUS
<1>3. ASSUME NEW x \in partial PROVE ~Lower(series, x, x)
  BY <1>1 DEF Lower
<1>4. ASSUME NEW x \in partial, NEW y \in partial, NEW z \in partial, Lower(series, x, y), Lower(series, y, z)
      PROVE  Lower(series, x, z)
  <2> DEFINE a == series[x].covered
             b == series[y].covered
             c == series[z].covered
             i == series[x].total
             j == series[y].total
             k == series[z].total
  <2>1. /\ a \in Int /\ b \in Int /\ c \in Int
        /\ i \in Nat \ {0} /\ j \in Nat \ {0} /\ k \in Nat \ {0}
    BY <1>1
  <2>2. a * j < b * i /\ b * k < c * j
    BY <1>4 DEF Lower
  <2> HIDE DEF a, b, c, i, j, k
  <2>3. a * k < c * i
    BY <2>1, <2>2, LessFollows
  <2> QED BY <2>3 DEF Lower, a, c, i, k
<1>5. ASSUME partial # {} PROVE lowest # {}
  <2>1. PICK x \in partial : \A y \in partial : <<y, x>> \notin before
    <3>1. /\ \A x \in partial : <<x, x>> \notin before
          /\ \A x, y, z \in partial : <<x, y>> \in before /\ <<y, z>> \in before => <<x, z>> \in before
      <4> HIDE DEF before
      <4> QED BY <1>2, <1>3, <1>4
    <3> HIDE DEF before
    <3> QED BY <1>1, <1>5, <3>1, MinimalMember
  <2>2. x \in lowest
    BY <1>2, <2>1
  <2> QED BY <2>2
<1>6. lowest \in SUBSET partial
  OBVIOUS
<1>7. LowestCoverage(series) = IF lowest = {} THEN NULL ELSE series[Min(lowest)]
  BY DEF LowestCoverage, partial
<1>8. ASSUME lowest # {}
      PROVE  Min(lowest) \in partial /\ \A c \in partial : ~Lower(series, c, Min(lowest))
  <2>1. Min(lowest) \in lowest
    <3> HIDE DEF lowest
    <3>1. IsFiniteSet(lowest) /\ lowest \subseteq Int
      BY <1>1, <1>6, FS_Subset
    <3> QED BY <1>8, <3>1, FirstMember
  <2> QED BY <2>1
<1> HIDE DEF lowest
<1>9. ASSUME NEW d \in partial
      PROVE  LowestCoverage(series).covered * series[d].total <= series[d].covered * LowestCoverage(series).total
  <2> DEFINE m == Min(lowest)
  <2>1. LowestCoverage(series) = series[m] /\ m \in partial /\ ~Lower(series, d, m)
    BY <1>5, <1>7, <1>8
  <2> HIDE DEF m
  <2>2. /\ series[m].covered \in Int /\ series[d].covered \in Int
        /\ series[m].total \in Int /\ series[d].total \in Int
    BY <1>1, <2>1
  <2>3. series[m].covered * series[d].total \in Int /\ series[d].covered * series[m].total \in Int
    BY <2>2
  <2> QED BY <2>1, <2>3 DEF Lower
<1>10. (LowestCoverage(series) = NULL) = (partial = {})
  <2>1. partial = {} => LowestCoverage(series) = NULL
    BY <1>6, <1>7
  <2>2. partial # {} => LowestCoverage(series) # NULL
    <3>1. SUFFICES ASSUME partial # {} PROVE LowestCoverage(series) \in Metrics
      BY MetricAssumption
    <3> QED BY <1>1, <1>5, <1>7, <1>8, <3>1
  <2> QED BY <2>1, <2>2
<1> QED BY <1>9, <1>10 DEF partial

\* The panel of the trends (dashboard-trend-panel.tsx) draws the days the answer tells and no
\* other, marks what is covered in part, and says whole only of a strict total, whatever
\* figures are missing.
THEOREM TrendPanelAlwaysTells ==
    ASSUME NEW t, NEW baseline, TrendData(t, baseline)
    PROVE  TrendPanelTells(Trends(t, baseline))
<1> DEFINE a == Trends(t, baseline)
           days == baseline + 1..t.today
           series == [d \in days |-> Observed(DailyDeltas(t, d))]
<1>1. /\ a.total = SumComplete(TotalDeltas(t, baseline))
      /\ a.observed = Observed(TotalDeltas(t, baseline))
      /\ DOMAIN a.series = days
      /\ \A d \in days : a.series[d].observed = series[d] /\ a.series[d].delta = SumComplete(DailyDeltas(t, d))
      /\ [d \in DOMAIN a.series |-> a.series[d].observed] = series
  BY DEF Trends, TrendPoint
<1> HIDE DEF a
<1>2. baseline \in Int /\ t.today \in Int
  BY DEF TrendData
<1>3. days \subseteq Int /\ IsFiniteSet(days)
  <2>1. baseline + 1 \in Int
    BY <1>2
  <2> QED BY <1>2, <2>1, FS_Interval
<1> HIDE DEF days
<1>4. \A d \in days : series[d] \in Metrics /\ MetricParses(series[d]) /\ StrictParses(series[d], a.series[d].delta)
  <2>1. \A d \in days : Figures(DailyDeltas(t, d))
    BY TrendFigures DEF days
  <2> QED BY <1>1, <2>1, ObservedType, ObservedParses
<1>5. DOMAIN series = days
  OBVIOUS
<1> HIDE DEF series
<1>6. SeriesData(series)
  BY <1>3, <1>4, <1>5 DEF SeriesData
<1>7. ChartTellsTheDays(series, TrendChart(a))
  <2> DEFINE dashed == UNION {DashedTrend(series, segment) : segment \in Segments(series)}
  <2>1. TrendChart(a) = Chart(series, dashed)
    BY <1>1 DEF TrendChart
  <2>2. ASSUME NEW segment \in Segments(series), NEW e \in EdgesOf(segment) \ dashed
        PROVE  {e[1], e[2]} \cap PartialDays(series) = {}
    <3>1. e \notin DashedTrend(series, segment)
      BY <2>2
    <3>2. segment \cap PartialDays(series) = {}
      BY <2>2, <3>1 DEF DashedTrend
    <3>3. e[1] \in segment /\ e[2] \in segment
      BY <2>2 DEF EdgesOf
    <3> QED BY <3>2, <3>3
  <2> HIDE DEF dashed
  <2> QED BY <1>6, <2>1, <2>2, ChartTells
<1>8. (LowestCoverage(series) = NULL) = \A d \in days : a.series[d].delta # NULL \/ series[d].value = NULL
  <2>1. \A d \in days : d \in PartialDays(series) <=> ~(a.series[d].delta # NULL \/ series[d].value = NULL)
    <3> TAKE d \in days
    <3>1. MetricParses(series[d]) /\ StrictParses(series[d], a.series[d].delta)
      BY <1>4
    <3>2. series[d].status \in {"COMPLETE", "PARTIAL", "UNAVAILABLE"}
      BY <1>4 DEF Metrics
    <3>3. d \in PartialDays(series) <=> series[d].status = "PARTIAL"
      BY <1>5 DEF PartialDays
    <3> QED BY <3>1, <3>2, <3>3 DEF MetricParses, StrictParses
  <2>2. PartialDays(series) \subseteq days
    BY <1>5 DEF PartialDays
  <2>3. PartialDays(series) = {} <=> \A d \in days : a.series[d].delta # NULL \/ series[d].value = NULL
    BY <2>1, <2>2
  <2>4. (LowestCoverage(series) = NULL) = (PartialDays(series) = {})
    BY <1>6, LowestIs
  <2> QED BY <2>3, <2>4
<1>9. Said(a.observed) = "whole" => a.total = a.observed.value
  <2>1. a.observed \in Metrics /\ MetricParses(a.observed) /\ StrictParses(a.observed, a.total)
    BY <1>1, TrendFigures, ObservedType, ObservedParses
  <2>2. a.observed.status \in {"COMPLETE", "PARTIAL", "UNAVAILABLE"}
    BY <2>1 DEF Metrics
  <2> QED BY <2>1, <2>2 DEF Said, MetricParses, StrictParses
<1>10. \A d \in PartialDays(series) :
         LowestCoverage(series).covered * series[d].total <= series[d].covered * LowestCoverage(series).total
  BY <1>6, LowestIs
<1> QED BY <1>1, <1>5, <1>7, <1>8, <1>9, <1>10 DEF TrendPanelTells, a

\* The panel of the revenue (dashboard-revenue-panel.tsx) does so too, and says whole only of a
\* period of which every channel's every day is estimated.
THEOREM RevenuePanelAlwaysTells ==
    ASSUME NEW t, NEW first, RevenueData(t, first)
    PROVE  RevenuePanelTells(Revenue(t, first))
<1> DEFINE a == Revenue(t, first)
           days == first..t.today
           f == [k \in t.shown \X days |-> RevenueOn(t, k[1], k[2])]
           byDay(d) == [c \in t.shown |-> RevenueOn(t, c, d)]
<1>1. a.metric = Observed(f) /\ a.series = [d \in days |-> Observed(byDay(d))]
  BY DEF Revenue
<1> HIDE DEF a
<1>2. days \subseteq Int /\ IsFiniteSet(days)
  <2>1. first \in Int /\ t.today \in Int
    BY DEF RevenueData
  <2>2. days \subseteq Int
    BY <2>1
  <2>3. IsFiniteSet(days)
    BY RevenueFigures
  <2> QED BY <2>2, <2>3
<1>3. Figures(f) /\ \A d \in days : Figures(byDay(d))
  BY RevenueFigures
<1>4. SeriesData(a.series)
  <2>1. \A d \in days : a.series[d] \in Metrics /\ MetricParses(a.series[d])
    <3> HIDE DEF byDay, days
    <3> QED BY <1>1, <1>3, ObservedType
  <2> QED BY <1>1, <1>2, <2>1 DEF SeriesData
<1>5. ChartTellsTheDays(a.series, RevenueChart(a))
  <2> DEFINE dashed == UNION {DashedRevenue(a.series, segment) : segment \in Segments(a.series)}
  <2>1. RevenueChart(a) = Chart(a.series, dashed)
    BY DEF RevenueChart
  <2>2. ASSUME NEW segment \in Segments(a.series), NEW e \in EdgesOf(segment) \ dashed
        PROVE  {e[1], e[2]} \cap PartialDays(a.series) = {}
    <3>1. e \notin DashedRevenue(a.series, segment)
      BY <2>2
    <3> QED BY <2>2, <3>1 DEF DashedRevenue
  <2> HIDE DEF dashed
  <2> QED BY <1>4, <2>1, <2>2, ChartTells
<1>6. ASSUME Said(a.metric) = "whole", NEW d \in days PROVE a.series[d].covered = a.series[d].total
  <2>1. a.metric.value # NULL /\ a.metric.status # "PARTIAL"
    BY <1>6 DEF Said
  <2>2. Known(f) = DOMAIN f
    <3> HIDE DEF f
    <3> QED BY <1>1, <2>1 DEF Observed
  <2>3. \A c \in t.shown : f[<<c, d>>] # NULL /\ f[<<c, d>>] = byDay(d)[c]
    <3>1. \A k \in DOMAIN f : f[k] # NULL
      BY <2>2 DEF Known
    <3>2. \A c \in t.shown : <<c, d>> \in DOMAIN f
      OBVIOUS
    <3> QED BY <3>1, <3>2
  <2>4. Known(byDay(d)) = DOMAIN byDay(d)
    BY <2>3 DEF Known
  <2>5. a.series[d] = Observed(byDay(d))
    BY <1>1
  <2> HIDE DEF byDay
  <2> QED BY <2>4, <2>5 DEF Observed
<1> QED BY <1>1, <1>5, <1>6 DEF RevenuePanelTells, a

----------------------------------------------------------------------------
\* The scores of the videos of a ranking: fractions, of those that have one.
Fractions == Int \X (Nat \ {0})

ScoreData(scores) ==
    /\ IsFiniteSet(DOMAIN scores) /\ DOMAIN scores \subseteq Int
    /\ \A v \in DOMAIN scores : scores[v] = NULL \/ scores[v] \in Fractions

Beats(scores, v, w) ==
    Less(scores[w], scores[v]) \/ (~Less(scores[v], scores[w]) /\ v < w)

LEMMA LessOrders ==
    /\ \A a, b \in Fractions : ~(Less(a, b) /\ Less(b, a))
    /\ \A a, b, c \in Fractions : ~Less(b, a) /\ ~Less(c, b) => ~Less(c, a)
<1>1. ASSUME NEW a \in Fractions, NEW b \in Fractions PROVE ~(Less(a, b) /\ Less(b, a))
  <2>1. a[1] \in Int /\ a[2] \in Int /\ b[1] \in Int /\ b[2] \in Int
    BY DEF Fractions
  <2>2. a[1] * b[2] \in Int /\ b[1] * a[2] \in Int
    BY <2>1
  <2> QED BY <2>2 DEF Less
<1>2. ASSUME NEW a \in Fractions, NEW b \in Fractions, NEW c \in Fractions, ~Less(b, a), ~Less(c, b)
      PROVE  ~Less(c, a)
  <2> DEFINE p == a[1]
             q == b[1]
             r == c[1]
             x == a[2]
             y == b[2]
             z == c[2]
  <2>1. /\ p \in Int /\ q \in Int /\ r \in Int
        /\ x \in Nat \ {0} /\ y \in Nat \ {0} /\ z \in Nat \ {0}
    BY DEF Fractions
  <2>2. ~(q * x < p * y) /\ ~(r * y < q * z)
    BY <1>2 DEF Less
  <2> HIDE DEF p, q, r, x, y, z
  <2>3. p * y \in Int /\ q * x \in Int /\ q * z \in Int /\ r * y \in Int /\ p * z \in Int /\ r * x \in Int
    BY <2>1
  <2>4. p * y <= q * x /\ q * z <= r * y
    BY <2>2, <2>3
  <2>5. p * z <= r * x
    BY <2>1, <2>4, LessFollows
  <2>6. ~(r * x < p * z)
    BY <2>3, <2>5
  <2> QED BY <2>6 DEF Less, p, r, x, z
<1> QED BY <1>1, <1>2

LEMMA BeatsOrders ==
    ASSUME NEW scores, NEW S, S \subseteq Int, \A v \in S : scores[v] \in Fractions
    PROVE  StrictOrder(S, {k \in S \X S : Beats(scores, k[1], k[2])})
<1> DEFINE before == {k \in S \X S : Beats(scores, k[1], k[2])}
           less(v, w) == Less(scores[v], scores[w])
<1>1. \A v, w \in S : <<v, w>> \in before <=> less(w, v) \/ (~less(v, w) /\ v < w)
  BY DEF Beats
<1>2. \A v \in S : v \in Int
  OBVIOUS
<1>3. /\ \A v, w \in S : ~(less(v, w) /\ less(w, v))
      /\ \A v, w, x \in S : ~less(w, v) /\ ~less(x, w) => ~less(x, v)
  BY LessOrders
<1> HIDE DEF less, before
<1>4. ASSUME NEW x \in S PROVE <<x, x>> \notin before
  BY <1>1, <1>2, <1>3
<1>5. ASSUME NEW x \in S, NEW y \in S PROVE x = y \/ <<x, y>> \in before \/ <<y, x>> \in before
  BY <1>1, <1>2, <1>3
<1>6. ASSUME NEW x \in S, NEW y \in S, NEW z \in S, <<x, y>> \in before, <<y, z>> \in before
      PROVE  <<x, z>> \in before
  <2>1. ~less(x, y) /\ ~less(y, z)
    BY <1>1, <1>3, <1>6
  <2>2. ~less(x, z)
    BY <1>3, <2>1
  <2>3. CASE less(z, x)
    BY <1>1, <2>3
  <2>4. CASE ~less(z, x)
    <3>1. ~less(y, x)
      BY <1>3, <2>1, <2>4
    <3>2. ~less(z, y)
      BY <1>3, <2>1, <2>4
    <3>3. x < y /\ y < z
      BY <1>1, <1>6, <3>1, <3>2
    <3>4. x < z
      BY <1>2, <3>3
    <3> QED BY <1>1, <2>2, <3>4
  <2> QED BY <2>3, <2>4
<1>7. StrictOrder(S, before)
  BY <1>4, <1>5, <1>6 DEF StrictOrder
<1> QED BY <1>7 DEF before

Scored(scores) == {v \in DOMAIN scores : scores[v] # NULL}

\* The scored videos in the places of a ranking, best first.
LEMMA RankedIs ==
    ASSUME NEW scores, ScoreData(scores)
    PROVE  /\ IsFiniteSet(Scored(scores)) /\ Scored(scores) \subseteq DOMAIN scores
           /\ Len(Ranked(scores)) = Cardinality(Scored(scores))
           /\ Len(Ranked(scores)) \in Nat /\ Len(Ranked(scores)) <= Cardinality(DOMAIN scores)
           /\ \A v \in Scored(scores) : v \in Int /\ scores[v] \in Fractions
           /\ \A i \in 1..Len(Ranked(scores)) : Ranked(scores)[i] \in Scored(scores)
           /\ \A v \in Scored(scores) : \E i \in 1..Len(Ranked(scores)) : Ranked(scores)[i] = v
           /\ \A i, j \in 1..Len(Ranked(scores)) :
                i < j <=> Beats(scores, Ranked(scores)[i], Ranked(scores)[j])
<1> DEFINE S == Scored(scores)
           before == {k \in S \X S : Beats(scores, k[1], k[2])}
           ranked == Ordered(S, before)
           n == Cardinality(S)
<1>1. S \in SUBSET DOMAIN scores
  BY DEF Scored
<1>2. IsFiniteSet(S) /\ n <= Cardinality(DOMAIN scores) /\ S \subseteq Int
  BY <1>1, FS_Subset DEF ScoreData
<1>3. \A v \in S : v \in Int /\ scores[v] \in Fractions
  BY <1>2 DEF ScoreData, Scored
<1>4. Ranked(scores) = ranked
  BY DEF Ranked, Scored, Beats
<1> HIDE DEF S
<1>5. StrictOrder(S, before)
  BY <1>2, <1>3, BeatsOrders
<1>6. \A v, w \in S : <<v, w>> \in before <=> Beats(scores, v, w)
  OBVIOUS
<1> HIDE DEF before
<1>7. /\ n \in Nat /\ DOMAIN ranked = 1..n
      /\ \A i \in 1..n : ranked[i] \in S
      /\ \A v \in S : \E i \in 1..n : ranked[i] = v
      /\ \A i, j \in 1..n : i < j <=> <<ranked[i], ranked[j]>> \in before
  BY <1>2, <1>5, OrderedIs
<1>8. Len(ranked) = n
  <2> DEFINE place(i) == CHOOSE x \in S : Cardinality({y \in S : <<y, x>> \in before}) = i - 1
  <2>1. ranked = [i \in 1..n |-> place(i)]
    BY DEF Ordered
  <2> HIDE DEF ranked, n, place
  <2>2. ranked \in [1..n -> S]
    BY <1>7, <2>1
  <2>3. ranked \in Seq(S)
    BY <1>7, <2>2
  <2>4. DOMAIN ranked = 1..Len(ranked) /\ Len(ranked) \in Nat
    BY <2>3
  <2> QED BY <1>7, <2>4
<1> HIDE DEF ranked, n
<1>9. \A i, j \in 1..n : i < j <=> Beats(scores, ranked[i], ranked[j])
  BY <1>6, <1>7
<1> QED BY <1>1, <1>2, <1>3, <1>4, <1>7, <1>8, <1>9 DEF S, n

LEMMA OfTwo ==
    ASSUME NEW a \in Int, NEW b \in Int
    PROVE  /\ Min({a, b}) = IF a <= b THEN a ELSE b
           /\ Max({a, b}) = IF a >= b THEN a ELSE b
<1>1. IsFiniteSet({a, b}) /\ {a, b} \subseteq Int /\ {a, b} # {}
  <2>1. {a, b} = {a} \cup {b}
    OBVIOUS
  <2>2. IsFiniteSet({a} \cup {b})
    BY FS_AddElement, FS_Singleton
  <2> QED BY <2>1, <2>2
<1>2. Min({a, b}) \in {a, b} /\ Min({a, b}) <= a /\ Min({a, b}) <= b
  BY <1>1, FirstMember
<1>3. Max({a, b}) \in {a, b} /\ Max({a, b}) >= a /\ Max({a, b}) >= b
  BY <1>1, GreatestIs
<1> QED BY <1>2, <1>3

Vphs(video) == [i \in DOMAIN Hours |-> Vph(video, Hours[i])]

\* The pages of a ranking show the video of each place, each once.
LEMMA RowsArePlaces ==
    ASSUME NEW videos, IsFiniteSet(DOMAIN videos), NEW now, NEW kind, NEW size \in Nat \ {0},
           DOMAIN Scores(videos, now, kind) = DOMAIN videos, ScoreData(Scores(videos, now, kind))
    PROVE  LET scores == Scores(videos, now, kind)
               ranked == Ranked(scores)
           IN  PageRows(videos, now, kind, size) = {RankedRow(videos, scores, ranked[j], j) : j \in 1..Len(ranked)}
<1> DEFINE scores == Scores(videos, now, kind)
           ranked == Ranked(scores)
           n == Len(ranked)
           row(j) == RankedRow(videos, scores, ranked[j], j)
           pages == 1..Cardinality(DOMAIN videos) + 1
           page(m) == PageOf(videos, now, kind, m, size)
           offset(m) == (m - 1) * size
           last(m) == Min({offset(m) + size, n})
           many(m) == Max({last(m) - offset(m), 0})
<1>1. /\ n \in Nat /\ n <= Cardinality(DOMAIN videos) /\ Cardinality(DOMAIN videos) \in Nat
  BY RankedIs, FS_CardinalityType
<1>2. \A m : page(m).items = [i \in 1..many(m) |-> row(offset(m) + i)]
  BY DEF PageOf
<1>3. PageRows(videos, now, kind, size) = UNION {{page(m).items[i] : i \in DOMAIN page(m).items} : m \in pages}
  BY DEF PageRows
<1> HIDE DEF n, row, page
<1>4. ASSUME NEW m \in pages
      PROVE  /\ offset(m) \in Nat /\ many(m) \in Nat
             /\ \A i \in Int : i \in 1..many(m) <=> i \in 1..size /\ offset(m) + i \in 1..n
  <2>1. m - 1 \in Nat
    BY <1>1
  <2>2. offset(m) \in Nat
    BY <2>1
  <2> HIDE DEF offset
  <2>3. last(m) = IF offset(m) + size <= n THEN offset(m) + size ELSE n
    BY <1>1, <2>2, OfTwo
  <2> HIDE DEF last
  <2>4. last(m) \in Int /\ last(m) - offset(m) \in Int
    BY <1>1, <2>2, <2>3
  <2>5. many(m) = IF last(m) - offset(m) >= 0 THEN last(m) - offset(m) ELSE 0
    <3> DEFINE gap == last(m) - offset(m)
    <3>1. gap \in Int /\ 0 \in Int
      BY <2>4
    <3> HIDE DEF gap
    <3>2. Max({gap, 0}) = IF gap >= 0 THEN gap ELSE 0
      BY <3>1, OfTwo
    <3> QED BY <3>2 DEF gap
  <2> HIDE DEF many
  <2> QED BY <1>1, <2>2, <2>3, <2>4, <2>5
<1>5. ASSUME NEW m \in pages PROVE {page(m).items[i] : i \in DOMAIN page(m).items} \subseteq {row(j) : j \in 1..n}
  <2>1. page(m).items = [i \in 1..many(m) |-> row(offset(m) + i)]
    BY <1>2
  <2> HIDE DEF many, offset
  <2>2. \A i \in 1..many(m) : offset(m) + i \in 1..n
    BY <1>4
  <2> QED BY <2>1, <2>2
<1>6. ASSUME NEW j \in 1..n
      PROVE  \E m \in pages : row(j) \in {page(m).items[i] : i \in DOMAIN page(m).items}
  <2> DEFINE q == (j - 1) \div size
             m == q + 1
             i == j - offset(m)
  <2>1. j \in Int /\ 1 <= j /\ j <= n
    BY <1>1
  <2>2. q \in Int /\ q * size <= j - 1 /\ j - 1 < q * size + size /\ q * size \in Int
    <3>1. j - 1 \in Int
      BY <2>1
    <3> HIDE DEF q
    <3>2. q \in Int /\ q * size <= j - 1 /\ j - 1 < q * size + size
      BY <3>1, QuotientIs DEF q
    <3> QED BY <3>2
  <2> HIDE DEF q
  <2>3. q >= 0
    <3>1. (q + 1) * size = q * size + size
      BY <2>2
    <3>2. ~((q + 1) * size <= 0 * size)
      BY <2>1, <2>2, <3>1
    <3>3. q + 1 \in Int /\ ~(q + 1 <= 0)
      BY <2>2, <3>2, TimesKeeps
    <3> QED BY <2>2, <3>3
  <2>4. q <= j - 1
    <3>1. q \in Nat /\ size >= 1
      BY <2>2, <2>3
    <3>2. q <= q * size
      <4>1. CASE q = 0
        BY <4>1
      <4>2. CASE q # 0
        <5>1. q \in Nat \ {0} /\ 1 * q <= size * q
          BY <3>1, <4>2, TimesKeeps
        <5> QED BY <3>1, <5>1
      <4> QED BY <4>1, <4>2
    <3> QED BY <2>1, <2>2, <3>1, <3>2
  <2>5. m \in pages
    BY <1>1, <2>1, <2>2, <2>3, <2>4
  <2>6. offset(m) = q * size
    BY <2>2
  <2>7. i \in Int /\ i \in 1..size /\ offset(m) + i = j
    BY <2>1, <2>2, <2>6
  <2> HIDE DEF m, i, offset, many, pages
  <2>8. i \in 1..many(m)
    BY <1>4, <2>5, <2>7
  <2>9. page(m).items[i] = row(j) /\ i \in DOMAIN page(m).items
    BY <1>2, <2>7, <2>8
  <2> QED BY <2>5, <2>9
<1> HIDE DEF pages, offset, last, many
<1>7. PageRows(videos, now, kind, size) = {row(j) : j \in 1..n}
  BY <1>3, <1>5, <1>6
<1> QED BY <1>7 DEF row, n

\* The rows of a ranking: one of each scored video, with its score, in the order of the scores.
LEMMA PageRowsAre ==
    ASSUME NEW videos, IsFiniteSet(DOMAIN videos), NEW now, NEW kind, NEW size \in Nat \ {0},
           DOMAIN Scores(videos, now, kind) = DOMAIN videos, ScoreData(Scores(videos, now, kind))
    PROVE  LET scores == Scores(videos, now, kind)
               rows == PageRows(videos, now, kind, size)
               scored == Scored(scores)
           IN  /\ \A r \in rows : /\ r.video \in scored /\ r.score = scores[r.video]
                                  /\ r.vphs = Vphs(videos[r.video])
               /\ \A v \in scored : \E r \in rows : r.video = v
               /\ \A r, s \in rows : r.rank < s.rank <=> Beats(scores, r.video, s.video)
               /\ {r.rank : r \in rows} = 1..Cardinality(scored)
               /\ {r.video : r \in rows} = scored
               /\ PageOf(videos, now, kind, 1, size).total = Cardinality(scored)
<1> DEFINE scores == Scores(videos, now, kind)
           ranked == Ranked(scores)
           n == Len(ranked)
           row(j) == RankedRow(videos, scores, ranked[j], j)
           rows == PageRows(videos, now, kind, size)
           scored == Scored(scores)
<1>1. rows = {row(j) : j \in 1..n}
  BY RowsArePlaces
<1>2. /\ n = Cardinality(scored) /\ n \in Nat
      /\ \A i \in 1..n : ranked[i] \in scored
      /\ \A v \in scored : \E i \in 1..n : ranked[i] = v
      /\ \A i, j \in 1..n : i < j <=> Beats(scores, ranked[i], ranked[j])
  BY RankedIs
<1>3. \A j \in 1..n : /\ row(j).video = ranked[j] /\ row(j).rank = j /\ row(j).score = scores[ranked[j]]
                     /\ row(j).vphs = Vphs(videos[ranked[j]])
  BY DEF RankedRow, Vphs
<1>4. PageOf(videos, now, kind, 1, size).total = n
  BY DEF PageOf
<1> HIDE DEF scores, ranked, n, row, rows, scored
<1>5. \A r \in rows : \E j \in 1..n : r = row(j)
  BY <1>1
<1>6. \A j \in 1..n : row(j) \in rows
  BY <1>1
<1>7. \A r \in rows : r.video \in scored /\ r.score = scores[r.video] /\ r.vphs = Vphs(videos[r.video])
  BY <1>2, <1>3, <1>5
<1>8. \A v \in scored : \E r \in rows : r.video = v
  BY <1>2, <1>3, <1>6
<1>9. ASSUME NEW r \in rows, NEW s \in rows PROVE r.rank < s.rank <=> Beats(scores, r.video, s.video)
  <2>1. PICK i \in 1..n : r = row(i)
    BY <1>5
  <2>2. PICK j \in 1..n : s = row(j)
    BY <1>5
  <2> QED BY <1>2, <1>3, <2>1, <2>2
<1>10. {r.rank : r \in rows} = 1..n
  <2>1. \A r \in rows : r.rank \in 1..n
    BY <1>3, <1>5
  <2>2. \A j \in 1..n : \E r \in rows : r.rank = j
    BY <1>3, <1>6
  <2> QED BY <2>1, <2>2
<1>11. {r.video : r \in rows} = scored
  BY <1>7, <1>8
<1> QED BY <1>2, <1>4, <1>7, <1>8, <1>9, <1>10, <1>11 DEF scores, rows, scored

\* The views of a video at an age are a number, when they are known.
LEMMA ViewAtAgeType ==
    ASSUME NEW videos, VideoData(videos), NEW v \in DOMAIN videos, NEW age \in Int
    PROVE  Figure(ViewAtAge(videos[v], age))
<1> DEFINE video == videos[v]
           target == video.published + age
           far(t) == IF t < target THEN target - t ELSE t - target
           near == {t \in KnownAt(video) : far(t) <= AgeTolerance}
           nearest == {t \in near : \A u \in near : far(t) <= far(u)}
<1>1. ViewAtAge(video, age) = IF video.published = NULL THEN NULL
                             ELSE IF near = {} THEN NULL ELSE video.seen[Max(nearest)]
  BY DEF ViewAtAge
<1>2. SUFFICES ASSUME video.published # NULL, near # {} PROVE video.seen[Max(nearest)] \in Int
  BY <1>1 DEF Figure
<1>3. target \in Int
  BY <1>2 DEF VideoData, Figure
<1>4. near \subseteq KnownAt(video)
  OBVIOUS
<1> HIDE DEF target, near
<1>5. IsFiniteSet(near) /\ near \subseteq Int
  BY <1>4, SnapshotsAre
<1>6. nearest # {}
  <2> DEFINE f == [t \in near |-> far(t)]
             T == {f[t] : t \in DOMAIN f}
  <2>1. IsFiniteSet(DOMAIN f)
    BY <1>5
  <2>2. \A t \in near : f[t] \in Int /\ f[t] = far(t)
    BY <1>3, <1>5
  <2>3. DOMAIN f = near
    OBVIOUS
  <2> HIDE DEF f, far
  <2>4. IsFiniteSet(T)
    BY <2>1, FiniteRange
  <2>5. T \subseteq Int /\ T # {}
    BY <1>2, <2>2, <2>3
  <2> HIDE DEF T
  <2>6. Min(T) \in T /\ \A y \in T : Min(T) <= y
    BY <2>4, <2>5, FirstMember
  <2>7. PICK t \in near : Min(T) = f[t]
    BY <2>3, <2>6 DEF T
  <2>8. \A u \in near : f[u] \in T
    BY <2>3 DEF T
  <2>9. t \in nearest
    BY <2>2, <2>6, <2>7, <2>8
  <2> QED BY <2>9
<1>7. nearest \subseteq KnownAt(video)
  BY <1>4
<1> HIDE DEF nearest
<1>8. Max(nearest) \in nearest
  BY <1>6, <1>7, SnapshotsAre
<1> QED BY <1>7, <1>8, SnapshotsAre

\* Twice the median of finitely many numbers is a number.
LEMMA TwiceMedianType ==
    ASSUME NEW values, IsFiniteSet(DOMAIN values), \A w \in DOMAIN values : values[w] \in Int
    PROVE  Figure(TwiceMedian(values))
<1> DEFINE D == DOMAIN values
           n == Cardinality(D)
           atMost(x) == Cardinality({w \in D : values[w] <= x})
           from(i) == {values[w] : w \in {w \in D : atMost(values[w]) >= i}}
<1>1. n \in Nat
  BY FS_CardinalityType
<1>2. TwiceMedian(values) = IF n = 0 THEN NULL ELSE Min(from((n + 1) \div 2)) + Min(from((n + 2) \div 2))
  BY DEF TwiceMedian
<1>3. ASSUME n # 0, NEW i \in Int, i <= n PROVE Min(from(i)) \in Int
  <2> DEFINE T == {values[w] : w \in D}
  <2>1. IsFiniteSet(T) /\ T \subseteq Int
    BY FiniteRange
  <2>2. D # {}
    BY <1>3, FS_EmptySet
  <2>3. T # {}
    BY <2>2
  <2>4. PICK x \in T : \A y \in T : y <= x
    <3> HIDE DEF T
    <3> QED BY <2>1, <2>3, GreatestMember
  <2>5. PICK w \in D : x = values[w]
    BY <2>4
  <2>6. {z \in D : values[z] <= x} = D
    BY <2>4
  <2>7. atMost(values[w]) = n
    BY <2>5, <2>6
  <2>8. from(i) \in SUBSET T
    OBVIOUS
  <2>9. values[w] \in from(i)
    <3>1. n >= i
      BY <1>1, <1>3
    <3>2. atMost(values[w]) >= i
      BY <2>7, <3>1
    <3> HIDE DEF atMost
    <3> QED BY <3>2
  <2> HIDE DEF from, T
  <2>10. IsFiniteSet(from(i)) /\ from(i) \subseteq Int /\ from(i) # {}
    BY <2>1, <2>8, <2>9, FS_Subset
  <2>11. Min(from(i)) \in from(i)
    BY <2>10, FirstMember
  <2> QED BY <2>10, <2>11
<1> HIDE DEF from, n
<1>4. ASSUME n # 0
      PROVE  /\ (n + 1) \div 2 \in Int /\ (n + 1) \div 2 <= n
             /\ (n + 2) \div 2 \in Int /\ (n + 2) \div 2 <= n
  BY <1>1, <1>4
<1> QED BY <1>2, <1>3, <1>4 DEF Figure

\* The scores of a ranking are fractions, whatever snapshots and dates are missing.
LEMMA ScoresAre ==
    ASSUME NEW videos, VideoData(videos), NEW now \in Int, NEW kind \in Kinds
    PROVE  DOMAIN Scores(videos, now, kind) = DOMAIN videos /\ ScoreData(Scores(videos, now, kind))
<1> DEFINE scores == Scores(videos, now, kind)
<1>0. /\ Week \in Nat /\ BreakoutAge \in Int
      /\ 1 \in DOMAIN Hours /\ 2 \in DOMAIN Hours /\ Hours[1] \in Nat \ {0} /\ Hours[2] \in Nat \ {0}
  BY RankingsAssumption
<1>1. \A x, y : x \in Int /\ y \in Nat \ {0} => <<x, y>> \in Fractions
  BY DEF Fractions
<1>2. ASSUME kind = "recent", NEW v \in DOMAIN videos PROVE scores[v] \in Fractions
  <2>1. scores[v] = <<IF videos[v].published = NULL THEN 0 ELSE videos[v].published, 1>>
    BY <1>2 DEF Scores, RecentScore
  <2>2. Figure(videos[v].published)
    BY DEF VideoData
  <2> QED BY <1>1, <2>1, <2>2 DEF Figure
<1>3. ASSUME kind = "weekly", NEW v \in DOMAIN videos, scores[v] # NULL PROVE scores[v] \in Fractions
  <2> DEFINE baseline == WeeklyBaseline(videos[v], now)
             before == Upto(videos[v], now - Week)
             upto == Upto(videos[v], now)
  <2>1. scores[v] = WeeklyGain(videos[v], now)
    BY <1>3 DEF Scores
  <2>2. baseline # NULL /\ scores[v] = <<videos[v].seen[Max(upto)] - videos[v].seen[baseline], 1>>
    BY <1>3, <2>1 DEF WeeklyGain
  <2>3. before # {} /\ baseline = Max(before)
    BY <2>2 DEF WeeklyBaseline
  <2>4. before \subseteq KnownAt(videos[v]) /\ upto \subseteq KnownAt(videos[v]) /\ before \subseteq upto
    <3>1. KnownAt(videos[v]) \subseteq Int
      BY SnapshotsAre
    <3>2. ASSUME NEW t \in before PROVE t \in upto
      <4>1. t \in KnownAt(videos[v]) /\ t <= now - Week /\ t \in Int
        BY <3>1 DEF Upto
      <4>2. t <= now
        BY <1>0, <4>1
      <4> QED BY <4>1, <4>2 DEF Upto
    <3> QED BY <3>2 DEF Upto
  <2> HIDE DEF before, upto
  <2>5. /\ Max(before) \in before /\ videos[v].seen[Max(before)] \in Int
        /\ Max(upto) \in upto /\ videos[v].seen[Max(upto)] \in Int
    BY <2>3, <2>4, SnapshotsAre
  <2>6. videos[v].seen[Max(upto)] - videos[v].seen[baseline] \in Int
    BY <2>3, <2>5
  <2> QED BY <1>1, <2>2, <2>6
<1>4. ASSUME kind = "hot", NEW v \in DOMAIN videos, scores[v] # NULL PROVE scores[v] \in Fractions
  <2> DEFINE short == Vph(videos[v], Hours[1])
             long == Vph(videos[v], Hours[2])
  <2>1. scores[v] = Smoothed(short, long)
    BY <1>4 DEF Scores, HotScore
  <2>2. /\ short # NULL => short[1] \in Int /\ short[2] \in Nat \ {0} /\ short = <<short[1], short[2]>>
        /\ long # NULL => long[1] \in Int /\ long[2] \in Nat \ {0} /\ long = <<long[1], long[2]>>
    <3>1. ASSUME NEW window \in Nat \ {0}, Vph(videos[v], window) # NULL
          PROVE  LET vph == Vph(videos[v], window)
                 IN  vph[1] \in Int /\ vph[2] \in Nat \ {0} /\ vph = <<vph[1], vph[2]>>
      <4>1. PICK gained \in Int, over \in Nat : over >= window /\ Vph(videos[v], window) = <<gained, over>>
        BY <3>1, VphIs
      <4> QED BY <4>1
    <3> QED BY <1>0, <3>1
  <2> HIDE DEF short, long
  <2>3. CASE short = NULL \/ long = NULL
    BY <1>1, <1>4, <2>1, <2>2, <2>3 DEF Smoothed
  <2>4. CASE short # NULL /\ long # NULL
    <3> DEFINE a == short[1]
               b == long[1]
               x == short[2]
               y == long[2]
    <3>1. scores[v] = <<7 * a * y + 3 * b * x, 10 * x * y>>
      BY <2>1, <2>4 DEF Smoothed
    <3>2. a \in Int /\ b \in Int /\ x \in Nat \ {0} /\ y \in Nat \ {0}
      BY <2>2, <2>4
    <3> HIDE DEF a, b, x, y
    <3>3. 7 * a * y + 3 * b * x \in Int /\ 10 * x * y \in Int
      BY <3>2
    <3>4. x * y \in Int /\ 10 * x * y = 10 * (x * y) /\ ~(x * y <= 0 * y)
      BY <3>2, TimesKeeps
    <3>5. 10 * x * y \in Nat \ {0}
      BY <3>2, <3>3, <3>4
    <3> QED BY <1>1, <3>1, <3>3, <3>5
  <2> QED BY <2>3, <2>4
<1>5. ASSUME kind = "breakout", NEW v \in DOMAIN videos, scores[v] # NULL PROVE scores[v] \in Fractions
  <2> DEFINE views == ViewAtAge(videos[v], BreakoutAge)
             compared == ComparableViews(videos, v, BreakoutAge)
             median == TwiceMedian(compared)
  <2>1. scores[v] = Breakout(videos, v, BreakoutAge)
    BY <1>5 DEF Scores
  <2>2. views # NULL /\ median # NULL /\ ~(median <= 0) /\ scores[v] = <<2 * views, median>>
    BY <1>5, <2>1 DEF Breakout
  <2>3. views \in Int
    BY <1>0, <2>2, ViewAtAgeType DEF Figure
  <2>4. DOMAIN compared \subseteq DOMAIN videos /\ \A w \in DOMAIN compared : compared[w] \in Int
    <3>1. /\ DOMAIN compared \in SUBSET {w \in PeersOf(videos, v) : ViewAtAge(videos[w], BreakoutAge) # NULL}
          /\ \A w \in DOMAIN compared : compared[w] = ViewAtAge(videos[w], BreakoutAge)
      BY DEF ComparableViews
    <3>2. PeersOf(videos, v) \subseteq DOMAIN videos
      BY DEF PeersOf
    <3> HIDE DEF compared
    <3> QED BY <1>0, <3>1, <3>2, ViewAtAgeType DEF Figure
  <2>5. IsFiniteSet(DOMAIN compared)
    <3> HIDE DEF compared
    <3> QED BY <2>4, FS_Subset DEF VideoData
  <2> HIDE DEF compared
  <2>6. median \in Int
    BY <2>2, <2>4, <2>5, TwiceMedianType DEF Figure
  <2> HIDE DEF views, median
  <2>7. 2 * views \in Int /\ median \in Nat \ {0}
    BY <2>2, <2>3, <2>6
  <2> QED BY <1>1, <2>2, <2>7
<1>6. DOMAIN scores = DOMAIN videos
  BY DEF Scores, RecentScore
<1> HIDE DEF scores
<1>7. \A v \in DOMAIN videos : scores[v] = NULL \/ scores[v] \in Fractions
  BY <1>2, <1>3, <1>4, <1>5 DEF Kinds
<1>8. ScoreData(scores)
  BY <1>6, <1>7 DEF ScoreData, VideoData
<1> QED BY <1>6, <1>8 DEF scores

VideosOf(videos, chan) == [v \in {v \in DOMAIN videos : videos[v].chan = chan} |-> videos[v]]

\* What a score says of a video depends on the videos of its channel alone.
LEMMA ScoresAreLocal ==
    ASSUME NEW videos, VideoData(videos), NEW now, NEW kind, NEW chan
    PROVE  /\ VideoData(VideosOf(videos, chan))
           /\ \A v : v \in DOMAIN VideosOf(videos, chan) <=> v \in DOMAIN videos /\ videos[v].chan = chan
           /\ \A v \in DOMAIN VideosOf(videos, chan) :
                /\ VideosOf(videos, chan)[v] = videos[v]
                /\ Scores(VideosOf(videos, chan), now, kind)[v] = Scores(videos, now, kind)[v]
<1> DEFINE local == VideosOf(videos, chan)
           D == DOMAIN local
<1>1. /\ D = {v \in DOMAIN videos : videos[v].chan = chan}
      /\ \A v \in D : local[v] = videos[v]
  BY DEF VideosOf
<1>2. VideoData(local)
  <2>1. D \in SUBSET DOMAIN videos
    BY <1>1
  <2> HIDE DEF local
  <2>2. IsFiniteSet(D)
    BY <2>1, FS_Subset DEF VideoData
  <2> QED BY <1>1, <2>1, <2>2 DEF VideoData
<1> HIDE DEF local
<1>3. ASSUME NEW v \in D PROVE PeersOf(local, v) = PeersOf(videos, v)
  BY <1>1 DEF PeersOf
<1>4. ASSUME NEW v \in D, NEW age PROVE ComparableViews(local, v, age) = ComparableViews(videos, v, age)
  <2> DEFINE peers == PeersOf(videos, v)
             newer(videos_, w, x) == \/ videos_[w].published > videos_[x].published
                                     \/ videos_[w].published = videos_[x].published /\ w < x
             compared(videos_) == {w \in peers : Cardinality({x \in peers : newer(videos_, x, w)}) < Peers}
             told(videos_) == {w \in compared(videos_) : ViewAtAge(videos_[w], age) # NULL}
  <2>1. \A w \in peers : local[w] = videos[w]
    <3>1. peers \subseteq D
      BY <1>1 DEF PeersOf
    <3> QED BY <1>1, <3>1
  <2>2. /\ ComparableViews(videos, v, age) = [w \in told(videos) |-> ViewAtAge(videos[w], age)]
        /\ ComparableViews(local, v, age) = [w \in told(local) |-> ViewAtAge(local[w], age)]
    BY <1>3 DEF ComparableViews
  <2> HIDE DEF peers
  <2>3. \A w, x \in peers : newer(local, w, x) = newer(videos, w, x)
    BY <2>1
  <2> HIDE DEF newer
  <2>4. \A w \in peers : {x \in peers : newer(local, x, w)} = {x \in peers : newer(videos, x, w)}
    BY <2>3
  <2>5. compared(local) = compared(videos) /\ compared(videos) \subseteq peers
    BY <2>4
  <2> HIDE DEF compared
  <2>6. told(local) = told(videos) /\ told(videos) \subseteq peers
    BY <2>1, <2>5
  <2> HIDE DEF told
  <2> QED BY <2>1, <2>2, <2>6
<1>5. ASSUME NEW v \in D PROVE Scores(local, now, kind)[v] = Scores(videos, now, kind)[v]
  <2>1. v \in D /\ v \in DOMAIN videos /\ local[v] = videos[v]
    BY <1>1
  <2>2. Breakout(local, v, BreakoutAge) = Breakout(videos, v, BreakoutAge)
    BY <1>4, <2>1 DEF Breakout
  <2> QED BY <2>1, <2>2 DEF Scores, RecentScore
<1> QED BY <1>1, <1>2, <1>5 DEF local

\* What the pages of the videos read say of a video is what those of its channel's say.
RanksAreLocal(videos, now, kind, size) ==
    LET all == PageRows(videos, now, kind, size)
        first == PageOf(videos, now, kind, 1, size)
        local(chan) == PageRows(VideosOf(videos, chan), now, kind, size)
    IN  /\ \A chan :
             /\ {<<r.video, r.score, r.vphs>> : r \in local(chan)}
                  = {<<r.video, r.score, r.vphs>> : r \in {r \in all : videos[r.video].chan = chan}}
             /\ \A r, s \in local(chan), x, y \in all :
                  x.video = r.video /\ y.video = s.video => (r.rank < s.rank) <=> (x.rank < y.rank)
        /\ {r.rank : r \in all} = 1..first.total
        /\ Cardinality({r.video : r \in all}) = first.total
        /\ {r.video : r \in all} \subseteq DOMAIN videos
        /\ kind = "weekly" => first.total + first.warmingUp = Cardinality(DOMAIN videos)
        /\ \A r, s \in all : r.rank < s.rank => ~Less(r.score, s.score)

\* Of any number of videos in pages of any size.
LEMMA RanksAlwaysLocal ==
    ASSUME NEW videos, VideoData(videos), NEW now \in Int, NEW kind \in Kinds, NEW size \in Nat \ {0}
    PROVE  RanksAreLocal(videos, now, kind, size)
<1> DEFINE scores == Scores(videos, now, kind)
           all == PageRows(videos, now, kind, size)
           scored == Scored(scores)
           first == PageOf(videos, now, kind, 1, size)
           loc(chan) == VideosOf(videos, chan)
           local(chan) == PageRows(loc(chan), now, kind, size)
<1>1. IsFiniteSet(DOMAIN videos) /\ DOMAIN scores = DOMAIN videos /\ ScoreData(scores)
  BY ScoresAre DEF VideoData
<1>2. /\ \A r \in all : r.video \in scored /\ r.score = scores[r.video] /\ r.vphs = Vphs(videos[r.video])
      /\ \A v \in scored : \E r \in all : r.video = v
      /\ \A r, s \in all : r.rank < s.rank <=> Beats(scores, r.video, s.video)
      /\ {r.rank : r \in all} = 1..Cardinality(scored)
      /\ {r.video : r \in all} = scored
      /\ first.total = Cardinality(scored)
  BY <1>1, PageRowsAre
<1>3. /\ IsFiniteSet(scored) /\ scored \subseteq DOMAIN videos
      /\ \A v \in scored : scores[v] \in Fractions
  BY <1>1, RankedIs
<1>4. ASSUME NEW chan
      PROVE  /\ \A r \in local(chan) : /\ r.video \in scored /\ videos[r.video].chan = chan
                                       /\ r.score = scores[r.video] /\ r.vphs = Vphs(videos[r.video])
             /\ \A v \in scored : videos[v].chan = chan => \E r \in local(chan) : r.video = v
             /\ \A r, s \in local(chan) : r.rank < s.rank <=> Beats(scores, r.video, s.video)
  <2> DEFINE few == loc(chan)
             own == Scores(few, now, kind)
  <2>1. /\ VideoData(few) /\ \A v : v \in DOMAIN few <=> v \in DOMAIN videos /\ videos[v].chan = chan
        /\ \A v \in DOMAIN few : few[v] = videos[v] /\ own[v] = scores[v]
    BY ScoresAreLocal
  <2> HIDE DEF few
  <2>2. IsFiniteSet(DOMAIN few) /\ DOMAIN own = DOMAIN few /\ ScoreData(own)
    BY <2>1, ScoresAre DEF VideoData
  <2> DEFINE rows == PageRows(few, now, kind, size)
  <2>3. /\ \A r \in rows : r.video \in Scored(own) /\ r.score = own[r.video] /\ r.vphs = Vphs(few[r.video])
        /\ \A v \in Scored(own) : \E r \in rows : r.video = v
        /\ \A r, s \in rows : r.rank < s.rank <=> Beats(own, r.video, s.video)
    BY <2>2, PageRowsAre
  <2> HIDE DEF own, rows, scores
  <2>4. Scored(own) = {v \in scored : videos[v].chan = chan}
    BY <1>1, <2>1, <2>2 DEF Scored
  <2>5. \A v \in Scored(own) : v \in DOMAIN few
    BY <2>2 DEF Scored
  <2>6. \A v, w \in Scored(own) : Beats(own, v, w) = Beats(scores, v, w)
    BY <2>1, <2>5 DEF Beats
  <2>7. local(chan) = rows
    BY DEF few, rows
  <2> HIDE DEF local, scored
  <2>8. \A r \in rows : /\ r.video \in scored /\ videos[r.video].chan = chan
                        /\ r.score = scores[r.video] /\ r.vphs = Vphs(videos[r.video])
    BY <2>1, <2>3, <2>4, <2>5
  <2>9. \A v \in scored : videos[v].chan = chan => \E r \in rows : r.video = v
    BY <2>3, <2>4
  <2>10. \A r, s \in rows : r.rank < s.rank <=> Beats(scores, r.video, s.video)
    BY <2>3, <2>6
  <2> QED BY <2>7, <2>8, <2>9, <2>10
<1> HIDE DEF local, all, scores
<1>5. ASSUME NEW chan
      PROVE  {<<r.video, r.score, r.vphs>> : r \in local(chan)}
               = {<<r.video, r.score, r.vphs>> : r \in {r \in all : videos[r.video].chan = chan}}
  <2> DEFINE told(v) == <<v, scores[v], Vphs(videos[v])>>
  <2>1. \A r \in local(chan) : <<r.video, r.score, r.vphs>> = told(r.video)
    BY <1>4
  <2>2. \A r \in all : <<r.video, r.score, r.vphs>> = told(r.video)
    BY <1>2
  <2> HIDE DEF told, scored
  <2>3. ASSUME NEW r \in local(chan)
        PROVE  \E s \in {s \in all : videos[s.video].chan = chan} :
                  <<r.video, r.score, r.vphs>> = <<s.video, s.score, s.vphs>>
    <3>1. r.video \in scored /\ videos[r.video].chan = chan
      BY <1>4
    <3>2. PICK s \in all : s.video = r.video
      BY <1>2, <3>1
    <3>3. s \in {x \in all : videos[x.video].chan = chan}
      BY <3>1, <3>2
    <3>4. <<r.video, r.score, r.vphs>> = told(r.video) /\ <<s.video, s.score, s.vphs>> = told(s.video)
      BY <2>1, <2>2
    <3>5. told(s.video) = told(r.video)
      BY <3>2
    <3>6. <<r.video, r.score, r.vphs>> = <<s.video, s.score, s.vphs>>
      BY <3>4, <3>5, Zenon
    <3> QED BY <3>3, <3>6
  <2>4. ASSUME NEW s \in all, videos[s.video].chan = chan
        PROVE  \E r \in local(chan) : <<r.video, r.score, r.vphs>> = <<s.video, s.score, s.vphs>>
    <3>1. PICK r \in local(chan) : r.video = s.video
      BY <1>2, <1>4, <2>4
    <3>2. <<r.video, r.score, r.vphs>> = told(r.video) /\ <<s.video, s.score, s.vphs>> = told(s.video)
      BY <2>1, <2>2
    <3>3. told(s.video) = told(r.video)
      BY <3>1
    <3>4. <<r.video, r.score, r.vphs>> = <<s.video, s.score, s.vphs>>
      BY <3>2, <3>3, Zenon
    <3> QED BY <3>4
  <2> QED BY <2>3, <2>4
<1>6. ASSUME NEW chan, NEW r \in local(chan), NEW s \in local(chan), NEW x \in all, NEW y \in all,
             x.video = r.video, y.video = s.video
      PROVE  (r.rank < s.rank) <=> (x.rank < y.rank)
  <2>1. r.rank < s.rank <=> Beats(scores, r.video, s.video)
    BY <1>4
  <2>2. x.rank < y.rank <=> Beats(scores, x.video, y.video)
    BY <1>2
  <2> QED BY <1>6, <2>1, <2>2
<1>7. kind = "weekly" => first.total + first.warmingUp = Cardinality(DOMAIN videos)
  <2> SUFFICES ASSUME kind = "weekly" PROVE first.total + first.warmingUp = Cardinality(DOMAIN videos)
    OBVIOUS
  <2> DEFINE unscored == {v \in DOMAIN videos : scores[v] = NULL}
  <2>1. first.warmingUp = Cardinality(unscored)
    BY DEF PageOf, scores
  <2>2. unscored = DOMAIN videos \ scored /\ DOMAIN videos \cap scored = scored
    <3>1. scored = {v \in DOMAIN videos : scores[v] # NULL}
      BY <1>1 DEF Scored
    <3> HIDE DEF scored
    <3> QED BY <3>1
  <2> HIDE DEF unscored, first, scored
  <2>3. Cardinality(unscored) = Cardinality(DOMAIN videos) - Cardinality(scored)
    <3> DEFINE every == DOMAIN videos
    <3>1. IsFiniteSet(every) /\ IsFiniteSet(scored) /\ unscored = every \ scored /\ every \cap scored = scored
      BY <1>1, <1>3, <2>2
    <3> HIDE DEF every
    <3>2. Cardinality(every \ scored) = Cardinality(every) - Cardinality(every \cap scored)
      BY ONLY <3>1, FS_Difference
    <3>3. Cardinality(unscored) = Cardinality(every) - Cardinality(scored)
      BY ONLY <3>1, <3>2
    <3> QED BY <3>3 DEF every
  <2>4. Cardinality(DOMAIN videos) \in Nat /\ Cardinality(scored) \in Nat
    BY <1>1, <1>3, FS_CardinalityType
  <2> QED BY <1>2, <2>1, <2>3, <2>4
<1>8. ASSUME NEW r \in all, NEW s \in all, r.rank < s.rank PROVE ~Less(r.score, s.score)
  <2>1. /\ r.video \in scored /\ s.video \in scored /\ Beats(scores, r.video, s.video)
        /\ r.score = scores[r.video] /\ s.score = scores[s.video]
    BY <1>2, <1>8
  <2> QED BY <1>3, <2>1, LessOrders DEF Beats
<1>9. Cardinality({r.video : r \in all}) = first.total
  BY <1>2
<1> HIDE DEF first
<1>10. /\ \A chan :
            /\ {<<r.video, r.score, r.vphs>> : r \in local(chan)}
                 = {<<r.video, r.score, r.vphs>> : r \in {r \in all : videos[r.video].chan = chan}}
            /\ \A r, s \in local(chan), x, y \in all :
                 x.video = r.video /\ y.video = s.video => (r.rank < s.rank) <=> (x.rank < y.rank)
       /\ {r.rank : r \in all} = 1..first.total
       /\ Cardinality({r.video : r \in all}) = first.total
       /\ {r.video : r \in all} \subseteq DOMAIN videos
       /\ kind = "weekly" => first.total + first.warmingUp = Cardinality(DOMAIN videos)
       /\ \A r, s \in all : r.rank < s.rank => ~Less(r.score, s.score)
  <2>1. {r.rank : r \in all} = 1..first.total /\ {r.video : r \in all} \subseteq DOMAIN videos
    BY <1>2, <1>3
  <2> QED BY <1>5, <1>6, <1>7, <1>8, <1>9, <2>1
<1> QED BY <1>10 DEF RanksAreLocal, all, local, first

\* A channel's own list reads the videos that the list of all reads of it, and no others when
\* that reads all of its own.
LEMMA ListIsLocal ==
    ASSUME NEW videos, VideoData(videos), NEW chan,
           VideosRead(VideosOf(videos, chan)) \subseteq VideosRead(videos)
    PROVE  ListForRanking(VideosOf(videos, chan)) = VideosOf(ListForRanking(videos), chan)
<1> DEFINE few == VideosOf(videos, chan)
           D == DOMAIN few
           before(w) == {v \in DOMAIN videos : Precedes(videos, v, w)}
           own(w) == {v \in D : Precedes(few, v, w)}
<1>1. D = {v \in DOMAIN videos : videos[v].chan = chan} /\ \A v \in D : few[v] = videos[v]
  BY DEF VideosOf
<1>2. IsFiniteSet(DOMAIN videos) /\ MaxRead \in Nat
  BY RankingsAssumption DEF VideoData
<1>3. /\ VideosRead(videos) = {w \in DOMAIN videos : Cardinality(before(w)) < MaxRead}
      /\ VideosRead(few) = {w \in D : Cardinality(own(w)) < MaxRead}
  BY DEF VideosRead
<1> HIDE DEF few
<1>4. ASSUME NEW w \in D, w \in VideosRead(videos) PROVE w \in VideosRead(few)
  <2>1. own(w) \subseteq before(w) /\ before(w) \subseteq DOMAIN videos
    BY <1>1 DEF Precedes
  <2>2. Cardinality(before(w)) < MaxRead
    BY <1>3, <1>4
  <2> HIDE DEF own, before
  <2>3. IsFiniteSet(before(w))
    BY <1>2, <2>1, FS_Subset
  <2>4. /\ Cardinality(own(w)) \in Nat /\ Cardinality(before(w)) \in Nat
        /\ Cardinality(own(w)) <= Cardinality(before(w))
    BY <2>1, <2>3, FS_Subset, FS_CardinalityType
  <2>5. Cardinality(own(w)) < MaxRead
    BY <1>2, <2>2, <2>4
  <2> QED BY <1>3, <2>5 DEF own
<1>5. VideosRead(few) \subseteq VideosRead(videos) /\ VideosRead(few) \subseteq D
  BY <1>3 DEF few
<1>6. VideosRead(few) = {v \in VideosRead(videos) : videos[v].chan = chan}
  <2>1. \A v \in VideosRead(videos) : v \in D <=> videos[v].chan = chan
    BY <1>1, <1>3
  <2> HIDE DEF D
  <2> QED BY <1>4, <1>5, <2>1
<1>7. /\ DOMAIN ListForRanking(videos) = VideosRead(videos)
      /\ \A v \in VideosRead(videos) : ListForRanking(videos)[v].chan = videos[v].chan
  BY DEF ListForRanking
<1>8. VideosOf(ListForRanking(videos), chan) = [v \in VideosRead(few) |-> ListForRanking(videos)[v]]
  BY <1>6, <1>7 DEF VideosOf
<1>9. \A v \in VideosRead(few) : ListForRanking(few)[v] = ListForRanking(videos)[v]
  BY <1>1, <1>5 DEF ListForRanking
<1>10. ListForRanking(few) = [v \in VideosRead(few) |-> ListForRanking(few)[v]]
  BY DEF ListForRanking
<1> QED BY <1>8, <1>9, <1>10 DEF few

\* Of a selection of any channels, of any number of videos, any bounds on how many of them are
\* read and pages of any size, what a ranking (RankingsService) says of a video is what the
\* ranking of its channel alone says, in the same order, as long as it reads of that channel
\* what that ranking reads; and its pages show every scored video it reads once, best first.
THEOREM RankingsAlwaysLocal ==
    ASSUME NEW videos, VideoData(videos), NEW now \in Int, NEW kind \in Kinds, NEW size \in Nat \ {0}
    PROVE  RankingsAreLocal(videos, now, kind, size)
<1> DEFINE read == ListForRanking(videos)
           all == Rows(videos, now, kind, size)
           first == RankingPage(videos, now, kind, 1, size)
           local(chan) == Rows(VideosOf(videos, chan), now, kind, size)
           own(chan) == PageRows(VideosOf(read, chan), now, kind, size)
<1>1. /\ VideoData(read) /\ DOMAIN read = VideosRead(videos)
      /\ \A v \in DOMAIN read : read[v].chan = videos[v].chan
  BY ListIs
<1>2. all = PageRows(read, now, kind, size) /\ first = PageOf(read, now, kind, 1, size)
  BY DEF Rows, RankingPage
<1> HIDE DEF read, all, first
<1>3. /\ \A chan :
           /\ {<<r.video, r.score, r.vphs>> : r \in own(chan)}
                = {<<r.video, r.score, r.vphs>> : r \in {r \in all : read[r.video].chan = chan}}
           /\ \A r, s \in own(chan), x, y \in all :
                x.video = r.video /\ y.video = s.video => (r.rank < s.rank) <=> (x.rank < y.rank)
      /\ {r.rank : r \in all} = 1..first.total
      /\ Cardinality({r.video : r \in all}) = first.total
      /\ {r.video : r \in all} \subseteq DOMAIN read
      /\ kind = "weekly" => first.total + first.warmingUp = Cardinality(DOMAIN read)
      /\ \A r, s \in all : r.rank < s.rank => ~Less(r.score, s.score)
  <2>1. RanksAreLocal(read, now, kind, size)
    BY <1>1, RanksAlwaysLocal
  <2> QED BY <1>2, <2>1 DEF RanksAreLocal
<1>4. \A r \in all : read[r.video].chan = videos[r.video].chan
  BY <1>1, <1>3
<1>5. ASSUME NEW chan, VideosRead(VideosOf(videos, chan)) \subseteq VideosRead(videos)
      PROVE  local(chan) = own(chan)
  BY <1>5, ListIsLocal DEF Rows, read
<1> HIDE DEF local, own
<1>6. ASSUME NEW chan, VideosRead(VideosOf(videos, chan)) \subseteq VideosRead(videos)
      PROVE  /\ {<<r.video, r.score, r.vphs>> : r \in local(chan)}
                  = {<<r.video, r.score, r.vphs>> : r \in {r \in all : videos[r.video].chan = chan}}
             /\ \A r, s \in local(chan), x, y \in all :
                  x.video = r.video /\ y.video = s.video => (r.rank < s.rank) <=> (x.rank < y.rank)
  <2>1. {r \in all : read[r.video].chan = chan} = {r \in all : videos[r.video].chan = chan}
    BY <1>4
  <2>2. local(chan) = own(chan)
    BY <1>5, <1>6
  <2> QED BY <1>3, <2>1, <2>2
<1>7. /\ \A chan \in {videos[v].chan : v \in DOMAIN videos} :
           VideosRead(VideosOf(videos, chan)) \subseteq VideosRead(videos) =>
           /\ {<<r.video, r.score, r.vphs>> : r \in local(chan)}
                = {<<r.video, r.score, r.vphs>> : r \in {r \in all : videos[r.video].chan = chan}}
           /\ \A r, s \in local(chan), x, y \in all :
                x.video = r.video /\ y.video = s.video => (r.rank < s.rank) <=> (x.rank < y.rank)
      /\ {r.rank : r \in all} = 1..first.total
      /\ Cardinality({r.video : r \in all}) = first.total
      /\ kind = "weekly" => first.total + first.warmingUp = Cardinality(VideosRead(videos))
      /\ \A r, s \in all : r.rank < s.rank => ~Less(r.score, s.score)
  BY <1>1, <1>3, <1>6
<1> QED BY <1>7 DEF RankingsAreLocal, all, local, first, VideosOf
=============================================================================
