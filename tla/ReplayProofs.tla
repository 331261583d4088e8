----------------------------- MODULE ReplayProofs -----------------------------
(***************************************************************************)
(* Proofs about Replay.  Sums over the bins of a position are sums of the  *)
(* values of a function over a finite set: what they obey is proved first, *)
(* by the smallest subset for which it fails.                              *)
(***************************************************************************)
EXTENDS Replay, FiniteSetTheorems, SequenceTheorems, WellFoundedInduction, TLAPS

-----------------------------------------------------------------------------
(* Sums *)

LEMMA SmallestCounterexample ==
  ASSUME NEW S, IsFiniteSet(S), NEW Bad, Bad \subseteq SUBSET S, Bad # {}
  PROVE  \E T \in Bad : IsFiniteSet(T) /\ \A U \in Bad : ~(U \subseteq T /\ U # T)
<1>1. IsWellFoundedOn(StrictSubsetOrdering(S), FiniteSubsetsOf(S))
  BY FS_StrictSubsetOrderingWellFounded
<1>2. Bad \subseteq FiniteSubsetsOf(S)
  BY FS_Subset DEF FiniteSubsetsOf
<1>3. PICK T \in Bad : \A U \in Bad : ~(<<U, T>> \in StrictSubsetOrdering(S))
  BY <1>1, <1>2, WFMin
<1>4. \A U \in Bad : ~(U \subseteq T /\ U # T)
  BY <1>3 DEF StrictSubsetOrdering
<1> QED BY <1>4, FS_Subset

Some(s) == CHOOSE x \in s : TRUE

Summing(sum, f, S) ==
  sum = [s \in SUBSET S |-> IF s = {} THEN 0 ELSE f[Some(s)] + sum[s \ {Some(s)}]]

LEMMA SumIsChosen ==
  ASSUME NEW f, NEW S
  PROVE  SumFunctionOnSet(f, S) = (CHOOSE sum : Summing(sum, f, S))[S]
BY DEF SumFunctionOnSet, FoldFunctionOnSet, MapThenFoldSet, Summing, Some

LEMMA SomeIn == ASSUME NEW s, s # {} PROVE Some(s) \in s /\ s \ {Some(s)} \subseteq s /\ s \ {Some(s)} # s
BY DEF Some

LEMMA SummingStep ==
  ASSUME NEW f, NEW S, NEW sum, Summing(sum, f, S), NEW s \in SUBSET S
  PROVE  sum[s] = IF s = {} THEN 0 ELSE f[Some(s)] + sum[s \ {Some(s)}]
BY DEF Summing

LEMMA SummingAgrees ==
  ASSUME NEW f, NEW S, IsFiniteSet(S), NEW T \in SUBSET S, NEW g, NEW h,
         Summing(g, f, S), Summing(h, f, T)
  PROVE  \A s \in SUBSET T : g[s] = h[s]
<1> DEFINE Bad == {s \in SUBSET T : g[s] # h[s]}
<1> SUFFICES ASSUME Bad # {} PROVE FALSE
  OBVIOUS
<1>1. IsFiniteSet(T) /\ Bad \subseteq SUBSET T
  BY FS_Subset
<1>2. PICK s \in Bad : \A u \in Bad : ~(u \subseteq s /\ u # s)
  <2> HIDE DEF Bad
  <2> QED BY <1>1, SmallestCounterexample
<1> s \in SUBSET S /\ s \in SUBSET T
  BY <1>1
<1>3. g[s] = IF s = {} THEN 0 ELSE f[Some(s)] + g[s \ {Some(s)}]
  BY SummingStep
<1>4. h[s] = IF s = {} THEN 0 ELSE f[Some(s)] + h[s \ {Some(s)}]
  BY DEF Summing
<1>5. s # {}
  BY <1>3, <1>4
<1>6. s \ {Some(s)} \notin Bad
  BY <1>2, <1>5, SomeIn
<1> QED BY <1>3, <1>4, <1>5, <1>6

LEMMA SummingExists ==
  ASSUME NEW f, NEW S, IsFiniteSet(S)
  PROVE  \E sum : Summing(sum, f, S)
<1> DEFINE Bad == {T \in SUBSET S : ~ \E sum : Summing(sum, f, T)}
           part(T) == CHOOSE sum : Summing(sum, f, T)
<1> SUFFICES ASSUME Bad # {} PROVE FALSE
  OBVIOUS
<1>1. PICK T \in Bad : IsFiniteSet(T) /\ \A U \in Bad : ~(U \subseteq T /\ U # T)
  <2>1. Bad \subseteq SUBSET S
    OBVIOUS
  <2> HIDE DEF Bad
  <2> QED BY <2>1, SmallestCounterexample
<1>2. ASSUME NEW U \in SUBSET T, U # T PROVE Summing(part(U), f, U)
  BY <1>1, <1>2
<1>3. ASSUME NEW U \in SUBSET T, U # T, NEW V \in SUBSET U PROVE part(U)[V] = part(V)[V]
  <2>1. IsFiniteSet(U)
    BY <1>1, FS_Subset
  <2>2. Summing(part(U), f, U) /\ Summing(part(V), f, V)
    BY <1>2, <1>3
  <2> HIDE DEF part
  <2> QED BY <2>1, <2>2, SummingAgrees
<1> DEFINE rest(s) == s \ {Some(s)}
           whole == [s \in SUBSET T |-> IF s = {} THEN 0 ELSE f[Some(s)] + part(rest(s))[rest(s)]]
<1>4. ASSUME NEW s \in SUBSET T, s # {} PROVE whole[rest(s)] = part(rest(s))[rest(s)]
  <2>1. rest(s) \in SUBSET T /\ rest(s) # T
    BY <1>4, SomeIn
  <2>2. Summing(part(rest(s)), f, rest(s))
    BY <1>2, <2>1
  <2>3. part(rest(s))[rest(s)] =
          IF rest(s) = {} THEN 0 ELSE f[Some(rest(s))] + part(rest(s))[rest(rest(s))]
    <3>1. rest(s) \in SUBSET rest(s)
      OBVIOUS
    <3> HIDE DEF part, rest
    <3>2. part(rest(s))[rest(s)] =
            IF rest(s) = {} THEN 0 ELSE f[Some(rest(s))] + part(rest(s))[rest(s) \ {Some(rest(s))}]
      BY <2>2, <3>1, SummingStep
    <3> QED BY <3>2 DEF rest
  <2>4. rest(s) # {} => part(rest(s))[rest(rest(s))] = part(rest(rest(s)))[rest(rest(s))]
    BY <1>3, <2>1, SomeIn
  <2> HIDE DEF part, rest
  <2> QED BY <2>1, <2>3, <2>4
<1>5. whole = [s \in SUBSET T |-> IF s = {} THEN 0 ELSE f[Some(s)] + whole[rest(s)]]
  <2>1. \A s \in SUBSET T : s # {} => whole[rest(s)] = part(rest(s))[rest(s)]
    BY <1>4
  <2> DEFINE after(s) == part(rest(s))[rest(s)]
             sum(g) == [s \in SUBSET T |-> IF s = {} THEN 0 ELSE f[Some(s)] + g[rest(s)]]
  <2>2. whole = [s \in SUBSET T |-> IF s = {} THEN 0 ELSE f[Some(s)] + after(s)]
    OBVIOUS
  <2>3. \A s \in SUBSET T : s # {} => whole[rest(s)] = after(s)
    BY <2>1
  <2> HIDE DEF part, rest, whole, after
  <2> QED BY <2>2, <2>3
<1>6. Summing(whole, f, T)
  BY <1>5 DEF Summing
<1> QED BY <1>6

LEMMA SumStep ==
  ASSUME NEW f, NEW S, IsFiniteSet(S)
  PROVE  SumFunctionOnSet(f, S) =
           IF S = {} THEN 0 ELSE f[Some(S)] + SumFunctionOnSet(f, S \ {Some(S)})
<1> DEFINE sum(T) == CHOOSE g : Summing(g, f, T)
           T == S \ {Some(S)}
<1>1. IsFiniteSet(T) /\ T \in SUBSET S
  BY FS_Subset
<1>2. Summing(sum(S), f, S) /\ Summing(sum(T), f, T)
  BY <1>1, SummingExists
<1>3. SumFunctionOnSet(f, S) = sum(S)[S] /\ SumFunctionOnSet(f, T) = sum(T)[T]
  BY SumIsChosen
<1> HIDE DEF sum
<1>4. sum(S)[S] = IF S = {} THEN 0 ELSE f[Some(S)] + sum(S)[T]
  BY <1>2, SummingStep
<1>5. sum(S)[T] = sum(T)[T]
  <2>1. T \in SUBSET T
    OBVIOUS
  <2> HIDE DEF T
  <2> QED BY <1>1, <1>2, <2>1, SummingAgrees
<1> QED BY <1>3, <1>4, <1>5

LEMMA SumOfNone == ASSUME NEW f PROVE SumFunctionOnSet(f, {}) = 0
BY SumStep, FS_EmptySet

LEMMA SumIsInt ==
  ASSUME NEW f, NEW S, IsFiniteSet(S), \A x \in S : f[x] \in Int
  PROVE  SumFunctionOnSet(f, S) \in Int
<1> DEFINE Bad == {T \in SUBSET S : SumFunctionOnSet(f, T) \notin Int}
<1> SUFFICES ASSUME Bad # {} PROVE FALSE
  OBVIOUS
<1>1. PICK T \in Bad : IsFiniteSet(T) /\ \A U \in Bad : ~(U \subseteq T /\ U # T)
  <2>1. Bad \subseteq SUBSET S
    OBVIOUS
  <2> HIDE DEF Bad
  <2> QED BY <2>1, SmallestCounterexample
<1>2. T # {}
  BY SumOfNone
<1>3. SumFunctionOnSet(f, T) = f[Some(T)] + SumFunctionOnSet(f, T \ {Some(T)})
  BY <1>1, <1>2, SumStep
<1>4. SumFunctionOnSet(f, T \ {Some(T)}) \in Int
  BY <1>1, <1>2, SomeIn
<1> QED BY <1>2, <1>3, <1>4, SomeIn

LEMMA SumIsLinear ==
  ASSUME NEW f, NEW g, NEW h, NEW c \in Int, NEW S, IsFiniteSet(S),
         \A x \in S : f[x] \in Int /\ g[x] \in Int /\ h[x] = c * f[x] + g[x]
  PROVE  SumFunctionOnSet(h, S) = c * SumFunctionOnSet(f, S) + SumFunctionOnSet(g, S)
<1> DEFINE Linear(T) ==
             SumFunctionOnSet(h, T) = c * SumFunctionOnSet(f, T) + SumFunctionOnSet(g, T)
           Bad == {T \in SUBSET S : ~Linear(T)}
<1> SUFFICES ASSUME Bad # {} PROVE FALSE
  OBVIOUS
<1>1. PICK T \in Bad : IsFiniteSet(T) /\ \A U \in Bad : ~(U \subseteq T /\ U # T)
  <2>1. Bad \subseteq SUBSET S
    OBVIOUS
  <2> HIDE DEF Bad
  <2> QED BY <2>1, SmallestCounterexample
<1> DEFINE x == Some(T)
           U == T \ {x}
<1>2. T # {}
  <2>1. SumFunctionOnSet(f, {}) = 0 /\ SumFunctionOnSet(g, {}) = 0 /\ SumFunctionOnSet(h, {}) = 0
    BY SumOfNone
  <2>2. c * 0 + 0 = 0
    OBVIOUS
  <2>3. Linear({})
    BY <2>1, <2>2
  <2>4. ~Linear(T)
    OBVIOUS
  <2> HIDE DEF Linear, Bad
  <2> QED BY <2>3, <2>4
<1>3. x \in S /\ Linear(U) /\ IsFiniteSet(U) /\ U \subseteq S
  BY <1>1, <1>2, SomeIn, FS_Subset
<1>4. /\ SumFunctionOnSet(f, T) = f[x] + SumFunctionOnSet(f, U)
      /\ SumFunctionOnSet(g, T) = g[x] + SumFunctionOnSet(g, U)
      /\ SumFunctionOnSet(h, T) = h[x] + SumFunctionOnSet(h, U)
  BY <1>1, <1>2, SumStep
<1>5. SumFunctionOnSet(f, U) \in Int /\ SumFunctionOnSet(g, U) \in Int
  BY <1>3, SumIsInt
<1>6. f[x] \in Int /\ g[x] \in Int /\ h[x] = c * f[x] + g[x]
  BY <1>3
<1> HIDE DEF x, U
<1>7. c * (f[x] + SumFunctionOnSet(f, U)) = c * f[x] + c * SumFunctionOnSet(f, U)
  BY <1>5, <1>6
<1>8. Linear(T)
  BY <1>3, <1>4, <1>5, <1>6, <1>7
<1> QED BY <1>8

LEMMA SumIsMonotone ==
  ASSUME NEW f, NEW g, NEW S, IsFiniteSet(S),
         \A x \in S : f[x] \in Int /\ g[x] \in Int /\ f[x] <= g[x]
  PROVE  SumFunctionOnSet(f, S) <= SumFunctionOnSet(g, S)
<1> DEFINE Bad == {T \in SUBSET S : ~(SumFunctionOnSet(f, T) <= SumFunctionOnSet(g, T))}
<1> SUFFICES ASSUME Bad # {} PROVE FALSE
  OBVIOUS
<1>1. PICK T \in Bad : IsFiniteSet(T) /\ \A U \in Bad : ~(U \subseteq T /\ U # T)
  <2>1. Bad \subseteq SUBSET S
    OBVIOUS
  <2> HIDE DEF Bad
  <2> QED BY <2>1, SmallestCounterexample
<1> DEFINE x == Some(T)
           U == T \ {x}
<1>2. T # {}
  BY SumOfNone
<1>3. x \in S /\ U \in SUBSET S /\ IsFiniteSet(U)
  BY <1>1, <1>2, SomeIn, FS_Subset
<1>4. SumFunctionOnSet(f, U) <= SumFunctionOnSet(g, U)
  BY <1>1, <1>2, SomeIn
<1>5. /\ SumFunctionOnSet(f, T) = f[x] + SumFunctionOnSet(f, U)
      /\ SumFunctionOnSet(g, T) = g[x] + SumFunctionOnSet(g, U)
  BY <1>1, <1>2, SumStep
<1>6. SumFunctionOnSet(f, U) \in Int /\ SumFunctionOnSet(g, U) \in Int
  BY <1>3, SumIsInt
<1> HIDE DEF x, U
<1>7. SumFunctionOnSet(f, T) <= SumFunctionOnSet(g, T)
  BY <1>3, <1>4, <1>5, <1>6
<1> QED BY <1>7

LEMMA SumOfZeros ==
  ASSUME NEW f, NEW S, IsFiniteSet(S), \A x \in S : f[x] = 0
  PROVE  SumFunctionOnSet(f, S) = 0
<1>1. SumFunctionOnSet(f, S) = 1 * SumFunctionOnSet(f, S) + SumFunctionOnSet(f, S)
  <2>1. \A x \in S : f[x] \in Int /\ f[x] \in Int /\ f[x] = 1 * f[x] + f[x]
    OBVIOUS
  <2> QED BY <2>1, SumIsLinear
<1>2. SumFunctionOnSet(f, S) \in Int
  <2>1. \A x \in S : f[x] \in Int
    OBVIOUS
  <2> QED BY <2>1, SumIsInt
<1>3. ASSUME NEW n \in Int, n = 1 * n + n PROVE n = 0
  BY <1>3
<1> QED BY <1>1, <1>2, <1>3

LEMMA SumOfNats ==
  ASSUME NEW f, NEW S, IsFiniteSet(S), \A x \in S : f[x] \in Nat
  PROVE  /\ SumFunctionOnSet(f, S) \in Nat
         /\ \A x \in S : f[x] <= SumFunctionOnSet(f, S)
<1>1. ASSUME NEW g, NEW T, IsFiniteSet(T), \A x \in T : g[x] \in Nat
      PROVE  SumFunctionOnSet(g, T) \in Nat
  <2> DEFINE zero == [x \in T |-> 0]
  <2>1. SumFunctionOnSet(zero, T) = 0
    BY <1>1, SumOfZeros
  <2>2. \A x \in T : zero[x] \in Int /\ g[x] \in Int /\ zero[x] <= g[x]
    BY <1>1
  <2> HIDE DEF zero
  <2>3. SumFunctionOnSet(zero, T) <= SumFunctionOnSet(g, T)
    BY <1>1, <2>2, SumIsMonotone
  <2>4. SumFunctionOnSet(g, T) \in Int
    BY <1>1, SumIsInt
  <2> QED BY <2>1, <2>3, <2>4
<1>2. SumFunctionOnSet(f, S) \in Nat
  BY <1>1
<1>3. ASSUME NEW x \in S PROVE f[x] <= SumFunctionOnSet(f, S)
  <2> DEFINE Bad == {T \in SUBSET S : x \in T /\ ~(f[x] <= SumFunctionOnSet(f, T))}
  <2> SUFFICES ASSUME Bad # {} PROVE FALSE
    OBVIOUS
  <2>1. PICK T \in Bad : IsFiniteSet(T) /\ \A U \in Bad : ~(U \subseteq T /\ U # T)
    <3>1. Bad \subseteq SUBSET S
      OBVIOUS
    <3> HIDE DEF Bad
    <3> QED BY <3>1, SmallestCounterexample
  <2> DEFINE y == Some(T)
             U == T \ {y}
  <2>2. T # {} /\ y \in S /\ U \in SUBSET S /\ IsFiniteSet(U)
    BY <2>1, SomeIn, FS_Subset
  <2>3. SumFunctionOnSet(f, T) = f[y] + SumFunctionOnSet(f, U)
    BY <2>1, <2>2, SumStep
  <2>4. SumFunctionOnSet(f, U) \in Nat
    BY <1>1, <2>2
  <2>5. x # y => f[x] <= SumFunctionOnSet(f, U)
    BY <2>1, <2>2, SomeIn
  <2>6. f[x] \in Nat /\ f[y] \in Nat
    BY <2>2
  <2>7. ~(f[x] <= SumFunctionOnSet(f, T))
    OBVIOUS
  <2> HIDE DEF y, U, Bad
  <2> QED BY <2>3, <2>4, <2>5, <2>6, <2>7
<1> QED BY <1>2, <1>3

-----------------------------------------------------------------------------
(* Sums over parts of a set *)

LEMMA SumAgrees ==
  ASSUME NEW f, NEW g, NEW S, IsFiniteSet(S), \A x \in S : f[x] \in Int /\ g[x] = f[x]
  PROVE  SumFunctionOnSet(g, S) = SumFunctionOnSet(f, S)
<1>1. /\ SumFunctionOnSet(g, S) <= SumFunctionOnSet(f, S)
      /\ SumFunctionOnSet(f, S) <= SumFunctionOnSet(g, S)
  <2>1. /\ \A x \in S : g[x] \in Int /\ f[x] \in Int /\ g[x] <= f[x]
        /\ \A x \in S : f[x] \in Int /\ g[x] \in Int /\ f[x] <= g[x]
    OBVIOUS
  <2> QED BY <2>1, SumIsMonotone
<1>2. SumFunctionOnSet(g, S) \in Int /\ SumFunctionOnSet(f, S) \in Int
  <2>1. (\A x \in S : g[x] \in Int) /\ (\A x \in S : f[x] \in Int)
    OBVIOUS
  <2> QED BY <2>1, SumIsInt
<1> QED BY <1>1, <1>2

(* The order in which elements are summed up does not matter.              *)
LEMMA SumWithout ==
  ASSUME NEW f, NEW S, IsFiniteSet(S), \A y \in S : f[y] \in Int
  PROVE  \A x \in S : SumFunctionOnSet(f, S) = f[x] + SumFunctionOnSet(f, S \ {x})
<1> DEFINE Off(T, x) == SumFunctionOnSet(f, T) # f[x] + SumFunctionOnSet(f, T \ {x})
           Bad == {T \in SUBSET S : \E x \in T : Off(T, x)}
<1> SUFFICES ASSUME Bad # {} PROVE FALSE
  OBVIOUS
<1>1. PICK T \in Bad : IsFiniteSet(T) /\ \A U \in Bad : ~(U \subseteq T /\ U # T)
  <2>1. Bad \subseteq SUBSET S
    OBVIOUS
  <2> HIDE DEF Bad
  <2> QED BY <2>1, SmallestCounterexample
<1>2. T \in SUBSET S /\ \E x \in T : Off(T, x)
  BY <1>1
<1>3. PICK x \in T : Off(T, x)
  BY <1>2
<1>4. PICK y \in T : y = Some(T)
  BY <1>3, SomeIn
<1>5. SumFunctionOnSet(f, T) = f[y] + SumFunctionOnSet(f, T \ {y})
  BY <1>1, <1>4, SumStep
<1>6. x # y
  BY <1>3, <1>5
<1> DEFINE C == (T \ {x}) \ {y}
<1>7. ASSUME NEW a \in {x, y}, NEW b \in {x, y}, a # b
      PROVE  SumFunctionOnSet(f, T \ {a}) = f[b] + SumFunctionOnSet(f, C)
  <2>1. T \ {a} \in SUBSET S /\ b \in T \ {a} /\ (T \ {a}) \ {b} = C
    BY <1>2, <1>7
  <2>2. T \ {a} \notin Bad
    BY <1>1, <1>7
  <2> QED BY <2>1, <2>2
<1>8. IsFiniteSet(C) /\ \A z \in C : f[z] \in Int
  BY <1>1, <1>2, FS_Subset
<1>9. f[x] \in Int /\ f[y] \in Int
  BY <1>2
<1> HIDE DEF C, Bad
<1>10. SumFunctionOnSet(f, C) \in Int
  BY <1>8, SumIsInt
<1>11. /\ SumFunctionOnSet(f, T \ {x}) = f[y] + SumFunctionOnSet(f, C)
       /\ SumFunctionOnSet(f, T \ {y}) = f[x] + SumFunctionOnSet(f, C)
  BY <1>6, <1>7
<1> QED BY <1>3, <1>5, <1>9, <1>10, <1>11

(* What is zero outside a part sums up to the part.                        *)
LEMMA SumOfPart ==
  ASSUME NEW f, NEW g, NEW S, IsFiniteSet(S), NEW P \in SUBSET S,
         \A x \in S : f[x] \in Int /\ g[x] = IF x \in P THEN f[x] ELSE 0
  PROVE  SumFunctionOnSet(g, S) = SumFunctionOnSet(f, P)
<1> DEFINE Same(T) == SumFunctionOnSet(g, T) = SumFunctionOnSet(f, T \cap P)
           Bad == {T \in SUBSET S : ~Same(T)}
<1> SUFFICES ASSUME ~Same(S) PROVE FALSE
  <2>1. S \cap P = P
    OBVIOUS
  <2> QED BY <2>1
<1>1. PICK T \in Bad : IsFiniteSet(T) /\ \A U \in Bad : ~(U \subseteq T /\ U # T)
  <2>1. Bad \subseteq SUBSET S /\ Bad # {}
    OBVIOUS
  <2> HIDE DEF Bad
  <2> QED BY <2>1, SmallestCounterexample
<1>2. T \in SUBSET S /\ ~Same(T)
  BY <1>1
<1>3. T # {}
  <2>1. Same({})
    BY SumOfNone
  <2> HIDE DEF Same
  <2> QED BY <1>2, <2>1
<1>4. PICK x \in T : x = Some(T)
  BY <1>3, SomeIn
<1>5. SumFunctionOnSet(g, T) = g[x] + SumFunctionOnSet(g, T \ {x})
  BY <1>1, <1>4, SumStep
<1>6. SumFunctionOnSet(g, T \ {x}) = SumFunctionOnSet(f, (T \ {x}) \cap P)
  <2>1. T \ {x} \notin Bad /\ T \ {x} \in SUBSET S
    BY <1>1, <1>2
  <2> QED BY <2>1
<1>7. SumFunctionOnSet(f, (T \ {x}) \cap P) \in Int
  <2>1. IsFiniteSet((T \ {x}) \cap P) /\ \A y \in (T \ {x}) \cap P : f[y] \in Int
    BY <1>1, FS_Subset
  <2> QED BY <2>1, SumIsInt
<1>8. CASE x \in P
  <2>1. IsFiniteSet(T \cap P) /\ (\A y \in T \cap P : f[y] \in Int) /\ x \in T \cap P
    BY <1>1, <1>8, FS_Subset
  <2>2. (T \cap P) \ {x} = (T \ {x}) \cap P
    OBVIOUS
  <2>3. SumFunctionOnSet(f, T \cap P) = f[x] + SumFunctionOnSet(f, (T \cap P) \ {x})
    BY <2>1, SumWithout
  <2>4. g[x] = f[x]
    BY <1>2, <1>8
  <2> QED BY <1>2, <1>5, <1>6, <2>2, <2>3, <2>4
<1>9. CASE x \notin P
  <2>1. T \cap P = (T \ {x}) \cap P
    BY <1>9
  <2>2. g[x] = 0
    BY <1>2, <1>9
  <2>3. SumFunctionOnSet(g, T) = SumFunctionOnSet(g, T \ {x})
    BY <1>5, <1>6, <1>7, <2>2
  <2> QED BY <1>2, <1>6, <2>1, <2>3
<1> QED BY <1>8, <1>9

(* More is no less.                                                        *)
LEMMA SumGrows ==
  ASSUME NEW f, NEW S, IsFiniteSet(S), \A x \in S : f[x] \in Nat, NEW P \in SUBSET S
  PROVE  SumFunctionOnSet(f, P) <= SumFunctionOnSet(f, S)
<1> DEFINE g == [x \in S |-> IF x \in P THEN f[x] ELSE 0]
<1>1. \A x \in S : /\ f[x] \in Int /\ g[x] = (IF x \in P THEN f[x] ELSE 0)
                   /\ g[x] \in Int /\ g[x] <= f[x]
  OBVIOUS
<1> HIDE DEF g
<1>2. SumFunctionOnSet(g, S) = SumFunctionOnSet(f, P)
  BY <1>1, SumOfPart
<1>3. SumFunctionOnSet(g, S) <= SumFunctionOnSet(f, S)
  BY <1>1, SumIsMonotone
<1> QED BY <1>2, <1>3

-----------------------------------------------------------------------------
(* Arithmetic *)

LEMMA PositivePart == ASSUME NEW x \in Int PROVE Positive(x) = IF x >= 0 THEN x ELSE 0
<1>1. \A m \in {0, x} : (\A y \in {0, x} : m >= y) <=> m = IF x >= 0 THEN x ELSE 0
  OBVIOUS
<1> QED BY <1>1 DEF Positive, Max

LEMMA Larger ==
  ASSUME NEW x \in Int, NEW y \in Int
  PROVE  Max({x, y}) = IF x >= y THEN x ELSE y
<1>1. \A m \in {x, y} : (\A z \in {x, y} : m >= z) <=> m = IF x >= y THEN x ELSE y
  OBVIOUS
<1> QED BY <1>1 DEF Max

LEMMA Quotient ==
  ASSUME NEW a \in Nat, NEW n \in Nat \ {0}
  PROVE  a \div n \in Nat /\ (a \div n) * n <= a
OBVIOUS

LEMMA ShareIsBounded ==
  ASSUME NEW budget \in Nat, NEW weight \in Nat, NEW total \in Nat \ {0}
  PROVE  /\ Share(budget, weight, total) \in Nat
         /\ total * Share(budget, weight, total) <= budget * weight
         /\ weight = 0 => Share(budget, weight, total) = 0
<1>1. Share(budget, weight, total) = (budget * weight) \div total
  BY DEF Share
<1>2. budget * weight \in Nat /\ (weight = 0 => budget * weight = 0)
  OBVIOUS
<1>3. ASSUME NEW n \in Nat
      PROVE  n \div total \in Nat /\ total * (n \div total) <= n /\ (n = 0 => n \div total = 0)
  OBVIOUS
<1> QED BY <1>1, <1>2, <1>3

LEMMA Cancelled ==
  ASSUME NEW m \in Nat \ {0}, NEW a \in Int, NEW c \in Int, m * a <= c * m
  PROVE  a <= c
OBVIOUS

LEMMA Shared ==
  ASSUME NEW S, IsFiniteSet(S), NEW w, \A b \in S : w[b] \in Nat, NEW budget \in Nat,
         NEW total, total = SumFunctionOnSet(w, S),
         NEW share, share = [b \in S |-> Share(budget, w[b], total)]
  PROVE  /\ \A b \in S : share[b] \in Nat /\ (w[b] = 0 => share[b] = 0)
         /\ SumFunctionOnSet(share, S) <= budget
<1>1. total \in Nat
  BY SumOfNats
<1>2. CASE total = 0
  <2>1. \A b \in S : share[b] = 0
    BY <1>2 DEF Share
  <2>2. SumFunctionOnSet(share, S) = 0
    BY <2>1, SumOfZeros
  <2> QED BY <2>1, <2>2
<1>3. CASE total # 0
  <2>1. ASSUME NEW b \in S
        PROVE  share[b] \in Nat /\ total * share[b] <= budget * w[b] /\ (w[b] = 0 => share[b] = 0)
    BY <1>1, <1>3, ShareIsBounded
  <2> DEFINE zero == [b \in S |-> 0]
             shared == [b \in S |-> total * share[b]]
             weighed == [b \in S |-> budget * w[b]]
  <2>2. SumFunctionOnSet(zero, S) = 0
    BY SumOfZeros
  <2>3. SumFunctionOnSet(shared, S) = total * SumFunctionOnSet(share, S) + 0
    <3>1. \A b \in S : share[b] \in Int /\ zero[b] \in Int /\ shared[b] = total * share[b] + zero[b]
      BY <1>1, <2>1
    <3> HIDE DEF zero, shared
    <3> QED BY <1>1, <2>2, <3>1, SumIsLinear
  <2>4. SumFunctionOnSet(weighed, S) = budget * total + 0
    <3>1. \A b \in S : w[b] \in Int /\ zero[b] \in Int /\ weighed[b] = budget * w[b] + zero[b]
      OBVIOUS
    <3> HIDE DEF zero, weighed
    <3> QED BY <2>2, <3>1, SumIsLinear
  <2>5. SumFunctionOnSet(shared, S) <= SumFunctionOnSet(weighed, S)
    <3>1. \A b \in S : shared[b] \in Int /\ weighed[b] \in Int /\ shared[b] <= weighed[b]
      BY <1>1, <2>1
    <3> HIDE DEF shared, weighed
    <3> QED BY <3>1, SumIsMonotone
  <2>6. SumFunctionOnSet(share, S) \in Int
    BY <2>1, SumIsInt
  <2> HIDE DEF shared, weighed
  <2> QED BY <1>1, <1>3, <2>1, <2>3, <2>4, <2>5, <2>6, Cancelled
<1> QED BY <1>2, <1>3

-----------------------------------------------------------------------------
(* Allocating a value *)

Bin == [base : Nat, quote : Nat]

(* The bins the active one splits: base above it, quote below.             *)
Split(bins, active) ==
  \A b \in DOMAIN bins : /\ b < active => bins[b].base = 0
                         /\ b > active => bins[b].quote = 0

(* A range whose bins have a price and a weight.                           *)
Laid(v, lower, upper) ==
  /\ lower \in DOMAIN Price /\ upper \in DOMAIN Price /\ lower <= upper
  /\ \A d \in 0..(upper - lower) : Weight[v.shape][d] \in Nat

LEMMA Prices ==
  ASSUME ReplayAssumption
  PROVE  /\ \A b \in DOMAIN Price : b \in Int /\ Price[b] \in Nat \ {0}
         /\ \A a, c \in DOMAIN Price : a..c \subseteq DOMAIN Price
         /\ \A a, c \in DOMAIN Price : a <= c => Price[a] <= Price[c]
<1>1. PICK low, high \in DOMAIN Price : Price \in [low..high -> Nat \ {0}]
  BY DEF ReplayAssumption
<1>2. DOMAIN Price \subseteq Int
  BY DEF ReplayAssumption
<1>3. \A a, c \in DOMAIN Price : a <= c => Price[a] <= Price[c]
  <2>1. \A a, c \in DOMAIN Price : a < c => Price[a] < Price[c]
    BY DEF ReplayAssumption
  <2> QED BY <1>1, <1>2, <2>1
<1> QED BY <1>1, <1>2, <1>3

LEMMA RangeIsFinite == ASSUME NEW a \in Int, NEW c \in Int PROVE IsFiniteSet(a..c)
BY FS_Interval

LEMMA Weights ==
  ASSUME ReplayAssumption, NEW v \in Variants, NEW lower, NEW upper, Laid(v, lower, upper),
         NEW active \in lower..upper, NEW b \in lower..upper
  PROVE  /\ QuoteWeight(v.shape, b, active) \in Nat /\ BaseWeight(v.shape, b, active) \in Nat
         /\ b > active => QuoteWeight(v.shape, b, active) = 0
         /\ b < active => BaseWeight(v.shape, b, active) = 0
<1>1. lower \in Int /\ upper \in Int /\ active \in Int /\ b \in Int
  BY Prices DEF Laid
<1>2. \A d \in 0..(upper - lower) : Weight[v.shape][d] \in Nat
  BY DEF Laid
<1>3. \A n \in Nat : n \div 2 \in Nat
  OBVIOUS
<1>4. active - b \in Nat => Weight[v.shape][active - b] \in Nat
  BY <1>1, <1>2
<1>5. b - active \in Nat => Weight[v.shape][b - active] \in Nat
  BY <1>1, <1>2
<1>6. Weight[v.shape][0] \div 2 \in Nat
  BY <1>1, <1>2, <1>3
<1> QED BY <1>1, <1>4, <1>5, <1>6 DEF QuoteWeight, BaseWeight, ShapeWeight

LEMMA Distributed ==
  ASSUME ReplayAssumption, NEW v \in Variants, NEW lower, NEW upper, Laid(v, lower, upper),
         NEW active \in lower..upper, NEW budget, budget.base \in Nat, budget.quote \in Nat
  PROVE  LET bins == Distribute(lower, upper, active, budget, v.shape)
         IN  /\ bins \in [lower..upper -> Bin] /\ Split(bins, active)
             /\ Base(bins) \in Nat /\ Quote(bins) \in Nat
             /\ Base(bins) * Price[active] <= budget.base
             /\ Quote(bins) <= budget.quote
<1> DEFINE S == lower..upper
           quotes == [b \in S |-> QuoteWeight(v.shape, b, active)]
           bases == [b \in S |-> BaseWeight(v.shape, b, active)]
           quote == SumFunctionOnSet(quotes, S)
           base == SumFunctionOnSet(bases, S)
           ForQuote == [b \in S |-> Share(budget.quote, quotes[b], quote)]
           ForBase == [b \in S |-> Share(budget.base, bases[b], base)]
           bins == Distribute(lower, upper, active, budget, v.shape)
           InQuote == [b \in S |-> (ForQuote[b] \div Price[b]) * Price[b]]
           InBase == [b \in S |-> ForBase[b] \div Price[active]]
<1>1. /\ lower \in Int /\ upper \in Int /\ S \subseteq DOMAIN Price /\ IsFiniteSet(S)
      /\ \A b \in S : b \in Int /\ Price[b] \in Nat \ {0}
  BY Prices, RangeIsFinite DEF Laid
<1>2. \A b \in S : /\ quotes[b] \in Nat /\ bases[b] \in Nat
                   /\ b > active => quotes[b] = 0
                   /\ b < active => bases[b] = 0
  BY Weights
<1>3. /\ \A b \in S : ForQuote[b] \in Nat /\ (quotes[b] = 0 => ForQuote[b] = 0)
      /\ SumFunctionOnSet(ForQuote, S) <= budget.quote
  <2>1. quote = SumFunctionOnSet(quotes, S)
        /\ ForQuote = [b \in S |-> Share(budget.quote, quotes[b], quote)]
    OBVIOUS
  <2> HIDE DEF quotes, quote, ForQuote, S
  <2> QED BY <1>1, <1>2, <2>1, Shared
<1>4. /\ \A b \in S : ForBase[b] \in Nat /\ (bases[b] = 0 => ForBase[b] = 0)
      /\ SumFunctionOnSet(ForBase, S) <= budget.base
  <2>1. base = SumFunctionOnSet(bases, S)
        /\ ForBase = [b \in S |-> Share(budget.base, bases[b], base)]
    OBVIOUS
  <2> HIDE DEF bases, base, ForBase, S
  <2> QED BY <1>1, <1>2, <2>1, Shared
<1>5. bins = [b \in S |-> [quote |-> InQuote[b], base |-> InBase[b]]]
  BY DEF Distribute, SumFunction
<1>6. \A b \in S : /\ InQuote[b] \in Nat /\ InQuote[b] <= ForQuote[b]
                   /\ ForQuote[b] = 0 => InQuote[b] = 0
  <2> HIDE DEF S, ForQuote
  <2>1. \A b \in S : ForQuote[b] \div Price[b] \in Nat
                     /\ (ForQuote[b] \div Price[b]) * Price[b] <= ForQuote[b]
    BY <1>1, <1>3, Quotient
  <2>2. \A m, n \in Nat : m * n \in Nat
    OBVIOUS
  <2>3. \A b \in S : InQuote[b] \in Nat /\ InQuote[b] <= ForQuote[b]
    BY <1>1, <2>1, <2>2
  <2> QED BY <1>3, <2>3
<1>7. \A b \in S : /\ InBase[b] \in Nat /\ InBase[b] * Price[active] <= ForBase[b]
                   /\ ForBase[b] = 0 => InBase[b] = 0
  <2> HIDE DEF S, ForBase
  <2>1. \A b \in S : ForBase[b] \div Price[active] \in Nat
                     /\ (ForBase[b] \div Price[active]) * Price[active] <= ForBase[b]
    BY <1>1, <1>4, Quotient DEF S
  <2>2. \A n \in Nat \ {0} : 0 \div n = 0
    OBVIOUS
  <2> QED BY <1>1, <2>1, <2>2 DEF S
<1> HIDE DEF bins, ForQuote, ForBase, quotes, bases, S
<1>8. bins \in [S -> Bin] /\ Split(bins, active)
  <2> HIDE DEF InQuote, InBase
  <2>1. \A b \in S : bins[b].quote = InQuote[b] /\ bins[b].base = InBase[b]
    BY <1>5
  <2>2. bins \in [S -> Bin]
    BY <1>5, <1>6, <1>7 DEF Bin
  <2>3. \A b \in S : (b > active => InQuote[b] = 0) /\ (b < active => InBase[b] = 0)
    BY <1>2, <1>3, <1>4, <1>6, <1>7
  <2> QED BY <2>1, <2>2, <2>3 DEF Split
<1>9. Quote(bins) = SumFunctionOnSet(InQuote, S) /\ Base(bins) = SumFunctionOnSet(InBase, S)
  <2>1. [b \in DOMAIN bins |-> bins[b].quote] = InQuote /\ DOMAIN InQuote = S
    BY <1>5
  <2>2. [b \in DOMAIN bins |-> bins[b].base] = InBase /\ DOMAIN InBase = S
    BY <1>5
  <2> HIDE DEF InQuote, InBase
  <2> QED BY <2>1, <2>2 DEF Quote, Base, SumFunction
<1>10. Quote(bins) <= budget.quote
  <2> HIDE DEF InQuote
  <2>1. \A b \in S : InQuote[b] \in Int /\ ForQuote[b] \in Int /\ InQuote[b] <= ForQuote[b]
    BY <1>3, <1>6
  <2>2. SumFunctionOnSet(InQuote, S) <= SumFunctionOnSet(ForQuote, S)
    BY <1>1, <2>1, SumIsMonotone
  <2>3. SumFunctionOnSet(InQuote, S) \in Int /\ SumFunctionOnSet(ForQuote, S) \in Int
    BY <1>1, <2>1, SumIsInt
  <2> QED BY <1>3, <1>9, <2>2, <2>3
<1>11. Base(bins) * Price[active] <= budget.base
  <2> DEFINE worth == [b \in S |-> Price[active] * InBase[b]]
             zero == [b \in S |-> 0]
  <2>1. Price[active] \in Nat \ {0}
    BY <1>1 DEF S
  <2>2. \A b \in S : /\ worth[b] \in Int /\ ForBase[b] \in Int /\ worth[b] <= ForBase[b]
                    /\ InBase[b] \in Int /\ zero[b] \in Int
                    /\ worth[b] = Price[active] * InBase[b] + zero[b]
    BY <1>4, <1>7, <2>1
  <2>3. SumFunctionOnSet(zero, S) = 0
    BY <1>1, SumOfZeros
  <2> HIDE DEF InBase, worth, zero
  <2>4. SumFunctionOnSet(worth, S) <= SumFunctionOnSet(ForBase, S)
    BY <1>1, <2>2, SumIsMonotone
  <2>5. SumFunctionOnSet(worth, S) = Price[active] * SumFunctionOnSet(InBase, S) + 0
    BY <1>1, <2>1, <2>2, <2>3, SumIsLinear
  <2>6. SumFunctionOnSet(InBase, S) \in Int /\ SumFunctionOnSet(ForBase, S) \in Int
    BY <1>1, <2>2, SumIsInt
  <2> QED BY <1>4, <1>9, <2>1, <2>4, <2>5, <2>6
<1>12. Quote(bins) \in Nat /\ Base(bins) \in Nat
  <2> HIDE DEF InQuote, InBase
  <2>1. \A b \in S : InQuote[b] \in Nat /\ InBase[b] \in Nat
    BY <1>6, <1>7
  <2> QED BY <1>1, <1>9, <2>1, SumOfNats
<1> QED BY <1>8, <1>10, <1>11, <1>12 DEF bins, S

Fields == {"status", "lower", "upper", "pending", "fees", "openedAt", "oorSince",
           "bins", "base", "quote", "reserve", "costs"}

(* The bins of a position are its range, and its totals are theirs.        *)
Stocked(v, p) ==
  /\ Laid(v, p.lower, p.upper)
  /\ p.bins \in [p.lower..p.upper -> Bin]
  /\ p.base = Base(p.bins) /\ p.quote = Quote(p.bins)

(* What moving the inventory leaves alone                                  *)
SameTerms(p, q) ==
  /\ DOMAIN q = Fields
  /\ q.status = p.status /\ q.lower = p.lower /\ q.upper = p.upper
  /\ q.pending = p.pending /\ q.fees = p.fees /\ q.costs = p.costs
  /\ q.openedAt = p.openedAt

LEMMA Budgeted ==
  ASSUME NEW value \in Nat, NEW policy \in Policy
  PROVE  LET budget == Budget(value, policy)
         IN  budget.base \in Nat /\ budget.quote \in Nat /\ budget.base + budget.quote <= value
<1>1. policy.base \in 0..4 /\ policy.quote \in 0..4 /\ policy.base + policy.quote <= 4
  BY DEF Policy
<1>2. ASSUME NEW b \in 0..4, NEW q \in 0..4, b + q <= 4
      PROVE  /\ (value * b) \div 4 \in Nat /\ (value * q) \div 4 \in Nat
             /\ (value * b) \div 4 + (value * q) \div 4 <= value
  <2>1. b = 0 \/ b = 1 \/ b = 2 \/ b = 3 \/ b = 4
    OBVIOUS
  <2>2. q = 0 \/ q = 1 \/ q = 2 \/ q = 3 \/ q = 4
    OBVIOUS
  <2> QED BY <1>2, <2>1, <2>2
<1> QED BY <1>1, <1>2 DEF Budget

LEMMA AllocateEffect ==
  ASSUME ReplayAssumption, NEW v \in Variants,
         NEW p, DOMAIN p = Fields, Laid(v, p.lower, p.upper),
         NEW active \in p.lower..p.upper, NEW value \in Nat,
         NEW q, q = Allocate(p, active, value, v.shape, v.policy)
  PROVE  /\ SameTerms(p, q) /\ Stocked(v, q) /\ Split(q.bins, active)
         /\ {q.base, q.quote, q.reserve} \subseteq Nat
         /\ Inventory(q, active) = value
<1> DEFINE budget == Budget(value, v.policy)
           bins == Distribute(p.lower, p.upper, active, budget, v.shape)
           rest == value - Base(bins) * Price[active] - Quote(bins)
<1>1. budget.base \in Nat /\ budget.quote \in Nat /\ budget.base + budget.quote <= value
  <2>1. v.policy \in Policy
    BY DEF ReplayAssumption, Variant
  <2> QED BY <2>1, Budgeted
<1>2. Price[active] \in Nat \ {0}
  BY Prices DEF Laid
<1>3. /\ bins \in [p.lower..p.upper -> Bin] /\ Split(bins, active)
      /\ Base(bins) \in Nat /\ Quote(bins) \in Nat
      /\ Base(bins) * Price[active] <= budget.base
      /\ Quote(bins) <= budget.quote
  <2> HIDE DEF budget
  <2> QED BY <1>1, Distributed
<1>4. rest \in Nat
  <2> HIDE DEF budget, bins
  <2>1. Base(bins) * Price[active] \in Nat
    BY <1>2, <1>3
  <2> QED BY <1>1, <1>3, <2>1
<1>5. q = [[p EXCEPT !.bins = bins, !.base = Base(bins), !.quote = Quote(bins)]
             EXCEPT !.reserve = Positive(rest)]
  BY DEF Allocate, Deploy, Placed, Undeployed, Fields
<1>6. Positive(rest) = rest
  <2> HIDE DEF rest
  <2> QED BY <1>4, PositivePart
<1> HIDE DEF bins, rest
<1>7. /\ SameTerms(p, q) /\ q.bins = bins /\ q.base = Base(bins) /\ q.quote = Quote(bins)
      /\ q.reserve = rest
  BY <1>5, <1>6 DEF SameTerms, Fields
<1>8. Inventory(q, active) = value
  <2>1. Base(bins) * Price[active] \in Nat
    BY <1>2, <1>3
  <2> QED BY <1>3, <1>7, <2>1 DEF Inventory, rest
<1>9. Stocked(v, q)
  BY <1>3, <1>7 DEF Stocked, SameTerms
<1> QED BY <1>3, <1>4, <1>7, <1>8, <1>9

-----------------------------------------------------------------------------
(* The life of a position *)

(* Between two rows *)
Sound(v, p) ==
  /\ DOMAIN p = Fields
  /\ p.status \in {"NONE", "ACTIVE", "EXITED"}
  /\ {p.pending, p.fees, p.costs, p.openedAt, p.base, p.quote, p.reserve} \subseteq Nat
  /\ p.status = "ACTIVE" => Stocked(v, p)

LEMMA Ranges ==
  ASSUME ReplayAssumption, NEW v \in Variants, NEW row \in Rows,
         NEW half \in {HalfWidth, Half(v.width)}
  PROVE  /\ half \in Nat /\ row.bin \in Int
         /\ Laid(v, row.bin - half, row.bin + half)
<1>1. HalfWidth \in Nat
  BY StrategyAssumption
<1>2. v.width \in Nat
  BY DEF ReplayAssumption, Variant
<1>3. \A n \in Nat : n \div 2 \in Nat /\ 2 * (n \div 2) <= n
  OBVIOUS
<1>4. Half(v.width) \in Nat /\ (Half(v.width) = HalfWidth \/ 2 * Half(v.width) <= v.width)
  BY <1>1, <1>2, <1>3 DEF Half
<1>5. row.bin \in Int /\ {row.bin - half, row.bin + half} \subseteq DOMAIN Price
  <2>1. row.bin \in DOMAIN Price
    BY DEF ReplayAssumption, Row
  <2>2. half \in {HalfWidth} \cup {Half(w.width) : w \in Variants}
    OBVIOUS
  <2> QED BY <2>1, <2>2, Prices DEF ReplayAssumption
<1>6. PICK reach \in DOMAIN Weight[v.shape] :
         /\ reach \in Nat /\ reach >= 2 * HalfWidth /\ reach >= v.width
         /\ Weight[v.shape] \in [0..reach -> Nat]
  BY DEF ReplayAssumption
<1>7. reach \in Int /\ \A d \in 0..reach : Weight[v.shape][d] \in Nat
  BY <1>6
<1>8. half \in Nat /\ 2 * half <= reach
  BY <1>1, <1>2, <1>4, <1>6, <1>7
<1>9. (row.bin + half) - (row.bin - half) = 2 * half /\ row.bin - half <= row.bin + half
  BY <1>5, <1>8
<1> QED BY <1>5, <1>7, <1>8, <1>9 DEF Laid

LEMMA OpenEffect ==
  ASSUME ReplayAssumption, NEW v \in Variants, NEW row \in Rows, NEW now \in Nat,
         NEW p, NEW q, q = Opened(v, p, row, now), p.status = "NONE"
  PROVE  /\ Sound(v, q) /\ q.status = "ACTIVE" /\ q.openedAt = now
         /\ q.pending = 0 /\ q.fees = 0 /\ q.costs = v.entryCost
         /\ Inventory(q, row.bin) = Positive(Funds - v.entryCost)
         /\ Split(q.bins, row.bin)
<1> DEFINE half == Half(v.width)
           blank == [Unfunded EXCEPT !.status = "ACTIVE", !.openedAt = now,
                                     !.lower = row.bin - half, !.upper = row.bin + half]
           funds == Positive(Funds - v.entryCost)
           placed == Allocate(blank, row.bin, funds, v.shape, v.policy)
<1>1. v.entryCost \in Nat /\ Funds \in Nat
  BY DEF ReplayAssumption, Variant
<1>2. funds \in Nat
  BY <1>1, PositivePart
<1>3. half \in Nat /\ row.bin \in Int /\ Laid(v, row.bin - half, row.bin + half)
  BY Ranges
<1>4. /\ DOMAIN blank = Fields /\ blank.status = "ACTIVE" /\ blank.openedAt = now
      /\ blank.lower = row.bin - half /\ blank.upper = row.bin + half
      /\ blank.pending = 0 /\ blank.fees = 0 /\ blank.costs = 0
  BY DEF Unfunded, Fields
<1>5. row.bin \in blank.lower..blank.upper
  <2> HIDE DEF blank, half
  <2> QED BY <1>3, <1>4
<1>6. q = [placed EXCEPT !.costs = placed.costs + v.entryCost]
  BY DEF Opened, Charge, OpenFunded
<1> HIDE DEF blank, half, funds
<1>7. /\ SameTerms(blank, placed) /\ Stocked(v, placed) /\ Split(placed.bins, row.bin)
      /\ {placed.base, placed.quote, placed.reserve} \subseteq Nat
      /\ Inventory(placed, row.bin) = funds
  <2> HIDE DEF placed
  <2>1. placed = Allocate(blank, row.bin, funds, v.shape, v.policy)
    BY DEF placed
  <2>2. Laid(v, blank.lower, blank.upper)
    BY <1>3, <1>4
  <2> QED BY <1>2, <1>4, <1>5, <2>1, <2>2, AllocateEffect
<1> HIDE DEF placed
<1>8. /\ DOMAIN q = Fields /\ q.status = "ACTIVE" /\ q.openedAt = now /\ q.pending = 0
      /\ q.fees = 0 /\ q.costs = v.entryCost
      /\ q.lower = placed.lower /\ q.upper = placed.upper /\ q.bins = placed.bins
      /\ q.base = placed.base /\ q.quote = placed.quote /\ q.reserve = placed.reserve
  BY <1>1, <1>4, <1>6, <1>7 DEF SameTerms, Fields
<1>9. Inventory(q, row.bin) = funds
  BY <1>7, <1>8 DEF Inventory
<1>10. Sound(v, q)
  BY <1>1, <1>7, <1>8 DEF Sound, Stocked
<1> QED BY <1>7, <1>8, <1>9, <1>10 DEF funds

LEMMA Totals ==
  ASSUME NEW S, IsFiniteSet(S), NEW bins \in [S -> Bin]
  PROVE  /\ Base(bins) \in Nat /\ Quote(bins) \in Nat
         /\ \A b \in S : bins[b].base <= Base(bins) /\ bins[b].quote <= Quote(bins)
<1> DEFINE base == [b \in DOMAIN bins |-> bins[b].base]
           quote == [b \in DOMAIN bins |-> bins[b].quote]
<1>1. /\ DOMAIN base = S /\ DOMAIN quote = S
      /\ \A b \in S : /\ base[b] = bins[b].base /\ quote[b] = bins[b].quote
                      /\ base[b] \in Nat /\ quote[b] \in Nat
  BY DEF Bin
<1>2. Base(bins) = SumFunctionOnSet(base, S) /\ Quote(bins) = SumFunctionOnSet(quote, S)
  BY <1>1 DEF Base, Quote, SumFunction
<1> HIDE DEF base, quote
<1>3. /\ SumFunctionOnSet(base, S) \in Nat
      /\ \A b \in S : base[b] <= SumFunctionOnSet(base, S)
  BY <1>1, SumOfNats
<1>4. /\ SumFunctionOnSet(quote, S) \in Nat
      /\ \A b \in S : quote[b] <= SumFunctionOnSet(quote, S)
  BY <1>1, SumOfNats
<1> QED BY <1>1, <1>2, <1>3, <1>4

LEMMA NoTotals ==
  ASSUME NEW S, IsFiniteSet(S), NEW bins \in [S -> Bin],
         \A b \in S : bins[b].base = 0 /\ bins[b].quote = 0
  PROVE  Base(bins) = 0 /\ Quote(bins) = 0
<1> DEFINE base == [b \in DOMAIN bins |-> bins[b].base]
           quote == [b \in DOMAIN bins |-> bins[b].quote]
<1>1. /\ DOMAIN base = S /\ DOMAIN quote = S
      /\ \A b \in S : base[b] = 0 /\ quote[b] = 0
  OBVIOUS
<1>2. Base(bins) = SumFunctionOnSet(base, S) /\ Quote(bins) = SumFunctionOnSet(quote, S)
  BY <1>1 DEF Base, Quote, SumFunction
<1> HIDE DEF base, quote
<1> QED BY <1>1, <1>2, SumOfZeros

(* A bin after the price went to active: converted at its own price.       *)
LEMMA Converted ==
  ASSUME ReplayAssumption, NEW S, S \subseteq DOMAIN Price, NEW bins \in [S -> Bin],
         NEW active \in DOMAIN Price
  PROVE  LET converted == Convert(bins, active)
         IN  /\ converted \in [S -> Bin] /\ Split(converted, active)
             /\ \A b \in S :
                  /\ converted[b].base * Price[b] + converted[b].quote
                       <= bins[b].base * Price[b] + bins[b].quote
                  /\ bins[b].base = 0 /\ bins[b].quote = 0
                       => converted[b].base = 0 /\ converted[b].quote = 0
<1> DEFINE converted == Convert(bins, active)
           Own(b) == CASE b < active -> [base |-> 0,
                                         quote |-> bins[b].quote + bins[b].base * Price[b]]
                       [] b > active -> [base |-> bins[b].base + bins[b].quote \div Price[b],
                                         quote |-> 0]
                       [] b = active -> bins[b]
<1>1. active \in Int /\ \A b \in S : b \in Int /\ Price[b] \in Nat \ {0}
  BY Prices
<1>2. \A b \in S : bins[b].base \in Nat /\ bins[b].quote \in Nat
  BY DEF Bin
<1>3. converted = [b \in S |-> Own(b)]
  BY DEF Convert
<1>4. ASSUME NEW b \in S
      PROVE  /\ b < active => Own(b) = [base |-> 0,
                                        quote |-> bins[b].quote + bins[b].base * Price[b]]
             /\ b > active => Own(b) = [base |-> bins[b].base + bins[b].quote \div Price[b],
                                        quote |-> 0]
             /\ b = active => Own(b) = bins[b]
  BY <1>1
<1>5. ASSUME NEW b \in S
      PROVE  /\ converted[b] \in Bin
             /\ b < active => converted[b].base = 0
             /\ b > active => converted[b].quote = 0
             /\ converted[b].base * Price[b] + converted[b].quote
                  <= bins[b].base * Price[b] + bins[b].quote
             /\ bins[b].base = 0 /\ bins[b].quote = 0
                  => converted[b].base = 0 /\ converted[b].quote = 0
  <2>1. /\ b \in Int /\ active \in Int /\ Price[b] \in Nat \ {0}
        /\ bins[b].base \in Nat /\ bins[b].quote \in Nat
    BY <1>1, <1>2
  <2> HIDE DEF converted, Own
  <2> converted[b] = Own(b)
    BY <1>3
  <2>2. CASE b < active
    <3>1. converted[b] = [base |-> 0, quote |-> bins[b].quote + bins[b].base * Price[b]]
      BY <1>4, <2>1, <2>2
    <3>2. bins[b].base * Price[b] \in Nat
      BY <2>1
    <3>3. bins[b].base = 0 => bins[b].base * Price[b] = 0
      BY <2>1
    <3> QED BY <2>1, <2>2, <3>1, <3>2, <3>3 DEF Bin
  <2>3. CASE b > active
    <3> DEFINE bought == bins[b].quote \div Price[b]
    <3>1. bought \in Nat /\ bought * Price[b] <= bins[b].quote
      BY <2>1, Quotient
    <3>2. bins[b].quote = 0 => bought = 0
      BY <2>1
    <3>3. converted[b] = [base |-> bins[b].base + bought, quote |-> 0]
      BY <1>4, <2>1, <2>3
    <3> HIDE DEF bought
    <3>4. (bins[b].base + bought) * Price[b] = bins[b].base * Price[b] + bought * Price[b]
      BY <2>1, <3>1
    <3>5. bins[b].base * Price[b] \in Nat /\ bought * Price[b] \in Nat
      BY <2>1, <3>1
    <3> QED BY <2>1, <2>3, <3>1, <3>2, <3>3, <3>4, <3>5 DEF Bin
  <2>4. CASE b = active
    <3>1. converted[b] = bins[b]
      BY <1>4, <2>1, <2>4
    <3>2. bins[b].base * Price[b] \in Nat
      BY <2>1
    <3> QED BY <2>1, <2>4, <3>1, <3>2
  <2> QED BY <2>1, <2>2, <2>3, <2>4
<1> HIDE DEF converted, Own
<1>6. converted \in [S -> Bin]
  BY <1>3, <1>5
<1>7. converted \in [S -> Bin] /\ Split(converted, active)
  BY <1>5, <1>6 DEF Split
<1> QED BY <1>5, <1>7 DEF converted

LEMMA MarkEffect ==
  ASSUME ReplayAssumption, NEW v \in Variants, NEW p, Sound(v, p), p.status # "NONE",
         NEW now, NEW active \in DOMAIN Price, NEW q, q = MarkFunded(p, now, active)
  PROVE  /\ Sound(v, q) /\ SameTerms(p, q) /\ q.reserve = p.reserve
         /\ p.base = 0 /\ p.quote = 0 => q.base = 0 /\ q.quote = 0
         /\ q.status = "EXITED" => q.base = p.base /\ q.quote = p.quote
         /\ q.status = "ACTIVE" => q.bins = Convert(p.bins, active)
<1>1. CASE p.status = "EXITED"
  <2>1. q = p
    BY <1>1 DEF MarkFunded
  <2> QED BY <1>1, <2>1 DEF Sound, SameTerms
<1>2. CASE p.status = "ACTIVE"
  <2> DEFINE S == p.lower..p.upper
             bins == Convert(p.bins, active)
  <2>1. S \subseteq DOMAIN Price /\ IsFiniteSet(S) /\ p.bins \in [S -> Bin]
        /\ p.base = Base(p.bins) /\ p.quote = Quote(p.bins) /\ p.base \in Nat /\ p.quote \in Nat
    BY <1>2, Prices, RangeIsFinite DEF Sound, Stocked, Laid
  <2> HIDE DEF S
  <2>2. /\ bins \in [S -> Bin]
        /\ \A b \in S : p.bins[b].base = 0 /\ p.bins[b].quote = 0
                         => bins[b].base = 0 /\ bins[b].quote = 0
    BY <2>1, Converted
  <2>3. q = [[p EXCEPT !.oorSince = OorSince(p, now, active)]
               EXCEPT !.bins = bins, !.base = Base(bins), !.quote = Quote(bins)]
    BY <1>2 DEF MarkFunded, MarkPosition, Placed, Sound, Fields
  <2> HIDE DEF bins
  <2>4. Base(bins) \in Nat /\ Quote(bins) \in Nat
    BY <2>1, <2>2, Totals
  <2>5. p.base = 0 /\ p.quote = 0 => Base(bins) = 0 /\ Quote(bins) = 0
    <3> SUFFICES ASSUME p.base = 0, p.quote = 0 PROVE Base(bins) = 0 /\ Quote(bins) = 0
      OBVIOUS
    <3>1. \A b \in S : p.bins[b].base <= 0 /\ p.bins[b].quote <= 0
      BY <2>1, Totals
    <3>2. \A b \in S : p.bins[b].base \in Nat /\ p.bins[b].quote \in Nat
      BY <2>1 DEF Bin
    <3>3. \A b \in S : p.bins[b].base = 0 /\ p.bins[b].quote = 0
      BY <3>1, <3>2
    <3> QED BY <2>1, <2>2, <3>3, NoTotals
  <2>6. /\ SameTerms(p, q) /\ q.reserve = p.reserve /\ q.bins = bins
        /\ q.base = Base(bins) /\ q.quote = Quote(bins)
    BY <2>3 DEF SameTerms, Sound, Fields
  <2>7. Sound(v, q)
    BY <1>2, <2>2, <2>4, <2>6 DEF Sound, Stocked, SameTerms, S
  <2> QED BY <1>2, <2>5, <2>6, <2>7 DEF SameTerms, bins
<1> QED BY <1>1, <1>2 DEF Sound

LEMMA AccrueEffect ==
  ASSUME ReplayAssumption, NEW v \in Variants, NEW p, Sound(v, p), p.status # "NONE",
         NEW active \in DOMAIN Price, NEW liq \in Nat, NEW fees \in Nat,
         NEW q, q = AccrueFunded(p, active, liq, fees)
  PROVE  /\ Sound(v, q)
         /\ DOMAIN q = Fields /\ q.status = p.status /\ q.openedAt = p.openedAt
         /\ q.lower = p.lower /\ q.upper = p.upper /\ q.bins = p.bins
         /\ q.base = p.base /\ q.quote = p.quote /\ q.reserve = p.reserve /\ q.costs = p.costs
         /\ p.fees <= q.fees /\ q.pending + p.fees = p.pending + q.fees
         /\ p.base = 0 /\ p.quote = 0 => q.fees = p.fees
<1> DEFINE ours == OurLiquidity(p, active)
           tick == FeesTick(p, active, liq, fees)
<1>1. ours \in Nat /\ (p.base = 0 /\ p.quote = 0 => ours = 0)
  <2>1. CASE p.status = "EXITED" \/ active \notin DOMAIN p.bins
    BY <2>1 DEF OurLiquidity
  <2>2. CASE ~(p.status = "EXITED" \/ active \notin DOMAIN p.bins)
    <3>1. Stocked(v, p)
      BY <2>2 DEF Sound
    <3> DEFINE S == p.lower..p.upper
    <3>2. IsFiniteSet(S) /\ p.bins \in [S -> Bin] /\ active \in S
      BY <2>2, <3>1, Prices, RangeIsFinite DEF Stocked, Laid
    <3> HIDE DEF S
    <3>3. p.bins[active].base <= p.base /\ p.bins[active].quote <= p.quote
      BY <3>1, <3>2, Totals DEF Stocked
    <3>4. p.bins[active].base \in Nat /\ p.bins[active].quote \in Nat /\ Price[active] \in Nat
      BY <3>2, Prices DEF Bin
    <3>5. ours = p.bins[active].base * Price[active] + p.bins[active].quote
      BY <2>2 DEF OurLiquidity
    <3> HIDE DEF ours
    <3>6. p.bins[active].base * Price[active] \in Nat
          /\ (p.bins[active].base = 0 => p.bins[active].base * Price[active] = 0)
      BY <3>4
    <3>7. p.base = 0 => p.bins[active].base = 0
      BY <3>3, <3>4
    <3>8. p.quote = 0 => p.bins[active].quote = 0
      BY <3>3, <3>4
    <3> QED BY <3>4, <3>5, <3>6, <3>7, <3>8
  <2> QED BY <2>1, <2>2
<1>2. tick \in Nat /\ (p.base = 0 /\ p.quote = 0 => tick = 0)
  <2>1. tick = IF ours = 0 THEN 0 ELSE (ours * fees) \div (liq + ours)
    BY DEF FeesTick
  <2> HIDE DEF ours, tick
  <2>2. CASE ours = 0
    BY <1>1, <2>1, <2>2
  <2>3. CASE ours # 0
    <3>1. ours * fees \in Nat /\ liq + ours \in Nat \ {0}
      BY <1>1, <2>3
    <3>2. (ours * fees) \div (liq + ours) \in Nat
      BY <3>1, Quotient
    <3> QED BY <1>1, <2>1, <2>3, <3>2
  <2> QED BY <2>2, <2>3
<1>3. q = IF p.status = "EXITED" \/ ~InRange(p, active) THEN p
          ELSE [p EXCEPT !.pending = p.pending + tick, !.fees = p.fees + tick]
  BY DEF AccrueFunded, AccrueFees
<1> HIDE DEF tick
<1>4. CASE p.status = "EXITED" \/ ~InRange(p, active)
  <2>1. q = p
    BY <1>3, <1>4
  <2> QED BY <2>1 DEF Sound
<1>5. CASE ~(p.status = "EXITED" \/ ~InRange(p, active))
  <2>1. q = [p EXCEPT !.pending = p.pending + tick, !.fees = p.fees + tick]
    BY <1>3, <1>5
  <2>2. /\ DOMAIN q = Fields /\ q.status = p.status /\ q.openedAt = p.openedAt
        /\ q.lower = p.lower /\ q.upper = p.upper /\ q.bins = p.bins
        /\ q.base = p.base /\ q.quote = p.quote /\ q.reserve = p.reserve /\ q.costs = p.costs
        /\ q.pending = p.pending + tick /\ q.fees = p.fees + tick
    BY <2>1 DEF Sound, Fields
  <2>3. Sound(v, q)
    <3>1. q.pending \in Nat /\ q.fees \in Nat
      BY <1>2, <2>2 DEF Sound
    <3>2. Stocked(v, p) => Stocked(v, q)
      BY <2>2 DEF Stocked
    <3>3. {q.costs, q.openedAt, q.base, q.quote, q.reserve} \subseteq Nat
          /\ q.status \in {"NONE", "ACTIVE", "EXITED"} /\ (q.status = "ACTIVE" => Stocked(v, p))
      BY <2>2 DEF Sound
    <3> QED BY <2>2, <3>1, <3>2, <3>3 DEF Sound
  <2>4. p.fees <= q.fees /\ q.pending + p.fees = p.pending + q.fees
    BY <1>2, <2>2 DEF Sound
  <2>5. tick = 0 => q.fees = p.fees
    BY <2>2 DEF Sound
  <2> QED BY <1>2, <2>2, <2>3, <2>4, <2>5
<1> QED BY <1>4, <1>5

-----------------------------------------------------------------------------
(* Decisions *)

LEMMA CostType ==
  ASSUME ReplayAssumption, NEW row \in Rows, NEW kind \in {"REBALANCE", "COMPOUND", "EXIT"}
  PROVE  EstimateCost(kind, row.costs) \in Nat
<1> DEFINE inputs == row.costs
<1>1. /\ inputs.notional \in Nat /\ inputs.out \in Int /\ inputs.impact \in Int
      /\ inputs.fee \in Nat /\ inputs.rent \in Nat
  BY DEF ReplayAssumption, Row, CostInputs
<1>2. Slippage \in Nat /\ TxCount[kind] \in Nat
  BY DEF ReplayAssumption
<1> HIDE DEF inputs
<1>3. SwapCost(inputs) \in Nat
  <2>1. inputs.notional - inputs.out \in Int
    BY <1>1
  <2>2. (inputs.notional * inputs.impact) \div 100 \in Int
    <3>1. inputs.notional * inputs.impact \in Int
      BY <1>1
    <3>2. \A n \in Int : n \div 100 \in Int
      OBVIOUS
    <3> QED BY <3>1, <3>2
  <2>3. (inputs.notional * Slippage) \div 100 \in Nat
    <3>1. inputs.notional * Slippage \in Nat
      BY <1>1, <1>2
    <3> QED BY <3>1, Quotient
  <2>4. \A x \in Int : Positive(x) \in Nat
    BY PositivePart
  <2> QED BY <2>1, <2>2, <2>3, <2>4 DEF SwapCost
<1>4. TxCount[kind] * inputs.fee \in Nat
  BY <1>1, <1>2
<1> QED BY <1>1, <1>3, <1>4 DEF EstimateCost, inputs

LEMMA InventoryType ==
  ASSUME ReplayAssumption, NEW v, NEW p, Sound(v, p), NEW bin \in DOMAIN Price
  PROVE  /\ Inventory(p, bin) \in Nat /\ Nav(p, bin) \in Nat
         /\ Nav(p, bin) = Inventory(p, bin) + p.pending
         /\ Inventory(p, bin) = 0 => p.base = 0 /\ p.quote = 0 /\ p.reserve = 0
         /\ p.base = 0 /\ p.quote = 0 => Inventory(p, bin) = p.reserve
<1>1. Price[bin] \in Nat \ {0}
  BY Prices
<1>2. p.base \in Nat /\ p.quote \in Nat /\ p.reserve \in Nat /\ p.pending \in Nat
  BY DEF Sound
<1> DEFINE worth == p.base * Price[bin]
<1>3. worth \in Nat
  BY <1>1, <1>2
<1>4. worth = 0 <=> p.base = 0
  BY <1>1, <1>2
<1>5. /\ Inventory(p, bin) = worth + p.quote + p.reserve
      /\ Nav(p, bin) = Inventory(p, bin) + p.pending
  BY DEF Inventory, Nav
<1> HIDE DEF worth
<1>6. Inventory(p, bin) \in Nat /\ Nav(p, bin) \in Nat
  BY <1>2, <1>3, <1>5
<1>7. Inventory(p, bin) = 0 => worth = 0 /\ p.quote = 0 /\ p.reserve = 0
  BY <1>2, <1>3, <1>5
<1>8. worth = 0 /\ p.quote = 0 => Inventory(p, bin) = p.reserve
  BY <1>2, <1>3, <1>5
<1> QED BY <1>4, <1>5, <1>6, <1>7, <1>8

(* What applying a decision does: value is only lost to its cost.          *)
LEMMA DecisionEffect ==
  ASSUME ReplayAssumption, NEW v \in Variants, NEW p, Sound(v, p), NEW row \in Rows,
         NEW kind, kind \in {"COMPOUND", "REBALANCE", "EXIT", "EXPLICIT_EXIT"},
         p.status = "ACTIVE", kind = "COMPOUND" => InRange(p, row.bin),
         NEW q, q = ApplyDecision(v, p, kind, row)
  PROVE  /\ Sound(v, q) /\ q.openedAt = p.openedAt /\ q.fees = p.fees
         /\ q.status = IF kind \in {"EXIT", "EXPLICIT_EXIT"} THEN "EXITED" ELSE "ACTIVE"
         /\ \E cost \in Nat : /\ q.costs = p.costs + cost
                              /\ Nav(q, row.bin) = Positive(Nav(p, row.bin) - cost)
         /\ q.status = "ACTIVE" => Split(q.bins, row.bin)
<1>1. row.bin \in DOMAIN Price /\ row.bin \in Int /\ Price[row.bin] \in Nat \ {0}
  BY Prices DEF ReplayAssumption, Row
<1>2. ASSUME NEW cost \in Nat PROVE Remainder(p, row.bin, cost) \in Nat
  BY <1>1, <1>2, InventoryType, PositivePart DEF Remainder
<1>3. Stocked(v, p) /\ p.lower \in Int /\ p.upper \in Int
  BY Prices DEF Sound, Stocked, Laid
<1>4. ASSUME NEW r, DOMAIN r = Fields, Laid(v, r.lower, r.upper),
             row.bin \in r.lower..r.upper, NEW cost \in Nat,
             r.status = "ACTIVE", r.openedAt = p.openedAt, r.fees = p.fees, r.pending = 0,
             r.costs = p.costs + cost,
             q = Allocate(r, row.bin, Remainder(p, row.bin, cost), v.shape, v.policy),
             kind \notin {"EXIT", "EXPLICIT_EXIT"}
      PROVE  /\ Sound(v, q) /\ q.openedAt = p.openedAt /\ q.fees = p.fees
             /\ q.status = "ACTIVE" /\ Split(q.bins, row.bin)
             /\ q.costs = p.costs + cost
             /\ Nav(q, row.bin) = Positive(Nav(p, row.bin) - cost)
  <2>1. /\ SameTerms(r, q) /\ Stocked(v, q) /\ Split(q.bins, row.bin)
        /\ {q.base, q.quote, q.reserve} \subseteq Nat
        /\ Inventory(q, row.bin) = Remainder(p, row.bin, cost)
    BY <1>2, <1>4, AllocateEffect
  <2>2. Sound(v, q)
    BY <1>4, <2>1 DEF Sound, SameTerms
  <2>3. Nav(q, row.bin) = Remainder(p, row.bin, cost)
    BY <1>1, <1>2, <1>4, <2>1, <2>2, InventoryType DEF SameTerms
  <2> QED BY <1>4, <2>1, <2>2, <2>3 DEF SameTerms, Remainder
<1>5. CASE kind = "COMPOUND"
  <2> DEFINE cost == EstimateCost("COMPOUND", row.costs)
             r == [[p EXCEPT !.pending = 0] EXCEPT !.costs = p.costs + cost]
  <2>1. cost \in Nat
    BY CostType
  <2>2. q = Allocate(r, row.bin, Remainder(p, row.bin, cost), v.shape, v.policy)
    BY <1>5 DEF ApplyDecision, CompoundFunded, ApplyCompound, Charge, Sound, Fields
  <2> HIDE DEF cost
  <2>3. /\ DOMAIN r = Fields /\ r.lower = p.lower /\ r.upper = p.upper /\ r.pending = 0
        /\ r.status = p.status /\ r.openedAt = p.openedAt /\ r.fees = p.fees
        /\ r.costs = p.costs + cost
    BY DEF Sound, Fields
  <2>4. row.bin \in r.lower..r.upper
    BY <1>1, <1>3, <1>5, <2>3 DEF InRange
  <2>5. Laid(v, r.lower, r.upper)
    BY <1>3, <2>3 DEF Stocked
  <2> HIDE DEF r
  <2> QED BY <1>4, <1>5, <2>1, <2>2, <2>3, <2>4, <2>5
<1>6. CASE kind = "REBALANCE"
  <2> DEFINE cost == EstimateCost("REBALANCE", row.costs)
             r == [[p EXCEPT !.lower = row.bin - HalfWidth, !.upper = row.bin + HalfWidth,
                             !.pending = 0, !.oorSince = Never] EXCEPT !.costs = p.costs + cost]
  <2>1. cost \in Nat
    BY CostType
  <2>2. q = Allocate(r, row.bin, Remainder(p, row.bin, cost), v.shape, v.policy)
    BY <1>6 DEF ApplyDecision, RebalanceFunded, ApplyRebalance, Charge, Sound, Fields
  <2> HIDE DEF cost
  <2>3. /\ DOMAIN r = Fields /\ r.lower = row.bin - HalfWidth /\ r.upper = row.bin + HalfWidth
        /\ r.pending = 0 /\ r.status = p.status /\ r.openedAt = p.openedAt
        /\ r.fees = p.fees /\ r.costs = p.costs + cost
    BY DEF Sound, Fields
  <2> HIDE DEF r
  <2>4. HalfWidth \in Nat /\ Laid(v, row.bin - HalfWidth, row.bin + HalfWidth)
    BY Ranges
  <2>5. row.bin \in r.lower..r.upper
    BY <1>1, <2>3, <2>4
  <2>6. Laid(v, r.lower, r.upper)
    BY <2>3, <2>4
  <2> QED BY <1>4, <1>6, <2>1, <2>2, <2>3, <2>5, <2>6
<1>7. ASSUME kind \in {"EXIT", "EXPLICIT_EXIT"}, NEW cost \in Nat, NEW target,
             q = ExitFunded(p, row.bin, cost, target)
      PROVE  /\ Sound(v, q) /\ q.openedAt = p.openedAt /\ q.fees = p.fees
             /\ q.status = "EXITED" /\ q.costs = p.costs + cost
             /\ Nav(q, row.bin) = Positive(Nav(p, row.bin) - cost)
  <2> DEFINE value == Remainder(p, row.bin, cost)
             base == IF target = "BALANCED" THEN (value \div 2) \div Price[row.bin] ELSE 0
             quote == value - base * Price[row.bin]
  <2>1. q = [[[p EXCEPT !.status = "EXITED", !.pending = 0, !.oorSince = Never]
                 EXCEPT !.costs = p.costs + cost]
                 EXCEPT !.bins = <<>>, !.base = base, !.quote = quote, !.reserve = 0]
    BY <1>7 DEF ExitFunded, Charge, ApplyExit, Sound, Fields
  <2>2. value \in Nat
    BY <1>2, <1>7
  <2> HIDE DEF value
  <2>3. base \in Nat /\ base * Price[row.bin] <= value /\ base * Price[row.bin] \in Nat
    <3>1. value \div 2 \in Nat /\ value \div 2 <= value
      BY <2>2
    <3>2. CASE target = "BALANCED"
      <4>1. base = (value \div 2) \div Price[row.bin]
        BY <3>2
      <4>2. base \in Nat /\ base * Price[row.bin] <= value \div 2
        <5> HIDE DEF base
        <5> QED BY <1>1, <3>1, <4>1, Quotient
      <4> HIDE DEF base
      <4>3. base * Price[row.bin] \in Nat
        BY <1>1, <4>2
      <4> QED BY <2>2, <3>1, <4>2, <4>3
    <3>3. CASE target # "BALANCED"
      BY <1>1, <2>2, <3>3
    <3> QED BY <3>2, <3>3
  <2> HIDE DEF base
  <2>4. quote \in Nat
    BY <2>2, <2>3
  <2> HIDE DEF quote
  <2>5. /\ DOMAIN q = Fields /\ q.status = "EXITED" /\ q.pending = 0 /\ q.openedAt = p.openedAt
        /\ q.fees = p.fees /\ q.costs = p.costs + cost
        /\ q.base = base /\ q.quote = quote /\ q.reserve = 0
    BY <2>1 DEF Sound, Fields
  <2>6. Sound(v, q)
    BY <1>7, <2>3, <2>4, <2>5 DEF Sound
  <2>7. Nav(q, row.bin) = value
    BY <2>2, <2>3, <2>5 DEF Nav, Inventory, quote
  <2> QED BY <2>5, <2>6, <2>7 DEF value, Remainder
<1>8. CASE kind = "EXIT"
  <2>1. EstimateCost(kind, row.costs) \in Nat
    BY <1>8, CostType
  <2>2. q = ExitFunded(p, row.bin, EstimateCost(kind, row.costs), "BALANCED")
    BY <1>8 DEF ApplyDecision
  <2> QED BY <1>7, <1>8, <2>1, <2>2
<1>9. CASE kind = "EXPLICIT_EXIT"
  <2>1. EstimateCost("EXIT", row.costs) \in Nat
    BY CostType
  <2>2. q = ExitFunded(p, row.bin, EstimateCost("EXIT", row.costs), v.target)
    BY <1>9 DEF ApplyDecision
  <2> QED BY <1>7, <1>9, <2>1, <2>2
<1> QED BY <1>5, <1>6, <1>8, <1>9

-----------------------------------------------------------------------------
(* What was allocated, held *)

(* start is what the latest allocation gave the bins: since then, each was *)
(* only converted at its own price.                                        *)
Held(p, bin, basket) ==
  /\ p.status = "ACTIVE" =>
       /\ Split(p.bins, bin)
       /\ \E start \in [p.lower..p.upper -> Bin] :
            /\ basket.base = Base(start) /\ basket.quote = Quote(start) + p.reserve
            /\ \A b \in p.lower..p.upper :
                 p.bins[b].base * Price[b] + p.bins[b].quote
                   <= start[b].base * Price[b] + start[b].quote
  /\ p.status = "EXITED" => basket.base = p.base /\ basket.quote = p.quote + p.reserve

(* At a lower price, what was dear is worth no more than what it cost.     *)
LEMMA Cheaper ==
  ASSUME NEW low \in Nat \ {0}, NEW high \in Nat \ {0}, low <= high,
         NEW x \in Nat, NEW s \in Nat, NEW t \in Nat, x * high <= s * high + t
  PROVE  x * low <= s * low + t
<1>1. CASE x <= s
  <2> DEFINE more == s - x
  <2>1. more \in Nat /\ s = x + more
    BY <1>1
  <2> HIDE DEF more
  <2>2. s * low = x * low + more * low /\ more * low \in Nat /\ x * low \in Nat
    BY <2>1
  <2> QED BY <2>2
<1>2. CASE x > s
  <2> DEFINE more == x - s
             gap == high - low
  <2>1. more \in Nat /\ x = s + more /\ gap \in Nat /\ high = low + gap
    BY <1>2
  <2> HIDE DEF more, gap
  <2>2. x * low = s * low + more * low /\ x * high = s * high + more * high
    BY <2>1
  <2>3. more * high = more * low + more * gap
    BY <2>1
  <2>4. /\ more * gap \in Nat /\ more * low \in Nat /\ s * low \in Nat /\ s * high \in Nat
        /\ more * high \in Nat
    BY <2>1
  <2>5. more * high <= t
    BY <2>2, <2>4
  <2>6. more * low <= t
    BY <2>3, <2>4, <2>5
  <2> QED BY <2>2, <2>4, <2>6
<1> QED BY <1>1, <1>2

LEMMA BinIsWorth ==
  ASSUME ReplayAssumption, NEW b \in DOMAIN Price, NEW active \in DOMAIN Price,
         NEW now \in Bin, NEW start \in Bin,
         b < active => now.base = 0, b > active => now.quote = 0,
         now.base * Price[b] + now.quote <= start.base * Price[b] + start.quote
  PROVE  Price[active] * now.base + now.quote <= Price[active] * start.base + start.quote
<1>1. b \in Int /\ active \in Int /\ Price[b] \in Nat \ {0} /\ Price[active] \in Nat \ {0}
  BY Prices
<1>2. now.base \in Nat /\ now.quote \in Nat /\ start.base \in Nat /\ start.quote \in Nat
  BY DEF Bin
<1>3. CASE b < active
  <2>1. Price[b] <= Price[active]
    BY <1>1, <1>3, Prices
  <2> DEFINE gap == Price[active] - Price[b]
  <2>2. gap \in Nat /\ Price[active] = Price[b] + gap
    BY <1>1, <2>1
  <2> HIDE DEF gap
  <2>3. start.base * Price[active] = start.base * Price[b] + start.base * gap
    BY <1>1, <1>2, <2>2
  <2>4. start.base * gap \in Nat /\ start.base * Price[b] \in Nat
    BY <1>1, <1>2, <2>2
  <2>5. now.base = 0 /\ now.base * Price[b] = 0 /\ Price[active] * now.base = 0
    BY <1>1, <1>3
  <2>6. Price[active] * start.base = start.base * Price[active]
    BY <1>1, <1>2
  <2> QED BY <1>2, <2>3, <2>4, <2>5, <2>6
<1>4. CASE b = active
  <2>1. /\ Price[active] * start.base = start.base * Price[b]
        /\ Price[active] * now.base = now.base * Price[b]
    BY <1>1, <1>2, <1>4
  <2> QED BY <2>1
<1>5. CASE b > active
  <2>1. Price[active] <= Price[b] /\ now.quote = 0
    BY <1>1, <1>5, Prices
  <2>2. now.base * Price[b] <= start.base * Price[b] + start.quote
    BY <1>1, <1>2, <2>1
  <2>3. now.base * Price[active] <= start.base * Price[active] + start.quote
    BY <1>1, <1>2, <2>1, <2>2, Cheaper
  <2>4. /\ Price[active] * start.base = start.base * Price[active]
        /\ Price[active] * now.base = now.base * Price[active]
        /\ Price[active] * now.base \in Nat
    BY <1>1, <1>2
  <2> QED BY <2>1, <2>3, <2>4
<1> QED BY <1>1, <1>3, <1>4, <1>5

(* The same of all the bins together.                                      *)
LEMMA BinsAreWorth ==
  ASSUME ReplayAssumption, NEW lower \in DOMAIN Price, NEW upper \in DOMAIN Price,
         NEW active \in DOMAIN Price,
         NEW bins \in [lower..upper -> Bin], NEW start \in [lower..upper -> Bin],
         Split(bins, active),
         \A b \in lower..upper : bins[b].base * Price[b] + bins[b].quote
                                   <= start[b].base * Price[b] + start[b].quote
  PROVE  Base(bins) * Price[active] + Quote(bins) <= Base(start) * Price[active] + Quote(start)
<1> DEFINE S == lower..upper
           base(x) == [b \in DOMAIN x |-> x[b].base]
           quote(x) == [b \in DOMAIN x |-> x[b].quote]
           worth(x) == [b \in S |-> Price[active] * x[b].base + x[b].quote]
<1>1. IsFiniteSet(S) /\ S \subseteq DOMAIN Price /\ Price[active] \in Nat \ {0}
  BY Prices, RangeIsFinite
<1>2. ASSUME NEW x \in [S -> Bin]
      PROVE  /\ Price[active] * Base(x) + Quote(x) = SumFunctionOnSet(worth(x), S)
             /\ Base(x) \in Nat /\ \A b \in S : worth(x)[b] \in Int
  <2>1. /\ DOMAIN base(x) = S /\ DOMAIN quote(x) = S /\ DOMAIN x = S
        /\ \A b \in S : /\ base(x)[b] = x[b].base /\ quote(x)[b] = x[b].quote
                        /\ base(x)[b] \in Int /\ quote(x)[b] \in Int
    BY DEF Bin
  <2>2. Base(x) = SumFunctionOnSet(base(x), S) /\ Quote(x) = SumFunctionOnSet(quote(x), S)
    BY <2>1 DEF Base, Quote, SumFunction
  <2>3. \A b \in S : worth(x)[b] = Price[active] * base(x)[b] + quote(x)[b]
    BY <2>1
  <2> HIDE DEF base, quote, worth, S
  <2>4. \A b \in S : worth(x)[b] \in Int
    BY <1>1, <2>1, <2>3
  <2>5. SumFunctionOnSet(worth(x), S)
          = Price[active] * SumFunctionOnSet(base(x), S) + SumFunctionOnSet(quote(x), S)
    BY <1>1, <2>1, <2>3, SumIsLinear
  <2> QED BY <1>1, <2>2, <2>4, <2>5, Totals
<1>3. \A b \in S : worth(bins)[b] <= worth(start)[b]
  <2> TAKE b \in S
  <2>1. bins[b] \in Bin /\ start[b] \in Bin /\ b \in DOMAIN Price
    BY <1>1
  <2>2. (b < active => bins[b].base = 0) /\ (b > active => bins[b].quote = 0)
    BY DEF Split
  <2>3. Price[active] * bins[b].base + bins[b].quote
          <= Price[active] * start[b].base + start[b].quote
    BY <2>1, <2>2, BinIsWorth
  <2> QED BY <2>3
<1>4. bins \in [S -> Bin] /\ start \in [S -> Bin]
  OBVIOUS
<1> HIDE DEF worth, S
<1>5. SumFunctionOnSet(worth(bins), S) <= SumFunctionOnSet(worth(start), S)
  BY <1>1, <1>2, <1>3, <1>4, SumIsMonotone
<1>6. Price[active] * Base(bins) + Quote(bins) <= Price[active] * Base(start) + Quote(start)
  BY <1>2, <1>4, <1>5
<1>7. /\ Price[active] * Base(bins) = Base(bins) * Price[active]
      /\ Price[active] * Base(start) = Base(start) * Price[active]
  BY <1>1, <1>2, <1>4
<1> QED BY <1>6, <1>7

LEMMA HeldIsMore ==
  ASSUME ReplayAssumption, NEW v, NEW p, Sound(v, p), p.status # "NONE",
         NEW bin \in DOMAIN Price, NEW basket, Held(p, bin, basket)
  PROVE  Inventory(p, bin) <= basket.base * Price[bin] + basket.quote
<1>1. Price[bin] \in Nat \ {0} /\ p.base \in Nat /\ p.quote \in Nat /\ p.reserve \in Nat
  BY Prices DEF Sound
<1>2. CASE p.status = "ACTIVE"
  <2>1. PICK start \in [p.lower..p.upper -> Bin] :
          /\ basket.base = Base(start) /\ basket.quote = Quote(start) + p.reserve
          /\ \A b \in p.lower..p.upper :
               p.bins[b].base * Price[b] + p.bins[b].quote
                 <= start[b].base * Price[b] + start[b].quote
    BY <1>2 DEF Held
  <2>2. /\ p.lower \in DOMAIN Price /\ p.upper \in DOMAIN Price
        /\ p.bins \in [p.lower..p.upper -> Bin] /\ Split(p.bins, bin)
        /\ p.base = Base(p.bins) /\ p.quote = Quote(p.bins)
    BY <1>2 DEF Sound, Stocked, Laid, Held
  <2>3. p.base * Price[bin] + p.quote <= Base(start) * Price[bin] + Quote(start)
    BY <2>1, <2>2, BinsAreWorth
  <2>4. Base(start) \in Nat /\ Quote(start) \in Nat
    BY <2>2, Prices, RangeIsFinite, Totals
  <2> DEFINE mine == p.base * Price[bin]
             theirs == Base(start) * Price[bin]
  <2>5. mine \in Nat /\ theirs \in Nat
    BY <1>1, <2>4
  <2>6. Inventory(p, bin) = mine + p.quote + p.reserve /\ mine + p.quote <= theirs + Quote(start)
    BY <2>3 DEF Inventory
  <2>7. basket.base * Price[bin] = theirs
    BY <2>1
  <2> HIDE DEF mine, theirs
  <2>8. basket.quote = Quote(start) + p.reserve
    BY <2>1
  <2> QED BY <1>1, <2>4, <2>5, <2>6, <2>7, <2>8
<1>3. CASE p.status = "EXITED"
  <2> DEFINE mine == p.base * Price[bin]
  <2>1. mine \in Nat
    BY <1>1
  <2>2. /\ Inventory(p, bin) = mine + p.quote + p.reserve
        /\ basket.base * Price[bin] = mine /\ basket.quote = p.quote + p.reserve
    BY <1>3 DEF Inventory, Held
  <2> HIDE DEF mine
  <2> QED BY <1>1, <2>1, <2>2
<1> QED BY <1>2, <1>3 DEF Sound

(* An allocation holds what it has just put in.                            *)
LEMMA HeldAtFirst ==
  ASSUME ReplayAssumption, NEW v, NEW p, Sound(v, p), NEW bin,
         p.status = "ACTIVE" => Split(p.bins, bin)
  PROVE  Held(p, bin, Basket(p))
<1>1. CASE p.status = "ACTIVE"
  <2>1. p.bins \in [p.lower..p.upper -> Bin] /\ p.base = Base(p.bins) /\ p.quote = Quote(p.bins)
    BY <1>1 DEF Sound, Stocked, Laid
  <2>2. \A b \in p.lower..p.upper : p.bins[b].base * Price[b] + p.bins[b].quote
                                      <= p.bins[b].base * Price[b] + p.bins[b].quote
    <3> TAKE b \in p.lower..p.upper
    <3>1. p.bins[b].base \in Nat /\ p.bins[b].quote \in Nat
      BY <2>1 DEF Bin
    <3>2. Price[b] \in Nat
      BY <1>1, Prices DEF Sound, Stocked, Laid
    <3>3. p.bins[b].base * Price[b] \in Nat
      BY <3>1, <3>2
    <3> QED BY <3>1, <3>3
  <2> QED BY <1>1, <2>1, <2>2 DEF Held, Basket
<1>2. CASE p.status # "ACTIVE"
  BY <1>2 DEF Held, Basket
<1> QED BY <1>1, <1>2

-----------------------------------------------------------------------------
(* The steps of a row *)

(* What a position is worth is what the books say.                         *)
Accounted(p, bin, gain) == Nav(p, bin) = Positive(Funds + gain + p.fees - p.costs)

LEMMA CostsAreFinal ==
  ASSUME NEW x \in Int, NEW cost \in Nat
  PROVE  Positive(Positive(x) - cost) = Positive(x - cost)
<1>1. \A y \in Int : Positive(y) = IF y >= 0 THEN y ELSE 0
  BY PositivePart
<1>2. Positive(x) \in Int
  BY <1>1
<1> QED BY <1>1, <1>2

(* Marking and crediting: what the market adds to a position is its gain,  *)
(* and one that is worth nothing stays so.                                 *)
LEMMA Marking ==
  ASSUME ReplayAssumption, NEW v \in Variants, NEW p, Sound(v, p), p.status # "NONE",
         NEW row \in Rows, NEW now \in Nat, NEW prior \in DOMAIN Price,
         NEW gain \in Int, Accounted(p, prior, gain), NEW basket, Held(p, prior, basket),
         NEW q, q = AccrueFunded(MarkFunded(p, now, row.bin), row.bin, row.liq, row.fees)
  PROVE  /\ Sound(v, q) /\ q.status = p.status /\ q.openedAt = p.openedAt
         /\ Accounted(q, row.bin, gain + Inventory(q, row.bin) - Inventory(p, prior))
         /\ Held(q, row.bin, basket)
<1> DEFINE m == MarkFunded(p, now, row.bin)
           active == row.bin
<1>1. active \in DOMAIN Price /\ row.liq \in Nat /\ row.fees \in Nat
  BY DEF ReplayAssumption, Row
<1>2. /\ Sound(v, m) /\ SameTerms(p, m) /\ m.reserve = p.reserve
      /\ p.base = 0 /\ p.quote = 0 => m.base = 0 /\ m.quote = 0
      /\ m.status = "EXITED" => m.base = p.base /\ m.quote = p.quote
      /\ m.status = "ACTIVE" => m.bins = Convert(p.bins, active)
  BY <1>1, MarkEffect
<1>3. q = AccrueFunded(m, active, row.liq, row.fees)
  OBVIOUS
<1> HIDE DEF m, active
<1>4. m.status = p.status /\ m.status # "NONE"
  BY <1>2 DEF SameTerms
<1>5. /\ Sound(v, q) /\ q.status = m.status /\ q.openedAt = m.openedAt
      /\ q.lower = m.lower /\ q.upper = m.upper /\ q.bins = m.bins
      /\ q.base = m.base /\ q.quote = m.quote /\ q.reserve = m.reserve /\ q.costs = m.costs
      /\ m.fees <= q.fees /\ q.pending + m.fees = m.pending + q.fees
      /\ m.base = 0 /\ m.quote = 0 => q.fees = m.fees
  <2> DEFINE liq == row.liq
             fees == row.fees
  <2>1. liq \in Nat /\ fees \in Nat /\ q = AccrueFunded(m, active, liq, fees)
    BY <1>1, <1>3
  <2> HIDE DEF liq, fees
  <2>2. Sound(v, m) /\ m.status # "NONE" /\ active \in DOMAIN Price
    BY <1>1, <1>2, <1>4
  <2>3. ASSUME NEW x, x = AccrueFunded(m, active, liq, fees)
        PROVE  /\ Sound(v, x) /\ x.status = m.status /\ x.openedAt = m.openedAt
               /\ x.lower = m.lower /\ x.upper = m.upper /\ x.bins = m.bins
               /\ x.base = m.base /\ x.quote = m.quote /\ x.reserve = m.reserve
               /\ x.costs = m.costs
    BY <2>1, <2>2, <2>3, AccrueEffect
  <2>4. ASSUME NEW x, x = AccrueFunded(m, active, liq, fees)
        PROVE  m.fees <= x.fees /\ x.pending + m.fees = m.pending + x.fees
    BY <2>1, <2>2, <2>4, AccrueEffect
  <2>5. ASSUME NEW x, x = AccrueFunded(m, active, liq, fees), m.base = 0, m.quote = 0
        PROVE  x.fees = m.fees
    BY <2>1, <2>2, <2>5, AccrueEffect
  <2> QED BY <2>1, <2>3, <2>4, <2>5
<1>6. Accounted(q, active, gain + Inventory(q, active) - Inventory(p, prior))
  <2> DEFINE tick == q.fees - m.fees
  <2>1. /\ tick \in Nat /\ q.pending = m.pending + tick /\ q.fees = m.fees + tick
        /\ m.base = 0 /\ m.quote = 0 => tick = 0
    <3>1. {m.fees, q.fees, m.pending, q.pending} \subseteq Nat
      BY <1>2, <1>5 DEF Sound
    <3> QED BY <1>5, <3>1
  <2> HIDE DEF tick
  <2> DEFINE before == Inventory(p, prior)
             after == Inventory(q, active)
             books == Funds + gain + p.fees - p.costs
  <2>2. /\ before \in Nat /\ Nav(p, prior) = before + p.pending
        /\ before = 0 => p.base = 0 /\ p.quote = 0 /\ p.reserve = 0
    BY InventoryType
  <2>3. /\ after \in Nat /\ Nav(q, active) = after + q.pending
        /\ q.base = 0 /\ q.quote = 0 => after = q.reserve
    BY <1>1, <1>5, InventoryType
  <2>4. books \in Int /\ p.pending \in Nat /\ p.fees \in Nat /\ p.costs \in Nat /\ Funds \in Nat
    <3>1. Funds \in Nat
      BY DEF ReplayAssumption
    <3>2. p.pending \in Nat /\ p.fees \in Nat /\ p.costs \in Nat
      BY DEF Sound
    <3> QED BY <3>1, <3>2
  <2>5. before + p.pending = Positive(books)
    BY <2>2 DEF Accounted
  <2>6. q.pending = p.pending + tick /\ q.fees = p.fees + tick /\ q.costs = p.costs
    BY <1>2, <1>5, <2>1 DEF SameTerms
  <2>7. before = 0 => tick = 0 /\ after = 0
    BY <1>2, <1>5, <2>1, <2>2, <2>3
  <2> DEFINE grown == Funds + (gain + after - before) + q.fees - q.costs
  <2> HIDE DEF before, after
  <2>8. grown = books + (after - before) + tick /\ grown \in Int
    BY <2>1, <2>2, <2>3, <2>4, <2>6
  <2> HIDE DEF books, grown
  <2>9. after + q.pending = Positive(grown)
    <3>1. \A y \in Int : Positive(y) = IF y >= 0 THEN y ELSE 0
      BY PositivePart
    <3>2. CASE books >= 0
      <4>1. before + p.pending = books
        BY <2>4, <2>5, <3>1, <3>2
      <4>2. grown = after + p.pending + tick
        BY <2>2, <2>3, <2>4, <2>8, <4>1
      <4> QED BY <2>1, <2>3, <2>4, <2>6, <2>8, <3>1, <4>2
    <3>3. CASE ~(books >= 0)
      <4>1. before = 0 /\ p.pending = 0
        BY <2>2, <2>4, <2>5, <3>1, <3>3
      <4>2. tick = 0 /\ after = 0 /\ grown = books /\ q.pending = 0
        BY <2>4, <2>6, <2>7, <2>8, <4>1
      <4> QED BY <2>4, <3>1, <3>3, <4>2
    <3> QED BY <3>2, <3>3
  <2> QED BY <2>3, <2>9 DEF Accounted, before, after, grown
<1>7. Held(q, active, basket)
  <2>1. CASE q.status = "ACTIVE"
    <3>1. /\ p.status = "ACTIVE" /\ p.lower \in DOMAIN Price /\ p.upper \in DOMAIN Price
          /\ p.bins \in [p.lower..p.upper -> Bin] /\ p.lower..p.upper \subseteq DOMAIN Price
      BY <1>4, <1>5, <2>1, Prices DEF Sound, Stocked, Laid
    <3>2. /\ q.lower = p.lower /\ q.upper = p.upper /\ q.reserve = p.reserve
          /\ q.bins = Convert(p.bins, active)
      BY <1>2, <1>5, <2>1 DEF SameTerms
    <3>3. PICK start \in [p.lower..p.upper -> Bin] :
            /\ basket.base = Base(start) /\ basket.quote = Quote(start) + p.reserve
            /\ \A b \in p.lower..p.upper :
                 p.bins[b].base * Price[b] + p.bins[b].quote
                   <= start[b].base * Price[b] + start[b].quote
      BY <3>1 DEF Held
    <3>4. /\ q.bins \in [p.lower..p.upper -> Bin] /\ Split(q.bins, active)
          /\ \A b \in p.lower..p.upper :
               q.bins[b].base * Price[b] + q.bins[b].quote
                 <= p.bins[b].base * Price[b] + p.bins[b].quote
      <4> DEFINE S == p.lower..p.upper
                 bins == p.bins
      <4>1. S \subseteq DOMAIN Price /\ bins \in [S -> Bin]
        BY <3>1
      <4> HIDE DEF S, bins
      <4>2. LET converted == Convert(bins, active)
            IN  /\ converted \in [S -> Bin] /\ Split(converted, active)
                /\ \A b \in S : converted[b].base * Price[b] + converted[b].quote
                                <= bins[b].base * Price[b] + bins[b].quote
        BY <1>1, <4>1, Converted
      <4>3. q.bins = Convert(bins, active)
        BY <3>2 DEF bins
      <4> QED BY <4>2, <4>3 DEF S, bins
    <3>5. ASSUME NEW b \in p.lower..p.upper
          PROVE  q.bins[b].base * Price[b] + q.bins[b].quote
                   <= start[b].base * Price[b] + start[b].quote
      <4>1. \A x \in Bin : x.base * Price[b] + x.quote \in Int
        <5> TAKE x \in Bin
        <5>1. x.base \in Nat /\ x.quote \in Nat /\ Price[b] \in Nat
          BY <3>1, Prices DEF Bin
        <5>2. x.base * Price[b] \in Nat
          BY <5>1
        <5> QED BY <5>1, <5>2
      <4> DEFINE worth(x) == x.base * Price[b] + x.quote
      <4>2. /\ worth(q.bins[b]) \in Int /\ worth(p.bins[b]) \in Int /\ worth(start[b]) \in Int
            /\ worth(q.bins[b]) <= worth(p.bins[b]) /\ worth(p.bins[b]) <= worth(start[b])
        BY <3>1, <3>3, <3>4, <4>1
      <4> HIDE DEF worth
      <4>3. worth(q.bins[b]) <= worth(start[b])
        BY <4>2
      <4> QED BY <4>3 DEF worth
    <3>6. \E s \in [q.lower..q.upper -> Bin] :
            /\ basket.base = Base(s) /\ basket.quote = Quote(s) + q.reserve
            /\ \A b \in q.lower..q.upper :
                 q.bins[b].base * Price[b] + q.bins[b].quote <= s[b].base * Price[b] + s[b].quote
      <4>1. start \in [q.lower..q.upper -> Bin] /\ basket.quote = Quote(start) + q.reserve
        BY <3>2, <3>3
      <4>2. \A b \in q.lower..q.upper :
              q.bins[b].base * Price[b] + q.bins[b].quote
                <= start[b].base * Price[b] + start[b].quote
        BY <3>2, <3>5
      <4> QED BY <3>3, <4>1, <4>2
    <3> QED BY <2>1, <3>4, <3>6 DEF Held
  <2>2. CASE q.status # "ACTIVE"
    BY <1>2, <1>4, <1>5, <2>2 DEF Held
  <2> QED BY <2>1, <2>2
<1> QED BY <1>2, <1>4, <1>5, <1>6, <1>7 DEF active, SameTerms

Quiet == {"HOLD", "SUPPRESSED_REBALANCE"}

LEMMA Deciding ==
  ASSUME ReplayAssumption, NEW v \in Variants, NEW p, Sound(v, p), p.status # "NONE",
         NEW row \in Rows, NEW gain \in Int, Accounted(p, row.bin, gain),
         NEW basket, Held(p, row.bin, basket),
         NEW kind \in Kinds \cup {"HOLD"}, p.status = "EXITED" => kind = "HOLD",
         kind = "COMPOUND" => InRange(p, row.bin),
         NEW q, q = ApplyDecision(v, p, kind, row)
  PROVE  /\ Sound(v, q) /\ q.openedAt = p.openedAt
         /\ q.status = IF kind \in ExitKinds THEN "EXITED" ELSE p.status
         /\ Accounted(q, row.bin, gain)
         /\ Held(q, row.bin, IF kind \in Quiet THEN basket ELSE Basket(q))
<1>1. CASE kind \in Quiet
  <2>1. q = p
    BY <1>1 DEF ApplyDecision, Quiet
  <2> QED BY <1>1, <2>1 DEF Quiet, ExitKinds
<1>2. CASE kind \notin Quiet
  <2>1. /\ kind \in {"COMPOUND", "REBALANCE", "EXIT", "EXPLICIT_EXIT"} /\ kind # "HOLD"
        /\ p.status = "ACTIVE"
    BY <1>2 DEF Kinds, Quiet, Sound
  <2>2. /\ Sound(v, q) /\ q.openedAt = p.openedAt /\ q.fees = p.fees
        /\ q.status = IF kind \in {"EXIT", "EXPLICIT_EXIT"} THEN "EXITED" ELSE "ACTIVE"
        /\ \E cost \in Nat : /\ q.costs = p.costs + cost
                             /\ Nav(q, row.bin) = Positive(Nav(p, row.bin) - cost)
        /\ q.status = "ACTIVE" => Split(q.bins, row.bin)
    BY <2>1, DecisionEffect
  <2>3. PICK cost \in Nat : /\ q.costs = p.costs + cost
                            /\ Nav(q, row.bin) = Positive(Nav(p, row.bin) - cost)
    BY <2>2
  <2> DEFINE books == Funds + gain + p.fees - p.costs
  <2>4. books \in Int /\ Funds + gain + q.fees - q.costs = books - cost
    <3>1. Funds \in Nat
      BY DEF ReplayAssumption
    <3>2. p.fees \in Nat /\ p.costs \in Nat
      BY DEF Sound
    <3> QED BY <2>2, <2>3, <3>1, <3>2
  <2>5. Nav(p, row.bin) = Positive(books)
    BY DEF Accounted
  <2> HIDE DEF books
  <2>6. Accounted(q, row.bin, gain)
    <3>1. Positive(Positive(books) - cost) = Positive(books - cost)
      BY <2>4, CostsAreFinal
    <3> QED BY <2>3, <2>4, <2>5, <3>1 DEF Accounted
  <2>7. Held(q, row.bin, Basket(q))
    BY <2>2, HeldAtFirst
  <2> QED BY <1>2, <2>1, <2>2, <2>6, <2>7 DEF ExitKinds
<1> QED BY <1>1, <1>2

(* What a row decides: nothing once it exited, no compound out of range.   *)
LEMMA Choosing ==
  ASSUME NEW v, NEW run, run.position.status \in {"ACTIVE", "EXITED"},
         NEW regime, NEW row, NEW now, NEW kind, kind = Chosen(v, run, regime, row, now)
  PROVE  /\ kind \in Kinds \cup {"HOLD"}
         /\ run.position.status = "EXITED" => kind = "HOLD"
         /\ kind = "COMPOUND" => InRange(run.position, row.bin)
         /\ v.stop = 0 /\ v.trail = 0 =>
              (kind \in ExitKinds <=>
                 /\ run.position.status = "ACTIVE"
                 /\ MaxHold(v, run.position, now) \/ (~v.passive /\ ExitGate(regime, now)))
<1> DEFINE p == run.position
           raw == RawDecision(v, p, regime, row, now)
           leaves == ExplicitExit(v, p, Nav(p, row.bin), run.peak, now)
<1>1. /\ raw \in {"HOLD", "EXIT", "REBALANCE", "COMPOUND"}
      /\ p.status = "EXITED" => raw = "HOLD"
      /\ raw = "COMPOUND" => InRange(p, row.bin)
      /\ raw = "EXIT" <=> p.status = "ACTIVE" /\ ~v.passive /\ ExitGate(regime, now)
  <2> DEFINE covered == Covered(p, row.bin, row.apr, row.costs)
  <2> HIDE DEF covered
  <2>1. raw = IF v.passive THEN "HOLD" ELSE Decide(p, regime, now, row.bin, covered)
    BY DEF RawDecision, covered
  <2> DEFINE gates == RebalanceGates(p, regime, now, row.bin, covered)
             exits == ExitGate(regime, now)
             inside == InRange(p, row.bin)
             paid == p.pending >= MinFees
  <2>2. Decide(p, regime, now, row.bin, covered) =
          CASE p.status = "EXITED" -> "HOLD"
            [] p.status # "EXITED" /\ exits -> "EXIT"
            [] p.status # "EXITED" /\ ~exits /\ gates -> "REBALANCE"
            [] p.status # "EXITED" /\ ~exits /\ inside /\ paid -> "COMPOUND"
            [] OTHER -> "HOLD"
    BY DEF Decide
  <2> HIDE DEF gates, exits, inside, paid, raw
  <2>3. p.status \in {"ACTIVE", "EXITED"}
    OBVIOUS
  <2> HIDE DEF p
  <2> QED BY <2>1, <2>2, <2>3 DEF exits, inside
<1>2. kind = IF leaves THEN "EXPLICIT_EXIT"
             ELSE IF Suppressed(v, raw, now) THEN "SUPPRESSED_REBALANCE" ELSE raw
  BY DEF Chosen, Guarded
<1>3. Suppressed(v, raw, now) => raw = "REBALANCE"
  BY DEF Suppressed
<1>4. /\ leaves => p.status = "ACTIVE"
      /\ v.stop = 0 /\ v.trail = 0 => (leaves <=> p.status = "ACTIVE" /\ MaxHold(v, p, now))
  BY DEF ExplicitExit, StopLoss, Trailing
<1> DEFINE delays == Suppressed(v, raw, now)
<1> HIDE DEF raw, leaves, delays
<1> QED
  <2>1. kind = IF leaves THEN "EXPLICIT_EXIT" ELSE IF delays THEN "SUPPRESSED_REBALANCE" ELSE raw
    BY <1>2 DEF delays
  <2>2. delays => raw = "REBALANCE"
    BY <1>3 DEF delays
  <2> HIDE DEF p
  <2>3. kind \in Kinds \cup {"HOLD"} /\ (p.status = "EXITED" => kind = "HOLD")
    BY <1>1, <1>4, <2>1, <2>2 DEF Kinds
  <2>4. kind = "COMPOUND" => InRange(p, row.bin)
    BY <1>1, <2>1
  <2>5. v.stop = 0 /\ v.trail = 0 =>
          (kind \in ExitKinds <=>
             /\ p.status = "ACTIVE"
             /\ MaxHold(v, p, now) \/ (~v.passive /\ ExitGate(regime, now)))
    BY <1>1, <1>4, <2>1, <2>2 DEF ExitKinds
  <2> QED BY <2>3, <2>4, <2>5 DEF p

-----------------------------------------------------------------------------
(* A run *)

RunFields == {"position", "bench", "peak", "marks", "events", "last", "basket", "gain"}

Event == [ts : Nat, kind : Kinds]

(* What holds of a run between two rows.                                   *)
RunSound(v, run) ==
  /\ DOMAIN run = RunFields
  /\ Sound(v, run.position)
  /\ run.peak \in Nat /\ run.gain \in Int
  /\ run.events \in Seq(Event)
  /\ run.position.status = "NONE" => run.gain = 0
  /\ run.position.status # "NONE" =>
       /\ run.last \in DOMAIN Price
       /\ run.marks.strategy = Nav(run.position, run.last)
       /\ Accounted(run.position, run.last, run.gain)
       /\ Held(run.position, run.last, run.basket)

LEMMA NewRunIsSound == ASSUME NEW v PROVE RunSound(v, NewRun)
<1>1. /\ NewRun.position = Unfunded /\ NewRun.peak = 0 /\ NewRun.gain = 0
      /\ NewRun.events = <<>> /\ DOMAIN NewRun = RunFields
  BY DEF NewRun, RunFields
<1>2. Sound(v, Unfunded) /\ Unfunded.status = "NONE"
  BY DEF Sound, Unfunded, Fields, Never
<1> QED BY <1>1, <1>2 DEF RunSound

LEMMA WaitEffect ==
  ASSUME NEW v, NEW run, RunSound(v, run), NEW benchmarks, NEW row,
         run.position.status = "NONE", NEW next, next = Wait(v, run, benchmarks, row)
  PROVE  /\ RunSound(v, next)
         /\ next.position = run.position /\ next.events = run.events /\ next.bench = benchmarks
<1>1. /\ DOMAIN next = RunFields /\ next.position = run.position /\ next.peak = run.peak
      /\ next.gain = run.gain /\ next.events = run.events /\ next.bench = benchmarks
  BY DEF Wait, RunSound, RunFields
<1> QED BY <1>1 DEF RunSound

(* What PlayRow names, or passes on.                                       *)
RowOpened(v, run, row, now) == Opened(v, run.position, row, now)

RowAccrued(v, run, row, now) ==
  AccrueFunded(MarkFunded(RowOpened(v, run, row, now), now, row.bin), row.bin, row.liq, row.fees)

RowMarked(v, run, benchmarks, row, now) ==
  Marked(run, RowOpened(v, run, row, now), RowAccrued(v, run, row, now),
         Credited(v, benchmarks, row), row)

RowKind(v, run, benchmarks, regime, row, now) ==
  Chosen(v, RowMarked(v, run, benchmarks, row, now), regime, row, now)

RowApplied(v, run, benchmarks, regime, row, now) ==
  ApplyDecision(v, RowAccrued(v, run, row, now),
                RowKind(v, run, benchmarks, regime, row, now), row)

Prior(run, row) == IF run.position.status = "NONE" THEN row.bin ELSE run.last

PriorBasket(run, opened) ==
  IF run.position.status = "NONE" THEN Basket(opened) ELSE run.basket

NextBasket(kind, basket, applied) == IF kind \in Quiet THEN basket ELSE Basket(applied)

LEMMA Appending ==
  ASSUME NEW events \in Seq(Event), NEW now \in Nat, NEW kind \in Kinds \cup {"HOLD"}
  PROVE  Happened(events, now, kind) \in Seq(Event)
<1>1. CASE kind = "HOLD"
  BY <1>1 DEF Happened
<1>2. CASE kind # "HOLD"
  <2>1. [ts |-> now, kind |-> kind] \in Event
    BY <1>2 DEF Event
  <2> QED BY <1>2, <2>1, AppendProperties DEF Happened
<1> QED BY <1>1, <1>2

(* A row that opened the position, or found it opened.                     *)
LEMMA Opening ==
  ASSUME ReplayAssumption, NEW v \in Variants, NEW row \in Rows, NEW now \in Nat,
         NEW run, RunSound(v, run), NEW opened, opened = RowOpened(v, run, row, now)
  PROVE  /\ Sound(v, opened)
         /\ opened.status = IF run.position.status = "NONE" THEN "ACTIVE" ELSE run.position.status
         /\ opened.openedAt = IF run.position.status = "NONE" THEN now ELSE run.position.openedAt
         /\ Prior(run, row) \in DOMAIN Price
         /\ Accounted(opened, Prior(run, row), run.gain)
         /\ Held(opened, Prior(run, row), PriorBasket(run, opened))
<1> DEFINE prior == Prior(run, row)
           basket == PriorBasket(run, opened)
<1>1. CASE run.position.status = "NONE"
  <2>1. /\ Sound(v, opened) /\ opened.status = "ACTIVE" /\ opened.openedAt = now
        /\ opened.pending = 0 /\ opened.fees = 0 /\ opened.costs = v.entryCost
        /\ Inventory(opened, row.bin) = Positive(Funds - v.entryCost)
        /\ Split(opened.bins, row.bin)
    BY <1>1, OpenEffect DEF RowOpened
  <2>2. prior = row.bin /\ row.bin \in DOMAIN Price /\ basket = Basket(opened)
    BY <1>1 DEF ReplayAssumption, Row, Prior, PriorBasket
  <2>3. Held(opened, row.bin, Basket(opened))
    BY <2>1, HeldAtFirst
  <2>4. Accounted(opened, row.bin, run.gain)
    <3>1. Inventory(opened, row.bin) \in Nat
          /\ Nav(opened, row.bin) = Inventory(opened, row.bin) + opened.pending
      BY <2>1, <2>2, InventoryType
    <3>2. run.gain = 0 /\ Funds \in Nat /\ v.entryCost \in Nat
      BY <1>1 DEF RunSound, ReplayAssumption, Variant
    <3>3. Funds + run.gain + opened.fees - opened.costs = Funds - v.entryCost
      BY <2>1, <3>2
    <3> QED BY <2>1, <3>1, <3>3 DEF Accounted
  <2> QED BY <1>1, <2>1, <2>2, <2>3, <2>4
<1>2. CASE run.position.status # "NONE"
  <2>1. opened = run.position /\ prior = run.last /\ basket = run.basket
    BY <1>2 DEF Opened, RowOpened, Prior, PriorBasket
  <2> QED BY <1>2, <2>1 DEF RunSound
<1> QED BY <1>1, <1>2

(* Without a stop, a variant leaves when it has held for long enough or on *)
(* low volume.                                                             *)
Leaves(v, position, regime, now) ==
  /\ position.status # "EXITED"
  /\ \/ /\ v.hold # 0
        /\ now - (IF position.status = "NONE" THEN now ELSE position.openedAt) >= v.hold
     \/ ~v.passive /\ ExitGate(regime, now)

(* A row that is played, the run being sound.                              *)
LEMMA PlayEffect ==
  ASSUME ReplayAssumption, NEW v \in Variants, NEW row \in Rows, NEW now \in Nat, NEW regime,
         NEW run, RunSound(v, run), NEW benchmarks,
         NEW next, next = PlayRow(v, run, benchmarks, regime, row, now)
  PROVE  /\ RunSound(v, next) /\ next.bench = Credited(v, benchmarks, row)
         /\ next.position.openedAt = IF run.position.status = "NONE" THEN now
                                     ELSE run.position.openedAt
         /\ next.position.status =
              IF RowKind(v, run, benchmarks, regime, row, now) \in ExitKinds THEN "EXITED"
              ELSE IF run.position.status = "NONE" THEN "ACTIVE" ELSE run.position.status
         /\ RowKind(v, run, benchmarks, regime, row, now) \in Kinds \cup {"HOLD"}
         /\ next.events = Happened(run.events, now, RowKind(v, run, benchmarks, regime, row, now))
         /\ v.stop = 0 /\ v.trail = 0 =>
              (RowKind(v, run, benchmarks, regime, row, now) \in ExitKinds
                 <=> Leaves(v, run.position, regime, now))
<1> DEFINE opened == RowOpened(v, run, row, now)
           accrued == RowAccrued(v, run, row, now)
           marked == RowMarked(v, run, benchmarks, row, now)
           kind == RowKind(v, run, benchmarks, regime, row, now)
           applied == RowApplied(v, run, benchmarks, regime, row, now)
           prior == Prior(run, row)
           basket == PriorBasket(run, opened)
           gain == run.gain + Inventory(accrued, row.bin) - Inventory(opened, prior)
<1>1. DOMAIN run = RunFields /\ run.gain \in Int /\ run.peak \in Nat /\ run.events \in Seq(Event)
  BY DEF RunSound
<1>2. /\ marked.position = accrued
      /\ DOMAIN next = RunFields
      /\ next.position = applied /\ next.last = row.bin
      /\ next.bench = Credited(v, benchmarks, row)
      /\ next.peak = Max({run.peak, Nav(accrued, row.bin)})
      /\ next.events = Happened(run.events, now, kind)
      /\ next.marks.strategy = Nav(applied, row.bin)
      /\ next.basket = NextBasket(kind, basket, applied)
      /\ next.gain = gain
  <2> DEFINE bench == Credited(v, benchmarks, row)
             peak == Max({run.peak, Nav(accrued, row.bin)})
  <2>1. next = Recorded(marked, kind, ApplyDecision(v, marked.position, kind, row), row, now)
    BY DEF PlayRow, RowOpened, RowAccrued, RowMarked, RowKind
  <2> HIDE DEF opened, accrued, bench, kind, applied, prior, basket, gain
  <2>2. marked = [run EXCEPT !.position = accrued, !.bench = bench, !.peak = peak, !.last = row.bin,
                             !.basket = basket, !.gain = gain]
    BY DEF Marked, RowMarked, Prior, PriorBasket, opened, accrued, bench, prior, basket, gain
  <2> HIDE DEF marked, peak
  <2>3. /\ DOMAIN marked = RunFields /\ marked.position = accrued /\ marked.bench = bench
        /\ marked.peak = peak /\ marked.last = row.bin /\ marked.basket = basket
        /\ marked.gain = gain /\ marked.events = run.events
    BY <1>1, <2>2 DEF RunFields
  <2>4. next = Recorded(marked, kind, applied, row, now)
    BY <2>1, <2>3 DEF applied, RowApplied, accrued, kind
  <2> DEFINE marks == Marks(marked.bench, row.bin, Nav(applied, row.bin))
             events == Happened(marked.events, now, kind)
             laid == NextBasket(kind, marked.basket, applied)
  <2>5. next = [marked EXCEPT !.position = applied, !.marks = marks, !.events = events,
                              !.basket = laid]
    BY <2>4 DEF Recorded, Quiet, NextBasket
  <2>6. marks.strategy = Nav(applied, row.bin)
    BY DEF Marks
  <2> HIDE DEF marks, events, laid
  <2>7. /\ DOMAIN next = RunFields /\ next.position = applied /\ next.bench = marked.bench
        /\ next.peak = marked.peak /\ next.last = marked.last /\ next.basket = laid
        /\ next.gain = marked.gain /\ next.events = events /\ next.marks = marks
    BY <2>3, <2>5 DEF RunFields
  <2>8. /\ marked.position = accrued
        /\ DOMAIN next = RunFields
        /\ next.position = applied /\ next.last = row.bin
        /\ next.bench = bench
        /\ next.peak = peak
        /\ next.events = Happened(run.events, now, kind)
        /\ next.marks.strategy = Nav(applied, row.bin)
        /\ next.basket = NextBasket(kind, basket, applied)
        /\ next.gain = gain
    BY <2>3, <2>6, <2>7 DEF events, laid
  <2> QED BY <2>8 DEF bench, peak
<1>3. /\ Sound(v, opened)
      /\ opened.status = IF run.position.status = "NONE" THEN "ACTIVE" ELSE run.position.status
      /\ opened.openedAt = IF run.position.status = "NONE" THEN now ELSE run.position.openedAt
      /\ prior \in DOMAIN Price
      /\ Accounted(opened, prior, run.gain) /\ Held(opened, prior, basket)
  BY Opening
<1>4. row.bin \in DOMAIN Price
  BY DEF ReplayAssumption, Row
<1> HIDE DEF opened
<1>5. opened.status # "NONE"
  BY <1>3 DEF RunSound
<1>6. /\ Sound(v, accrued) /\ accrued.status = opened.status /\ accrued.openedAt = opened.openedAt
      /\ Accounted(accrued, row.bin, gain) /\ Held(accrued, row.bin, basket)
  <2> HIDE DEF accrued, prior, basket
  <2>1. accrued = AccrueFunded(MarkFunded(opened, now, row.bin), row.bin, row.liq, row.fees)
    BY DEF accrued, RowAccrued, opened
  <2> QED BY <1>1, <1>3, <1>5, <2>1, Marking
<1>7. gain \in Int
  <2> HIDE DEF accrued, prior
  <2>1. Inventory(accrued, row.bin) \in Nat /\ Inventory(opened, prior) \in Nat
    BY <1>3, <1>4, <1>6, InventoryType
  <2> QED BY <1>1, <2>1
<1> HIDE DEF accrued, prior, basket, gain
<1>8. accrued.status \in {"ACTIVE", "EXITED"}
  BY <1>5, <1>6 DEF Sound
<1>9. /\ kind \in Kinds \cup {"HOLD"} /\ (accrued.status = "EXITED" => kind = "HOLD")
      /\ kind = "COMPOUND" => InRange(accrued, row.bin)
  <2> HIDE DEF marked, kind
  <2>1. marked.position.status \in {"ACTIVE", "EXITED"} /\ kind = Chosen(v, marked, regime, row, now)
    BY <1>2, <1>8 DEF kind, RowKind, marked
  <2> QED BY <1>2, <2>1, Choosing
<1>10. v.stop = 0 /\ v.trail = 0 => (kind \in ExitKinds <=> Leaves(v, run.position, regime, now))
  <2> DEFINE exits == ExitGate(regime, now)
  <2>1. v.stop = 0 /\ v.trail = 0 =>
          (kind \in ExitKinds <=>
             /\ accrued.status = "ACTIVE"
             /\ (v.hold # 0 /\ now - accrued.openedAt >= v.hold) \/ (~v.passive /\ exits))
    <3>1. marked.position.status \in {"ACTIVE", "EXITED"}
          /\ kind = Chosen(v, marked, regime, row, now)
      BY <1>2, <1>8 DEF kind, RowKind, marked
    <3> HIDE DEF marked, kind, exits
    <3>2. v.stop = 0 /\ v.trail = 0 =>
            (kind \in ExitKinds <=>
               /\ marked.position.status = "ACTIVE"
               /\ MaxHold(v, marked.position, now) \/ (~v.passive /\ exits))
      BY <3>1, Choosing DEF exits
    <3> QED BY <1>2, <3>2 DEF MaxHold
  <2>2. /\ accrued.openedAt = IF run.position.status = "NONE" THEN now ELSE run.position.openedAt
        /\ accrued.status = "ACTIVE" <=> run.position.status # "EXITED"
    BY <1>3, <1>5, <1>6, <1>8 DEF RunSound, Sound
  <2> HIDE DEF exits, marked, kind
  <2> QED BY <2>1, <2>2 DEF Leaves, exits
<1> HIDE DEF marked, kind
<1>11. /\ Sound(v, applied) /\ applied.openedAt = accrued.openedAt
       /\ applied.status = IF kind \in ExitKinds THEN "EXITED" ELSE accrued.status
       /\ Accounted(applied, row.bin, gain)
       /\ Held(applied, row.bin, NextBasket(kind, basket, applied))
  <2>1. applied = ApplyDecision(v, accrued, kind, row)
    BY DEF applied, RowApplied, accrued, kind
  <2> HIDE DEF applied
  <2>2. accrued.status # "NONE"
    BY <1>8
  <2>3. /\ Sound(v, applied) /\ applied.openedAt = accrued.openedAt
        /\ applied.status = IF kind \in ExitKinds THEN "EXITED" ELSE accrued.status
        /\ Accounted(applied, row.bin, gain)
        /\ Held(applied, row.bin, IF kind \in Quiet THEN basket ELSE Basket(applied))
    BY <1>6, <1>7, <1>9, <2>1, <2>2, Deciding, SMTT(60)
  <2> QED BY <2>3 DEF NextBasket
<1> HIDE DEF applied
<1>12. next.peak \in Nat
  <2>1. Nav(accrued, row.bin) \in Nat
    BY <1>4, <1>6, InventoryType
  <2> QED BY <1>1, <1>2, <2>1, Larger
<1>13. next.events \in Seq(Event)
  BY <1>1, <1>2, <1>9, Appending
<1>14. applied.status # "NONE"
  BY <1>5, <1>6, <1>11
<1>15. RunSound(v, next)
  <2>1. next.marks.strategy = Nav(next.position, next.last)
    BY <1>2
  <2>2. Accounted(next.position, next.last, next.gain) /\ Sound(v, next.position)
    BY <1>2, <1>11
  <2>3. Held(next.position, next.last, next.basket)
    BY <1>2, <1>11
  <2>4. next.gain \in Int /\ next.last \in DOMAIN Price /\ next.position.status # "NONE"
    BY <1>2, <1>4, <1>7, <1>14
  <2> QED BY <1>2, <1>12, <1>13, <2>1, <2>2, <2>3, <2>4 DEF RunSound
<1>16. /\ next.position.openedAt = IF run.position.status = "NONE" THEN now
                                     ELSE run.position.openedAt
       /\ next.position.status = IF kind \in ExitKinds THEN "EXITED"
                                 ELSE IF run.position.status = "NONE" THEN "ACTIVE"
                                 ELSE run.position.status
  BY <1>2, <1>3, <1>6, <1>11
<1> QED BY <1>2, <1>9, <1>15, <1>10, <1>16 DEF kind

RegimeOK == signals \in Regime

AllSound == \A v \in Variants : RunSound(v, runs[v])

ReplayInv == played \in 0..MaxRows /\ RegimeOK /\ AllSound

LEMMA RegimeIsTyped ==
  ASSUME NEW regime \in Regime, NEW now \in Nat, NEW bin \in Int, NEW volume \in Volume
  PROVE  UpdateRegime(regime, now, bin, volume) \in Regime
<1>1. regime.window \in SUBSET Sample /\ regime.lowSince \in Nat /\ regime.seen \in Nat
  BY DEF Regime
<1>2. Recent(regime.window \cup {[ts |-> now, bin |-> bin]}, now) \in SUBSET Sample
  BY <1>1 DEF Recent, Sample
<1>3. LowSince(regime.lowSince, volume, now) \in Nat
  BY <1>1 DEF LowSince, Volume, Never
<1>4. OneMore(regime.seen) \in Nat
  BY <1>1 DEF OneMore
<1> QED BY <1>2, <1>3, <1>4 DEF UpdateRegime, Regime

(* A row for one run                                                       *)
LEMMA RowEffect ==
  ASSUME ReplayAssumption, NEW v \in Variants, NEW row \in Rows, NEW now \in Nat, NEW regime,
         NEW run, RunSound(v, run), NEW next, next = RunRow(v, run, regime, row, now),
         NEW benchmarks, benchmarks = AnchorBenchmarks(v, run.bench, row),
         NEW kind, kind = RowKind(v, run, benchmarks, regime, row, now)
  PROVE  /\ RunSound(v, next)
         /\ Waits(v, run.position, regime, now) =>
              /\ run.position.status = "NONE" /\ next.position = run.position
              /\ next.events = run.events /\ next.bench = benchmarks
         /\ ~Waits(v, run.position, regime, now) =>
              /\ next.bench = Credited(v, benchmarks, row)
              /\ next.position.openedAt = IF run.position.status = "NONE" THEN now
                                          ELSE run.position.openedAt
              /\ next.position.status = IF kind \in ExitKinds THEN "EXITED"
                                        ELSE IF run.position.status = "NONE" THEN "ACTIVE"
                                        ELSE run.position.status
              /\ kind \in Kinds \cup {"HOLD"}
              /\ next.events = Happened(run.events, now, kind)
              /\ v.stop = 0 /\ v.trail = 0 =>
                   (kind \in ExitKinds <=> Leaves(v, run.position, regime, now))
<1>1. next = IF Waits(v, run.position, regime, now) THEN Wait(v, run, benchmarks, row)
             ELSE PlayRow(v, run, benchmarks, regime, row, now)
  BY DEF RunRow
<1>2. CASE Waits(v, run.position, regime, now)
  <2>1. run.position.status = "NONE" /\ next = Wait(v, run, benchmarks, row)
    BY <1>1, <1>2 DEF Waits
  <2> QED BY <1>2, <2>1, WaitEffect
<1>3. CASE ~Waits(v, run.position, regime, now)
  <2>1. next = PlayRow(v, run, benchmarks, regime, row, now)
    BY <1>1, <1>3
  <2> QED BY <1>3, <2>1, PlayEffect
<1> QED BY <1>2, <1>3

LEMMA ReplayedIsSound ==
  ASSUME ReplayAssumption, ReplayInv, NEW row \in Rows, Replayed(row)
  PROVE  /\ ReplayInv'
         /\ played' = played + 1 /\ played' \in Nat \ {0} /\ signals' \in Regime
         /\ \A v \in Variants : runs'[v] = RunRow(v, runs[v], signals', row, played')
<1>1. /\ played \in Nat /\ played < MaxRows /\ played' = played + 1 /\ MaxRows \in Nat
      /\ signals' = UpdateRegime(signals, played', row.bin, row.volume)
      /\ runs' = [v \in Variants |-> RunRow(v, runs[v], signals', row, played')]
  BY DEF Replayed, ReplayInv, ReplayAssumption
<1>2. played' \in 0..MaxRows /\ played' \in Nat \ {0}
  BY <1>1
<1>3. row.bin \in Int /\ row.volume \in Volume
  BY Prices DEF ReplayAssumption, Row
<1>4. signals' \in Regime
  BY <1>1, <1>2, <1>3, RegimeIsTyped DEF ReplayInv, RegimeOK
<1>5. ASSUME NEW v \in Variants PROVE RunSound(v, runs'[v])
  <2>1. RunSound(v, runs[v])
    BY DEF ReplayInv, AllSound
  <2>2. runs'[v] = RunRow(v, runs[v], signals', row, played') /\ played' \in Nat
    BY <1>1, <1>2
  <2> QED BY <2>1, <2>2, RowEffect
<1>6. ReplayInv'
  BY <1>2, <1>4, <1>5 DEF ReplayInv, RegimeOK, AllSound
<1> QED BY <1>1, <1>2, <1>4, <1>6

LEMMA ReplayInvHolds == ASSUME ReplayAssumption PROVE Spec => []ReplayInv
<1>1. Init => ReplayInv
  <2> SUFFICES ASSUME Init PROVE ReplayInv
    OBVIOUS
  <2>1. played \in 0..MaxRows
    BY DEF Init, ReplayAssumption
  <2>2. signals \in Regime
    BY DEF Init, InitRegime, Regime, Never
  <2>3. \A v \in Variants : RunSound(v, runs[v])
    BY NewRunIsSound DEF Init
  <2> QED BY <2>1, <2>2, <2>3 DEF ReplayInv, RegimeOK, AllSound
<1>2. ReplayInv /\ [Next]_vars => ReplayInv'
  <2> SUFFICES ASSUME ReplayInv, [Next]_vars PROVE ReplayInv'
    OBVIOUS
  <2>1. CASE Next
    BY <2>1, ReplayedIsSound DEF Next
  <2>2. CASE UNCHANGED vars
    BY <2>2 DEF vars, ReplayInv, RegimeOK, AllSound
  <2> QED BY <2>1, <2>2
<1> QED BY <1>1, <1>2, PTL DEF Spec

(* Positions, peaks, regimes and events stay of their types, whatever rows *)
(* are replayed (the locals of runVariant).                                *)
THEOREM ReplayTypeOK == ASSUME ReplayAssumption PROVE Spec => []TypeOK
<1>1. ReplayInv => TypeOK
  <2> SUFFICES ASSUME ReplayInv PROVE TypeOK
    OBVIOUS
  <2>1. ASSUME NEW v \in Variants
        PROVE  /\ {runs[v].position.pending, runs[v].position.fees, runs[v].position.costs,
                   runs[v].peak} \subseteq Nat
               /\ \A i \in DOMAIN runs[v].events : runs[v].events[i] \in [ts : Nat, kind : Kinds]
    <3>1. RunSound(v, runs[v])
      BY DEF ReplayInv, AllSound
    <3>2. \A i \in DOMAIN runs[v].events : runs[v].events[i] \in Event
      <4> DEFINE events == runs[v].events
      <4>1. events \in Seq(Event)
        BY <3>1 DEF RunSound
      <4> HIDE DEF events
      <4>2. \A i \in DOMAIN events : events[i] \in Event
        BY <4>1, ElementOfSeq, LenProperties
      <4> QED BY <4>2 DEF events
    <3> QED BY <3>1, <3>2 DEF RunSound, Sound, Event
  <2> QED BY <2>1 DEF TypeOK, ReplayInv, RegimeOK
<1> QED BY <1>1, ReplayInvHolds, PTL

(* What a replay reports as the NAV is the starting funds, less every cost *)
(* and plus every fee that was counted, plus what the market added         *)
(* (positionNavUsd through every apply* of position.ts).                   *)
THEOREM ReplayBooksBalance == ASSUME ReplayAssumption PROVE Spec => []BooksBalance
<1>1. ReplayInv => BooksBalance
  BY DEF ReplayInv, AllSound, RunSound, Accounted, BooksBalance, IsOpen
<1> QED BY <1>1, ReplayInvHolds, PTL

(* The inventory is never worth more than what was last allocated, held    *)
(* untouched ("This is where impermanent loss comes from",                 *)
(* position.ts:215-219).                                                   *)
THEOREM ReplayNeverBeatsHolding == ASSUME ReplayAssumption PROVE Spec => []NeverBeatsHolding
<1>1. ReplayInv => NeverBeatsHolding
  <2> SUFFICES ASSUME ReplayInv, NEW v \in Variants, IsOpen(v)
               PROVE  Inventory(runs[v].position, runs[v].last)
                        <= runs[v].basket.base * Price[runs[v].last] + runs[v].basket.quote
    BY DEF NeverBeatsHolding
  <2> DEFINE p == runs[v].position
             last == runs[v].last
             basket == runs[v].basket
  <2>1. Sound(v, p) /\ p.status # "NONE" /\ last \in DOMAIN Price /\ Held(p, last, basket)
    BY DEF ReplayInv, AllSound, RunSound, IsOpen
  <2> HIDE DEF p, last, basket
  <2>2. Inventory(p, last) <= basket.base * Price[last] + basket.quote
    BY <2>1, HeldIsMore
  <2> QED BY <2>2 DEF p, last, basket
<1> QED BY <1>1, ReplayInvHolds, PTL

-----------------------------------------------------------------------------
(* The guard and exits *)

ExitTimes(events) == {events[i].ts : i \in {j \in DOMAIN events : events[j].kind \in ExitKinds}}

LEMMA TimesGrow ==
  ASSUME NEW events \in Seq(Event), NEW now \in Nat, NEW kind \in Kinds \cup {"HOLD"}
  PROVE  ExitTimes(Happened(events, now, kind))
           = ExitTimes(events) \cup (IF kind \in ExitKinds THEN {now} ELSE {})
<1>1. CASE kind = "HOLD"
  BY <1>1 DEF Happened, ExitKinds
<1>2. CASE kind # "HOLD"
  <2> DEFINE event == [ts |-> now, kind |-> kind]
             longer == Happened(events, now, kind)
  <2>1. event \in Event /\ longer = Append(events, event)
    BY <1>2 DEF Event, Happened
  <2>2. event.ts = now /\ event.kind = kind
    OBVIOUS
  <2> HIDE DEF event, longer
  <2>3. /\ longer \in Seq(Event) /\ Len(longer) = Len(events) + 1
        /\ \A i \in 1..Len(events) : longer[i] = events[i]
        /\ longer[Len(events) + 1] = event
    BY <2>1, AppendProperties
  <2>4. DOMAIN longer = 1..Len(longer) /\ DOMAIN events = 1..Len(events) /\ Len(events) \in Nat
    BY <2>3, LenProperties
  <2>5. DOMAIN longer = DOMAIN events \cup {Len(events) + 1}
    BY <2>3, <2>4
  <2>6. ASSUME NEW x \in ExitTimes(longer)
        PROVE  x \in ExitTimes(events) \cup (IF kind \in ExitKinds THEN {now} ELSE {})
    <3>1. PICK i \in DOMAIN longer : longer[i].kind \in ExitKinds /\ x = longer[i].ts
      BY <2>6 DEF ExitTimes
    <3>2. CASE i \in DOMAIN events
      BY <2>3, <2>4, <3>1, <3>2 DEF ExitTimes
    <3>3. CASE i = Len(events) + 1
      BY <2>2, <2>3, <3>1, <3>3
    <3> QED BY <2>5, <3>1, <3>2, <3>3
  <2>7. ASSUME NEW x \in ExitTimes(events) PROVE x \in ExitTimes(longer)
    <3>1. PICK i \in DOMAIN events : events[i].kind \in ExitKinds /\ x = events[i].ts
      BY <2>7 DEF ExitTimes
    <3>2. i \in DOMAIN longer /\ longer[i] = events[i]
      BY <2>3, <2>4, <2>5
    <3> QED BY <3>1, <3>2 DEF ExitTimes
  <2>8. kind \in ExitKinds => now \in ExitTimes(longer)
    BY <2>2, <2>3, <2>5 DEF ExitTimes
  <2> QED BY <2>6, <2>7, <2>8 DEF longer
<1> QED BY <1>1, <1>2

(* Variants that differ in the guard alone.                                *)
Twins(v, w) == v.stop = 0 /\ v.trail = 0 /\ w = [v EXCEPT !.guard = w.guard]

SameExits(r, s) ==
  /\ r.position.status = s.position.status /\ r.position.openedAt = s.position.openedAt
  /\ ExitTimes(r.events) = ExitTimes(s.events)

TwinsAgree == \A v, w \in Variants : Twins(v, w) => SameExits(runs[v], runs[w])

LEMMA TwinRow ==
  ASSUME ReplayAssumption, NEW v \in Variants, NEW w \in Variants, Twins(v, w),
         NEW row \in Rows, NEW now \in Nat, NEW regime,
         NEW r, RunSound(v, r), NEW s, RunSound(w, s), SameExits(r, s),
         NEW x, x = RunRow(v, r, regime, row, now), NEW y, y = RunRow(w, s, regime, row, now)
  PROVE  SameExits(x, y)
<1>1. /\ w.stop = 0 /\ w.trail = 0 /\ v.stop = 0 /\ v.trail = 0
      /\ w.hold = v.hold /\ w.passive = v.passive /\ w.atStart = v.atStart /\ w.delay = v.delay
  BY DEF Twins, ReplayAssumption, Variant
<1>2. Waits(v, r.position, regime, now) <=> Waits(w, s.position, regime, now)
  BY <1>1 DEF Waits, SameExits
<1>3. Leaves(v, r.position, regime, now) <=> Leaves(w, s.position, regime, now)
  <2> DEFINE exits == ExitGate(regime, now)
  <2> HIDE DEF exits
  <2>1. /\ Leaves(v, r.position, regime, now) <=>
             /\ r.position.status # "EXITED"
             /\ \/ /\ v.hold # 0
                   /\ now - (IF r.position.status = "NONE" THEN now ELSE r.position.openedAt)
                        >= v.hold
                \/ ~v.passive /\ exits
        /\ Leaves(w, s.position, regime, now) <=>
             /\ s.position.status # "EXITED"
             /\ \/ /\ w.hold # 0
                   /\ now - (IF s.position.status = "NONE" THEN now ELSE s.position.openedAt)
                        >= w.hold
                \/ ~w.passive /\ exits
    BY DEF Leaves, exits
  <2> QED BY <1>1, <2>1 DEF SameExits
<1> DEFINE chosen(u, run) ==
             RowKind(u, run, AnchorBenchmarks(u, run.bench, row), regime, row, now)
<1>4. ASSUME NEW u \in Variants, u.stop = 0, u.trail = 0, NEW run, RunSound(u, run),
             NEW z, z = RunRow(u, run, regime, row, now)
      PROVE  /\ Waits(u, run.position, regime, now) =>
                  z.position = run.position /\ z.events = run.events
             /\ ~Waits(u, run.position, regime, now) =>
                  /\ z.position.openedAt = IF run.position.status = "NONE" THEN now
                                           ELSE run.position.openedAt
                  /\ z.position.status = IF Leaves(u, run.position, regime, now) THEN "EXITED"
                                         ELSE IF run.position.status = "NONE" THEN "ACTIVE"
                                         ELSE run.position.status
                  /\ ExitTimes(z.events) = ExitTimes(run.events)
                       \cup (IF Leaves(u, run.position, regime, now) THEN {now} ELSE {})
  <2> DEFINE benchmarks == AnchorBenchmarks(u, run.bench, row)
             kind == RowKind(u, run, benchmarks, regime, row, now)
  <2> HIDE DEF benchmarks, kind
  <2>1. /\ Waits(u, run.position, regime, now) =>
             z.position = run.position /\ z.events = run.events
        /\ ~Waits(u, run.position, regime, now) =>
             /\ z.position.openedAt = IF run.position.status = "NONE" THEN now
                                      ELSE run.position.openedAt
             /\ z.position.status = IF kind \in ExitKinds THEN "EXITED"
                                    ELSE IF run.position.status = "NONE" THEN "ACTIVE"
                                    ELSE run.position.status
             /\ kind \in Kinds \cup {"HOLD"}
             /\ z.events = Happened(run.events, now, kind)
             /\ kind \in ExitKinds <=> Leaves(u, run.position, regime, now)
    BY <1>4, RowEffect DEF benchmarks, kind
  <2>2. run.events \in Seq(Event)
    BY <1>4 DEF RunSound
  <2>3. ~Waits(u, run.position, regime, now) =>
          ExitTimes(z.events) = ExitTimes(run.events)
            \cup (IF kind \in ExitKinds THEN {now} ELSE {})
    BY <2>1, <2>2, TimesGrow
  <2> QED BY <2>1, <2>3
<1>5. CASE Waits(v, r.position, regime, now)
  <2>1. /\ x.position = r.position /\ x.events = r.events
        /\ y.position = s.position /\ y.events = s.events
    BY <1>1, <1>2, <1>4, <1>5
  <2> QED BY <2>1 DEF SameExits
<1>6. CASE ~Waits(v, r.position, regime, now)
  <2> DEFINE leaves == Leaves(v, r.position, regime, now)
  <2>1. /\ x.position.openedAt = IF r.position.status = "NONE" THEN now ELSE r.position.openedAt
        /\ x.position.status = IF leaves THEN "EXITED"
                               ELSE IF r.position.status = "NONE" THEN "ACTIVE"
                               ELSE r.position.status
        /\ ExitTimes(x.events) = ExitTimes(r.events) \cup (IF leaves THEN {now} ELSE {})
    BY <1>1, <1>4, <1>6
  <2>2. /\ y.position.openedAt = IF s.position.status = "NONE" THEN now ELSE s.position.openedAt
        /\ y.position.status = IF leaves THEN "EXITED"
                               ELSE IF s.position.status = "NONE" THEN "ACTIVE"
                               ELSE s.position.status
        /\ ExitTimes(y.events) = ExitTimes(s.events) \cup (IF leaves THEN {now} ELSE {})
    <3>1. ~Waits(w, s.position, regime, now)
      BY <1>2, <1>6
    <3>2. leaves <=> Leaves(w, s.position, regime, now)
      BY <1>3
    <3> HIDE DEF leaves
    <3> QED BY <1>1, <1>4, <3>1, <3>2
  <2> HIDE DEF leaves
  <2> QED BY <2>1, <2>2 DEF SameExits
<1> QED BY <1>5, <1>6

(* The launch guard delays no exit (launchGuard.ts:16-21): variants that   *)
(* differ in it alone exit on the same rows, unless a stop reads the NAV.  *)
THEOREM ReplayGuardDelaysNoExit == ASSUME ReplayAssumption PROVE Spec => []GuardDelaysNoExit
<1>1. Init => TwinsAgree
  BY DEF Init, TwinsAgree, SameExits
<1>2. ReplayInv /\ TwinsAgree /\ [Next]_vars => TwinsAgree'
  <2> SUFFICES ASSUME ReplayInv, TwinsAgree, [Next]_vars PROVE TwinsAgree'
    OBVIOUS
  <2>1. ASSUME NEW row \in Rows, Replayed(row) PROVE TwinsAgree'
    <3> SUFFICES ASSUME NEW v \in Variants, NEW w \in Variants, Twins(v, w)
                 PROVE  SameExits(runs'[v], runs'[w])
      BY DEF TwinsAgree
    <3>1. /\ runs'[v] = RunRow(v, runs[v], signals', row, played')
          /\ runs'[w] = RunRow(w, runs[w], signals', row, played')
          /\ played' \in Nat
      BY <2>1, ReplayedIsSound
    <3>2. RunSound(v, runs[v]) /\ RunSound(w, runs[w]) /\ SameExits(runs[v], runs[w])
      BY DEF ReplayInv, AllSound, TwinsAgree
    <3> QED BY <3>1, <3>2, TwinRow
  <2>2. CASE UNCHANGED vars
    BY <2>2 DEF vars, TwinsAgree
  <2> QED BY <2>1, <2>2 DEF Next
<1>3. TwinsAgree => GuardDelaysNoExit
  BY DEF TwinsAgree, GuardDelaysNoExit, Twins, SameExits, ExitTimes, Exits
<1> QED BY <1>1, <1>2, <1>3, ReplayInvHolds, PTL DEF Spec

-----------------------------------------------------------------------------
(* Benchmarks *)

BenchFields == {"base", "quote", "funds", "anchor", "fees"}

(* The row n of a run: whether it has drawn its benchmarks, and when.      *)
Drawn(v, run, n) ==
  /\ run.bench = NoBenchmarks \/ DOMAIN run.bench = BenchFields
  /\ run.bench # NoBenchmarks <=> IF v.anchored THEN n >= 1 ELSE run.position.status # "NONE"
  /\ run.position.status # "NONE" => run.position.openedAt \in 1..n

Credit(benchmarks, share, row) ==
  CreditFullRangeFees(IF benchmarks = NoBenchmarks THEN InitBenchmarks(row.bin, Funds, share)
                      ELSE benchmarks, row.bin, row.tvl, row.fees)

SeededIn(v, run) == IF v.anchored THEN Created ELSE run.position.openedAt

LEMMA CreditDraws ==
  ASSUME NEW benchmarks, benchmarks = NoBenchmarks \/ DOMAIN benchmarks = BenchFields,
         NEW share, NEW row, NEW credited, credited = Credit(benchmarks, share, row)
  PROVE  DOMAIN credited = BenchFields /\ credited # NoBenchmarks
<1> DEFINE drawn == IF benchmarks = NoBenchmarks THEN InitBenchmarks(row.bin, Funds, share)
                    ELSE benchmarks
<1>1. DOMAIN drawn = BenchFields
  BY DEF InitBenchmarks, BenchFields
<1>2. credited = CreditFullRangeFees(drawn, row.bin, row.tvl, row.fees)
  BY DEF Credit
<1> HIDE DEF drawn
<1>3. DOMAIN credited = BenchFields
  BY <1>1, <1>2 DEF CreditFullRangeFees
<1>4. DOMAIN NoBenchmarks = {"funds"}
  BY DEF NoBenchmarks
<1> QED BY <1>3, <1>4 DEF BenchFields

LEMMA BenchRow ==
  ASSUME ReplayAssumption, NEW v \in Variants, NEW row \in Rows, NEW n \in Nat,
         NEW now, now = n + 1, NEW regime,
         NEW r, RunSound(v, r), Drawn(v, r, n), NEW x, x = RunRow(v, r, regime, row, now)
  PROVE  /\ Drawn(v, x, now)
         /\ x.bench # NoBenchmarks =>
              /\ x.bench = Credit(r.bench, v.hodl, row)
              /\ SeededIn(v, x) = IF r.bench = NoBenchmarks THEN now ELSE SeededIn(v, r)
         /\ r.bench # NoBenchmarks => SeededIn(v, r) <= n /\ x.bench # NoBenchmarks
<1> DEFINE benchmarks == AnchorBenchmarks(v, r.bench, row)
           waits == Waits(v, r.position, regime, now)
           credited == Credit(r.bench, v.hodl, row)
<1>1. v.anchored \in BOOLEAN /\ now \in Nat /\ Created = 1
  BY DEF ReplayAssumption, Variant, Created
<1>2. /\ benchmarks = IF v.anchored THEN credited ELSE r.bench
      /\ Credited(v, benchmarks, row) = credited
  BY <1>1 DEF AnchorBenchmarks, Credited, Credit
<1>3. DOMAIN credited = BenchFields /\ credited # NoBenchmarks
  <2> HIDE DEF credited
  <2> QED BY CreditDraws DEF Drawn, credited
<1>4. /\ waits => /\ r.position.status = "NONE" /\ x.position = r.position
                  /\ x.bench = benchmarks
      /\ ~waits => /\ x.bench = Credited(v, benchmarks, row)
                   /\ x.position.openedAt = IF r.position.status = "NONE" THEN now
                                            ELSE r.position.openedAt
                   /\ x.position.status # "NONE"
  <2> DEFINE kind == RowKind(v, r, benchmarks, regime, row, now)
  <2> HIDE DEF benchmarks, waits, kind
  <2>1. /\ waits => /\ r.position.status = "NONE" /\ x.position = r.position
                    /\ x.bench = benchmarks
        /\ ~waits => /\ x.bench = Credited(v, benchmarks, row)
                     /\ x.position.openedAt = IF r.position.status = "NONE" THEN now
                                              ELSE r.position.openedAt
                     /\ x.position.status = IF kind \in ExitKinds THEN "EXITED"
                                            ELSE IF r.position.status = "NONE" THEN "ACTIVE"
                                            ELSE r.position.status
    BY <1>1, RowEffect DEF benchmarks, waits, kind
  <2> QED BY <2>1
<1> HIDE DEF benchmarks, waits, credited
<1>5. x.bench = IF v.anchored \/ ~waits THEN credited ELSE r.bench
  BY <1>2, <1>4
<1>6. /\ x.position.status # "NONE" <=> ~waits \/ r.position.status # "NONE"
      /\ x.position.status # "NONE" /\ r.position.status = "NONE" => x.position.openedAt = now
      /\ r.position.status # "NONE" => x.position.openedAt = r.position.openedAt
  BY <1>4
<1>7. Drawn(v, x, now)
  <2>1. x.bench = NoBenchmarks \/ DOMAIN x.bench = BenchFields
    BY <1>3, <1>5 DEF Drawn
  <2>2. x.bench # NoBenchmarks <=> IF v.anchored THEN now >= 1 ELSE x.position.status # "NONE"
    BY <1>1, <1>3, <1>4, <1>5, <1>6 DEF Drawn
  <2>3. x.position.status # "NONE" => x.position.openedAt \in 1..now
    <3>1. r.position.status # "NONE" => r.position.openedAt \in 1..now
      BY DEF Drawn
    <3> QED BY <1>1, <1>6, <3>1
  <2> QED BY <2>1, <2>2, <2>3 DEF Drawn
<1>8. ASSUME x.bench # NoBenchmarks
      PROVE  /\ x.bench = credited
             /\ SeededIn(v, x) = IF r.bench = NoBenchmarks THEN now ELSE SeededIn(v, r)
  <2>1. v.anchored \/ ~waits
    BY <1>4, <1>5, <1>8 DEF Drawn
  <2>2. CASE v.anchored
    BY <1>1, <1>5, <2>2 DEF SeededIn, Drawn
  <2>3. CASE ~v.anchored
    BY <1>5, <1>6, <2>1, <2>3 DEF SeededIn, Drawn
  <2> QED BY <2>2, <2>3, <1>5
<1>9. ASSUME r.bench # NoBenchmarks PROVE SeededIn(v, r) <= n /\ x.bench # NoBenchmarks
  <2>1. CASE v.anchored
    BY <1>1, <1>3, <1>5, <1>9, <2>1 DEF SeededIn, Drawn
  <2>2. CASE ~v.anchored
    BY <1>3, <1>5, <1>9, <2>2 DEF SeededIn, Drawn
  <2> QED BY <2>1, <2>2
<1> QED BY <1>7, <1>8, <1>9 DEF credited

AllDrawn == \A v \in Variants : Drawn(v, runs[v], played)

(* Two runs that drew their benchmarks from the same row agree on them for *)
(* good: each interval is credited once to both (benchmarkCredited).       *)
THEOREM ReplayBenchmarksAgree == ASSUME ReplayAssumption PROVE Spec => []BenchmarksAgree
<1>1. Init => AllDrawn /\ BenchmarksAgree
  BY DEF Init, AllDrawn, Drawn, BenchmarksAgree, NewRun, Unfunded
<1>2. ReplayInv /\ AllDrawn /\ BenchmarksAgree /\ [Next]_vars => (AllDrawn /\ BenchmarksAgree)'
  <2> SUFFICES ASSUME ReplayInv, AllDrawn, BenchmarksAgree, [Next]_vars
               PROVE  (AllDrawn /\ BenchmarksAgree)'
    OBVIOUS
  <2>1. ASSUME NEW row \in Rows, Replayed(row) PROVE (AllDrawn /\ BenchmarksAgree)'
    <3>1. ASSUME NEW v \in Variants
          PROVE  /\ Drawn(v, runs'[v], played')
                 /\ runs'[v].bench # NoBenchmarks =>
                      /\ runs'[v].bench = Credit(runs[v].bench, v.hodl, row)
                      /\ SeededIn(v, runs'[v]) = IF runs[v].bench = NoBenchmarks THEN played'
                                                 ELSE SeededIn(v, runs[v])
                 /\ runs[v].bench # NoBenchmarks =>
                      SeededIn(v, runs[v]) <= played /\ runs'[v].bench # NoBenchmarks
      <4>1. /\ runs'[v] = RunRow(v, runs[v], signals', row, played')
            /\ played' = played + 1 /\ played \in Nat
        BY <2>1, ReplayedIsSound DEF ReplayInv
      <4>2. RunSound(v, runs[v]) /\ Drawn(v, runs[v], played)
        BY DEF ReplayInv, AllSound, AllDrawn
      <4> QED BY <4>1, <4>2, BenchRow
    <3>2. played' = played + 1 /\ played \in Nat
      BY <2>1, ReplayedIsSound DEF ReplayInv
    <3>3. ASSUME NEW v \in Variants, NEW w \in Variants, v.hodl = w.hodl,
                 runs'[v].bench # NoBenchmarks, runs'[w].bench # NoBenchmarks,
                 SeededIn(v, runs'[v]) = SeededIn(w, runs'[w])
          PROVE  runs'[v].bench = runs'[w].bench
      <4>1. runs[v].bench = NoBenchmarks <=> runs[w].bench = NoBenchmarks
        BY <3>1, <3>2, <3>3
      <4>2. CASE runs[v].bench = NoBenchmarks
        BY <3>1, <3>3, <4>1, <4>2
      <4>3. CASE runs[v].bench # NoBenchmarks
        <5>1. SeededIn(v, runs[v]) = SeededIn(w, runs[w])
          BY <3>1, <3>3, <4>1, <4>3
        <5>2. runs[v].bench = runs[w].bench
          BY <3>3, <4>1, <4>3, <5>1 DEF BenchmarksAgree, SeededAt, SeededIn
        <5> QED BY <3>1, <3>3, <5>2
      <4> QED BY <4>2, <4>3
    <3> QED BY <3>1, <3>3 DEF AllDrawn, BenchmarksAgree, SeededAt, SeededIn
  <2>2. CASE UNCHANGED vars
    BY <2>2 DEF vars, AllDrawn, BenchmarksAgree, SeededAt
  <2> QED BY <2>1, <2>2 DEF Next
<1> QED BY <1>1, <1>2, ReplayInvHolds, PTL DEF Spec

-----------------------------------------------------------------------------
(* Filling an order from the lowest bin up *)

(* Bins for sale: what each holds, and what it charges above an average    *)
(* that the lower ones exceed the least.                                   *)
Shelf(S, cap, excess) ==
  /\ IsFiniteSet(S) /\ S \subseteq Int
  /\ \A b \in S : cap[b] \in Nat /\ excess[b] \in Int
  /\ \A b, c \in S : b <= c => excess[b] <= excess[c]

Earlier(S, b) == {c \in S : c < b}

Part(S, cap, order, b) == Min({cap[b], Positive(order - SumFunctionOnSet(cap, Earlier(S, b)))})

Parts(S, cap, order) == [b \in S |-> Part(S, cap, order, b)]

Bill(S, cap, excess, order) ==
  SumFunctionOnSet([b \in S |-> Part(S, cap, order, b) * excess[b]], S)

LEMMA Smaller ==
  ASSUME NEW x \in Int, NEW y \in Int
  PROVE  Min({x, y}) = IF x <= y THEN x ELSE y
<1>1. \A m \in {x, y} : (\A z \in {x, y} : m <= z) <=> m = IF x <= y THEN x ELSE y
  OBVIOUS
<1> QED BY <1>1 DEF Min

LEMMA EarlierSums ==
  ASSUME NEW S, NEW cap, NEW excess, Shelf(S, cap, excess), NEW b \in S
  PROVE  /\ IsFiniteSet(Earlier(S, b)) /\ Earlier(S, b) \in SUBSET S
         /\ SumFunctionOnSet(cap, Earlier(S, b)) \in Nat
<1>1. IsFiniteSet(Earlier(S, b)) /\ Earlier(S, b) \in SUBSET S
  BY FS_Subset DEF Earlier, Shelf
<1>2. \A c \in Earlier(S, b) : cap[c] \in Nat
  BY <1>1 DEF Shelf
<1> QED BY <1>1, <1>2, SumOfNats

LEMMA PartIs ==
  ASSUME NEW S, NEW cap, NEW excess, Shelf(S, cap, excess), NEW b \in S, NEW order \in Nat
  PROVE  LET sold == SumFunctionOnSet(cap, Earlier(S, b))
         IN  /\ Part(S, cap, order, b) \in 0..cap[b]
             /\ order <= sold => Part(S, cap, order, b) = 0
             /\ sold + cap[b] <= order => Part(S, cap, order, b) = cap[b]
             /\ sold <= order /\ order <= sold + cap[b] => Part(S, cap, order, b) = order - sold
<1> DEFINE sold == SumFunctionOnSet(cap, Earlier(S, b))
<1>1. sold \in Nat /\ cap[b] \in Nat
  BY EarlierSums DEF Shelf
<1>2. Part(S, cap, order, b) = Min({cap[b], Positive(order - sold)})
  BY DEF Part
<1> HIDE DEF sold
<1>3. Positive(order - sold) = IF order >= sold THEN order - sold ELSE 0
  BY <1>1, PositivePart
<1>4. Positive(order - sold) \in Nat
  BY <1>1, <1>3
<1>5. Part(S, cap, order, b) =
        IF cap[b] <= Positive(order - sold) THEN cap[b] ELSE Positive(order - sold)
  BY <1>1, <1>2, <1>4, Smaller
<1>6. /\ Part(S, cap, order, b) \in 0..cap[b]
      /\ order <= sold => Part(S, cap, order, b) = 0
      /\ sold + cap[b] <= order => Part(S, cap, order, b) = cap[b]
      /\ sold <= order /\ order <= sold + cap[b] => Part(S, cap, order, b) = order - sold
  BY <1>1, <1>3, <1>5
<1> QED BY <1>6 DEF sold

(* A bin and all that are lower come before any higher one.                *)
LEMMA EarlierEnds ==
  ASSUME NEW S, NEW cap, NEW excess, Shelf(S, cap, excess),
         NEW P \in SUBSET S, NEW b \in P, \A c \in S : c < b => c \in P
  PROVE  SumFunctionOnSet(cap, Earlier(S, b)) + cap[b] <= SumFunctionOnSet(cap, P)
<1>1. IsFiniteSet(P) /\ (\A c \in P : c \in Int /\ cap[c] \in Nat /\ cap[c] \in Int)
  <2>1. IsFiniteSet(P)
    BY FS_Subset DEF Shelf
  <2>2. \A c \in P : c \in Int /\ cap[c] \in Nat
    BY DEF Shelf
  <2> QED BY <2>1, <2>2
<1>2. SumFunctionOnSet(cap, P) = cap[b] + SumFunctionOnSet(cap, P \ {b})
  BY <1>1, SumWithout
<1>3. Earlier(S, b) \in SUBSET (P \ {b}) /\ IsFiniteSet(P \ {b})
  <2>1. P \ {b} \in SUBSET P
    OBVIOUS
  <2>2. IsFiniteSet(P \ {b})
    BY <1>1, <2>1, FS_Subset
  <2>3. \A c \in S : c < b => c \in P /\ c # b
    BY <1>1
  <2> QED BY <2>2, <2>3 DEF Earlier
<1>4. SumFunctionOnSet(cap, Earlier(S, b)) <= SumFunctionOnSet(cap, P \ {b})
  BY <1>1, <1>3, SumGrows
<1>5. SumFunctionOnSet(cap, P \ {b}) \in Nat
  BY <1>1, <1>3, SumOfNats
<1> QED BY <1>1, <1>2, <1>4, <1>5, EarlierSums

(* An order for all that the lower bins hold takes that, and nothing else. *)
LEMMA PrefixFills ==
  ASSUME NEW S, NEW cap, NEW excess, Shelf(S, cap, excess),
         NEW P \in SUBSET S, \A b \in P, c \in S : c < b => c \in P, NEW b \in S
  PROVE  Part(S, cap, SumFunctionOnSet(cap, P), b) = IF b \in P THEN cap[b] ELSE 0
<1> DEFINE order == SumFunctionOnSet(cap, P)
<1>1. IsFiniteSet(P) /\ (\A c \in P : cap[c] \in Nat)
  BY FS_Subset DEF Shelf
<1>2. order \in Nat
  BY <1>1, SumOfNats
<1>3. CASE b \in P
  <2>1. SumFunctionOnSet(cap, Earlier(S, b)) + cap[b] <= order
    BY <1>3, EarlierEnds
  <2> QED BY <1>2, <1>3, <2>1, PartIs
<1>4. CASE b \notin P
  <2>1. P \in SUBSET Earlier(S, b)
    <3> SUFFICES ASSUME NEW c \in P, ~(c < b) PROVE FALSE
      BY DEF Earlier
    <3>1. b < c
      BY <1>4 DEF Shelf
    <3> QED BY <1>4, <3>1
  <2>2. \A c \in Earlier(S, b) : cap[c] \in Nat
    BY EarlierSums DEF Shelf
  <2>3. order <= SumFunctionOnSet(cap, Earlier(S, b))
    BY <2>1, <2>2, EarlierSums, SumGrows
  <2> QED BY <1>2, <1>4, <2>3, PartIs
<1> QED BY <1>3, <1>4

(* An order takes no more than there is.                                   *)
LEMMA FillsAtMost ==
  ASSUME NEW S, NEW cap, NEW excess, Shelf(S, cap, excess), NEW order \in Nat
  PROVE  SumFunctionOnSet(Parts(S, cap, order), S) <= SumFunctionOnSet(cap, S)
<1>1. \A b \in S : /\ Parts(S, cap, order)[b] \in Int /\ cap[b] \in Int
                   /\ Parts(S, cap, order)[b] <= cap[b]
  <2> SUFFICES ASSUME NEW b \in S
               PROVE  Part(S, cap, order, b) \in Int /\ cap[b] \in Int
                      /\ Part(S, cap, order, b) <= cap[b]
    BY DEF Parts
  <2>1. Part(S, cap, order, b) \in 0..cap[b] /\ cap[b] \in Nat
    BY PartIs DEF Shelf
  <2> QED BY <2>1
<1> QED BY <1>1, SumIsMonotone DEF Shelf

LEMMA TimesGrows ==
  ASSUME NEW m \in Nat, NEW n \in Nat, m <= n, NEW k \in Nat
  PROVE  m * k <= n * k
<1>1. PICK d \in Nat : n = m + d
  <2>1. n - m \in Nat /\ n = m + (n - m)
    OBVIOUS
  <2> QED BY <2>1
<1>2. (m + d) * k = m * k + d * k
  OBVIOUS
<1>3. d * k \in Nat /\ m * k \in Nat
  OBVIOUS
<1> QED BY <1>1, <1>2, <1>3

(* A larger order pays no lower an average.                                *)
LEMMA MoreCostsMore ==
  ASSUME NEW S, NEW cap, NEW excess, Shelf(S, cap, excess),
         NEW q \in Nat, NEW r \in Nat, q <= r, Bill(S, cap, excess, r) <= 0
  PROVE  Bill(S, cap, excess, q) <= 0
<1> DEFINE sold(b) == SumFunctionOnSet(cap, Earlier(S, b))
           part(order, b) == Part(S, cap, order, b)
           bill(order) == [b \in S |-> part(order, b) * excess[b]]
<1>1. ASSUME NEW b \in S, NEW order \in Nat
      PROVE  /\ sold(b) \in Nat /\ cap[b] \in Nat /\ excess[b] \in Int
             /\ part(order, b) \in 0..cap[b]
             /\ order <= sold(b) => part(order, b) = 0
             /\ sold(b) + cap[b] <= order => part(order, b) = cap[b]
             /\ sold(b) <= order /\ order <= sold(b) + cap[b] => part(order, b) = order - sold(b)
  <2>1. cap[b] \in Nat /\ excess[b] \in Int
    BY DEF Shelf
  <2>2. sold(b) \in Nat
    BY EarlierSums
  <2>3. /\ part(order, b) \in 0..cap[b]
        /\ order <= sold(b) => part(order, b) = 0
        /\ sold(b) + cap[b] <= order => part(order, b) = cap[b]
        /\ sold(b) <= order /\ order <= sold(b) + cap[b] => part(order, b) = order - sold(b)
    BY PartIs
  <2> HIDE DEF sold, part
  <2> QED BY <2>1, <2>2, <2>3
<1>2. \A b \in S, order \in Nat : bill(order)[b] \in Int
  BY <1>1
<1>3. \A order \in Nat : Bill(S, cap, excess, order) = SumFunctionOnSet(bill(order), S)
  BY DEF Bill
<1>4. IsFiniteSet(S)
  BY DEF Shelf
<1> SUFFICES ASSUME ~(Bill(S, cap, excess, q) <= 0) PROVE FALSE
  OBVIOUS
<1>5. PICK a \in S : bill(q)[a] > 0
  <2> DEFINE none == [b \in S |-> 0]
  <2> SUFFICES ASSUME \A b \in S : bill(q)[b] <= 0 PROVE FALSE
    BY <1>2
  <2>1. \A b \in S : bill(q)[b] \in Int /\ none[b] \in Int /\ bill(q)[b] <= none[b]
    BY <1>2
  <2>2. SumFunctionOnSet(none, S) = 0
    BY <1>4, SumOfZeros
  <2> HIDE DEF none, bill
  <2> QED BY <1>3, <1>4, <2>1, <2>2, SumIsMonotone
<1> HIDE DEF sold, part
<1>6. excess[a] > 0 /\ sold(a) < q
  <2>1. part(q, a) * excess[a] > 0
    BY <1>5
  <2>2. \A m, n \in Int : m * n > 0 /\ m >= 0 => m > 0 /\ n > 0
    OBVIOUS
  <2>3. part(q, a) > 0 /\ excess[a] > 0
    BY <1>1, <2>1, <2>2
  <2> QED BY <1>1, <2>3
<1>7. ASSUME NEW b \in S PROVE bill(q)[b] <= bill(r)[b]
  <2>1. CASE b < a
    <3>1. b \in Earlier(S, a) /\ \A c \in S : c < b => c \in Earlier(S, a)
      BY <2>1 DEF Earlier, Shelf
    <3>2. sold(b) + cap[b] <= sold(a)
      BY <3>1, EarlierSums, EarlierEnds DEF sold
    <3>3. part(q, b) = cap[b] /\ part(r, b) = cap[b]
      BY <1>1, <1>6, <3>2
    <3> QED BY <1>1, <3>3
  <2>2. CASE ~(b < a)
    <3>1. excess[b] > 0
      <4>1. a <= b /\ excess[a] <= excess[b]
        BY <2>2 DEF Shelf
      <4> QED BY <1>1, <1>6, <4>1
    <3>2. part(q, b) \in Nat /\ part(r, b) \in Nat /\ part(q, b) <= part(r, b)
      BY <1>1
    <3>3. excess[b] \in Nat
      BY <1>1, <3>1
    <3>4. part(q, b) * excess[b] <= part(r, b) * excess[b]
      BY <3>2, <3>3, TimesGrows
    <3> QED BY <3>4
  <2> QED BY <2>1, <2>2
<1> HIDE DEF bill
<1>8. SumFunctionOnSet(bill(q), S) <= SumFunctionOnSet(bill(r), S)
  BY <1>2, <1>4, <1>7, SumIsMonotone
<1>9. SumFunctionOnSet(bill(q), S) \in Int /\ SumFunctionOnSet(bill(r), S) \in Int
  BY <1>2, <1>4, SumIsInt
<1> QED BY <1>3, <1>8, <1>9

-----------------------------------------------------------------------------
(* The bisection *)

LEMMA LeastNatural ==
  ASSUME NEW S \in SUBSET Nat, S # {}
  PROVE  \E x \in S : \A y \in S : x <= y
<1> DEFINE Before == {s \in Nat \X Nat : s[1] < s[2]}
<1>1. IsWellFoundedOn(Before, Nat)
  BY NatLessThanWellFounded DEF OpToRel
<1>2. \A x, y \in Nat : y < x => <<y, x>> \in Before
  OBVIOUS
<1> HIDE DEF Before
<1>3. PICK x \in S : \A y \in S : <<y, x>> \notin Before
  BY <1>1, WFMin
<1>4. x \in Nat /\ \A y \in S : y \in Nat /\ ~(y < x)
  BY <1>2, <1>3
<1>5. \A y \in S : x <= y
  BY <1>4
<1> QED BY <1>5

Spans(total) == [low : 0..total, high : 0..total]

Middle(span) == (span.low + span.high) \div 2

Searching(search, p, active, limit, total) ==
  search = [span \in Spans(total) |->
              IF span.high - span.low <= 1 THEN span.low
              ELSE IF WithinAverage(p, active, Middle(span), limit)
                   THEN search[[span EXCEPT !.low = Middle(span)]]
                   ELSE search[[span EXCEPT !.high = Middle(span)]]]

LEMMA BisectIsChosen ==
  ASSUME NEW p, NEW active, NEW limit, NEW total
  PROVE  Bisect(p, active, limit, total)
           = (CHOOSE search : Searching(search, p, active, limit, total))[[low |-> 0, high |-> total]]
BY DEF Bisect, Searching, Spans, Middle

(* Halving a span of two or more leaves two that are shorter.              *)
LEMMA Halves ==
  ASSUME NEW total \in Nat, NEW span \in Spans(total), ~(span.high - span.low <= 1)
  PROVE  /\ Middle(span) \in 0..total
         /\ span.low < Middle(span) /\ Middle(span) < span.high
         /\ [span EXCEPT !.low = Middle(span)] \in Spans(total)
         /\ [span EXCEPT !.high = Middle(span)] \in Spans(total)
         /\ [span EXCEPT !.low = Middle(span)].low = Middle(span)
         /\ [span EXCEPT !.low = Middle(span)].high = span.high
         /\ [span EXCEPT !.high = Middle(span)].low = span.low
         /\ [span EXCEPT !.high = Middle(span)].high = Middle(span)
<1>1. span.low \in 0..total /\ span.high \in 0..total
  BY DEF Spans
<1>2. \A l, h \in 0..total : ~(h - l <= 1) =>
        /\ (l + h) \div 2 \in 0..total /\ l < (l + h) \div 2 /\ (l + h) \div 2 < h
  OBVIOUS
<1>3. Middle(span) \in 0..total /\ span.low < Middle(span) /\ Middle(span) < span.high
  BY <1>1, <1>2 DEF Middle
<1> HIDE DEF Middle
<1> QED BY <1>3 DEF Spans

(* Where a bisection ends that turns at turn                               *)
Turned(total, turn) ==
  [span \in Spans(total) |->
     IF span.high - span.low <= 1 \/ turn <= span.low THEN span.low
     ELSE IF turn >= span.high THEN span.high - 1
     ELSE turn]

LEMMA SearchingExists ==
  ASSUME NEW p, NEW active, NEW limit, NEW total \in Nat, NEW turn \in Nat,
         \A x \in 0..total : WithinAverage(p, active, x, limit) <=> x <= turn
  PROVE  Searching(Turned(total, turn), p, active, limit, total)
<1> DEFINE found == Turned(total, turn)
<1>1. ASSUME NEW span \in Spans(total)
      PROVE  found[span] =
               IF span.high - span.low <= 1 \/ turn <= span.low THEN span.low
               ELSE IF turn >= span.high THEN span.high - 1
               ELSE turn
  BY DEF Turned
<1> DEFINE next(span) ==
             IF span.high - span.low <= 1 THEN span.low
             ELSE IF WithinAverage(p, active, Middle(span), limit)
                  THEN found[[span EXCEPT !.low = Middle(span)]]
                  ELSE found[[span EXCEPT !.high = Middle(span)]]
<1>2. ASSUME NEW span \in Spans(total) PROVE found[span] = next(span)
  <2>1. span.low \in Nat /\ span.high \in Nat
    BY DEF Spans
  <2>2. CASE span.high - span.low <= 1
    BY <1>1, <2>2
  <2>3. CASE ~(span.high - span.low <= 1)
    <3> DEFINE upper == [span EXCEPT !.low = Middle(span)]
               lower == [span EXCEPT !.high = Middle(span)]
               m == Middle(span)
    <3>1. /\ m \in 0..total /\ span.low < m /\ m < span.high
          /\ upper \in Spans(total) /\ lower \in Spans(total)
          /\ upper.low = m /\ upper.high = span.high
          /\ lower.low = span.low /\ lower.high = m
      BY <2>3, Halves
    <3>2. next(span) = IF m <= turn THEN found[upper] ELSE found[lower]
      BY <2>3, <3>1
    <3> HIDE DEF upper, lower, m, found, next
    <3>3. found[upper] = IF span.high - m <= 1 \/ turn <= m THEN m
                         ELSE IF turn >= span.high THEN span.high - 1 ELSE turn
      BY <1>1, <3>1
    <3>4. found[lower] = IF m - span.low <= 1 \/ turn <= span.low THEN span.low
                         ELSE IF turn >= m THEN m - 1 ELSE turn
      BY <1>1, <3>1
    <3>5. found[span] = IF turn <= span.low THEN span.low
                        ELSE IF turn >= span.high THEN span.high - 1 ELSE turn
      BY <1>1, <2>3
    <3> QED BY <2>1, <2>3, <3>1, <3>2, <3>3, <3>4, <3>5
  <2> QED BY <2>2, <2>3
<1>3. found = [span \in Spans(total) |-> found[span]]
  BY DEF Turned
<1> HIDE DEF found, next
<1>4. found = [span \in Spans(total) |-> next(span)]
  BY <1>2, <1>3
<1> QED BY <1>4 DEF found, next, Searching

(* The bisection finds where the limit is first exceeded.                  *)
LEMMA Bisected ==
  ASSUME NEW p, NEW active, NEW limit, NEW total \in Nat, NEW turn \in Nat, turn < total,
         \A x \in 0..total : WithinAverage(p, active, x, limit) <=> x <= turn
  PROVE  Bisect(p, active, limit, total) = turn
<1> DEFINE f == CHOOSE search : Searching(search, p, active, limit, total)
<1>1. Searching(f, p, active, limit, total)
  BY SearchingExists
<1> HIDE DEF f
<1>2. ASSUME NEW span \in Spans(total)
      PROVE  f[span] = IF span.high - span.low <= 1 THEN span.low
                       ELSE IF WithinAverage(p, active, Middle(span), limit)
                            THEN f[[span EXCEPT !.low = Middle(span)]]
                            ELSE f[[span EXCEPT !.high = Middle(span)]]
  BY <1>1 DEF Searching
<1> DEFINE Bad == {span \in Spans(total) :
                     span.low <= turn /\ turn < span.high /\ f[span] # turn}
           Lengths == {span.high - span.low : span \in Bad}
<1>3. Bad = {}
  <2> SUFFICES ASSUME Bad # {} PROVE FALSE
    OBVIOUS
  <2>1. Lengths \in SUBSET Nat /\ Lengths # {}
    BY DEF Spans
  <2>2. PICK n \in Lengths : \A k \in Lengths : n <= k
    <3> HIDE DEF Lengths
    <3> QED BY <2>1, LeastNatural
  <2>3. PICK span \in Bad : n = span.high - span.low
    BY <2>2
  <2>4. \A other \in Bad : span.high - span.low <= other.high - other.low
    BY <2>2, <2>3
  <2>5. /\ span \in Spans(total) /\ span.low \in Nat /\ span.high \in Nat
        /\ span.low <= turn /\ turn < span.high /\ f[span] # turn
    BY DEF Spans
  <2>6. ASSUME NEW other \in Spans(total), other.low <= turn, turn < other.high,
               other.high - other.low < span.high - span.low
        PROVE  f[other] = turn
    <3>1. other.low \in Nat /\ other.high \in Nat
      BY DEF Spans
    <3> QED BY <2>4, <2>5, <2>6, <3>1
  <2> HIDE DEF Bad, Lengths
  <2>7. CASE span.high - span.low <= 1
    <3>1. f[span] = span.low
      BY <1>2, <2>5, <2>7
    <3>2. turn = span.low
      BY <2>5, <2>7
    <3> QED BY <2>5, <3>1, <3>2
  <2>8. CASE ~(span.high - span.low <= 1)
    <3> DEFINE upper == [span EXCEPT !.low = Middle(span)]
               lower == [span EXCEPT !.high = Middle(span)]
               m == Middle(span)
    <3>1. /\ m \in 0..total /\ span.low < m /\ m < span.high
          /\ upper \in Spans(total) /\ lower \in Spans(total)
          /\ upper.low = m /\ upper.high = span.high
          /\ lower.low = span.low /\ lower.high = m
      BY <2>5, <2>8, Halves
    <3>2. f[span] = IF m <= turn THEN f[upper] ELSE f[lower]
      BY <1>2, <2>5, <2>8, <3>1
    <3> HIDE DEF upper, lower, m
    <3> QED BY <2>5, <2>6, <3>1, <3>2
  <2> QED BY <2>7, <2>8
<1> DEFINE all == [low |-> 0, high |-> total]
<1>4. all \in Spans(total) /\ all.low = 0 /\ all.high = total
  BY DEF Spans
<1>5. f[all] = turn
  <2> HIDE DEF all
  <2> QED BY <1>3, <1>4
<1>6. Bisect(p, active, limit, total) = f[all]
  BY BisectIsChosen DEF f
<1> QED BY <1>5, <1>6

-----------------------------------------------------------------------------
(* What buyers are promised *)

Worth(p) == [b \in DOMAIN p.bins |-> p.bins[b].base * Price[b]]

Charges(p, active, limit) == [b \in DOMAIN p.bins |-> Excess(p, active, b, limit)]

LEMMA Charged ==
  ASSUME ReplayAssumption, NEW p, p.upper \in DOMAIN Price, NEW active \in DOMAIN Price,
         NEW limit \in Nat, NEW b \in DOMAIN Price, b <= p.upper
  PROVE  /\ Excess(p, active, b, limit) \in Int
         /\ 100 * Price[b] <= (100 + limit) * Price[active] => Excess(p, active, b, limit) <= 0
         /\ \A c \in DOMAIN Price : b <= c /\ c <= p.upper =>
              Excess(p, active, b, limit) <= Excess(p, active, c, limit)
<1> DEFINE most == (100 + limit) * Price[active]
           highest == Price[p.upper]
<1>1. most \in Nat /\ highest \in Nat \ {0} /\ Price[b] \in Nat \ {0}
  BY Prices
<1>2. \A c \in DOMAIN Price : Excess(p, active, c, limit) = 100 * highest - most * (highest \div Price[c])
  BY DEF Excess
<1> HIDE DEF most, highest
<1>3. \A n \in Nat \ {0} : highest \div n \in Nat
  BY <1>1
<1>4. most * (highest \div Price[b]) \in Nat
  BY <1>1, <1>3
<1>5. Excess(p, active, b, limit) \in Int
  BY <1>1, <1>2, <1>4
<1>6. ASSUME 100 * Price[b] <= most PROVE Excess(p, active, b, limit) <= 0
  <2>1. highest % Price[b] = 0
    <3>1. b # p.upper => highest % Price[b] = 0
      BY Prices DEF ReplayAssumption, highest
    <3>2. b = p.upper => highest = Price[b]
      BY DEF highest
    <3>3. \A n \in Nat \ {0} : n % n = 0
      OBVIOUS
    <3> QED BY <1>1, <3>1, <3>2, <3>3
  <2> DEFINE k == highest \div Price[b]
  <2>2. k \in Nat /\ highest = Price[b] * k
    BY <1>1, <2>1
  <2> HIDE DEF k
  <2>3. (100 * Price[b]) * k <= most * k
    BY <1>1, <1>6, <2>2, TimesGrows
  <2>4. (100 * Price[b]) * k = 100 * highest
    BY <1>1, <2>2
  <2> QED BY <1>1, <1>2, <1>4, <2>3, <2>4 DEF k
<1>7. ASSUME NEW c \in DOMAIN Price, b <= c, c <= p.upper
      PROVE  Excess(p, active, b, limit) <= Excess(p, active, c, limit)
  <2>1. Price[b] <= Price[c] /\ Price[c] \in Nat \ {0}
    BY <1>7, Prices
  <2>2. \A m, n \in Nat \ {0} : m <= n => highest \div n <= highest \div m
    BY <1>1
  <2>3. highest \div Price[c] <= highest \div Price[b]
    BY <1>1, <2>1, <2>2
  <2>4. most * (highest \div Price[c]) <= most * (highest \div Price[b])
    <3>1. \A m, n, k \in Nat : m <= n => k * m <= k * n
      <4> SUFFICES ASSUME NEW m \in Nat, NEW n \in Nat, NEW k \in Nat, m <= n PROVE k * m <= k * n
        OBVIOUS
      <4>1. m * k <= n * k
        BY TimesGrows
      <4> QED BY <4>1
    <3> QED BY <1>1, <1>3, <2>1, <2>3, <3>1
  <2>5. most * (highest \div Price[c]) \in Nat
    BY <1>1, <1>3, <2>1
  <2> QED BY <1>1, <1>2, <1>4, <2>4, <2>5
<1> QED BY <1>5, <1>6, <1>7 DEF most

LEMMA Sold ==
  ASSUME ReplayAssumption, NEW v \in Variants, NEW p, Stocked(v, p),
         NEW active \in DOMAIN Price, NEW limit \in Nat
  PROVE  LET S == SellBins(p, active)
             cap == Worth(p)
             excess == Charges(p, active, limit)
         IN  /\ Shelf(S, cap, excess)
             /\ \A T \in SUBSET S : Capacity(p, T) = SumFunctionOnSet(cap, T)
             /\ \A order : Filled(p, active, order) = SumFunctionOnSet(Parts(S, cap, order), S)
             /\ \A order : WithinAverage(p, active, order, limit)
                             <=> Bill(S, cap, excess, order) <= 0
<1> DEFINE S == SellBins(p, active)
           cap == Worth(p)
           excess == Charges(p, active, limit)
<1>1. /\ p.lower \in Int /\ p.upper \in Int /\ p.upper \in DOMAIN Price
      /\ DOMAIN p.bins = p.lower..p.upper /\ p.lower..p.upper \subseteq DOMAIN Price
      /\ \A b \in DOMAIN p.bins : p.bins[b].base \in Nat
  BY Prices DEF Stocked, Laid, Bin
<1>2. /\ IsFiniteSet(S) /\ S \in SUBSET DOMAIN p.bins
      /\ \A b \in S : b \in Int /\ b \in DOMAIN Price /\ b <= p.upper
  <2>1. S \in SUBSET DOMAIN p.bins
    BY DEF SellBins
  <2>2. IsFiniteSet(S)
    BY <1>1, <2>1, RangeIsFinite, FS_Subset
  <2> HIDE DEF S
  <2> QED BY <1>1, <2>1, <2>2
<1>3. \A b \in S : cap[b] = p.bins[b].base * Price[b] /\ cap[b] \in Nat /\ cap[b] \in Int
  <2> SUFFICES ASSUME NEW b \in S PROVE cap[b] = p.bins[b].base * Price[b] /\ cap[b] \in Nat
    OBVIOUS
  <2>1. b \in DOMAIN p.bins /\ p.bins[b].base \in Nat /\ Price[b] \in Nat
    BY <1>1, <1>2, Prices
  <2>2. \A m, n \in Nat : m * n \in Nat
    OBVIOUS
  <2>3. cap[b] = p.bins[b].base * Price[b]
    BY <2>1 DEF Worth
  <2> QED BY <2>1, <2>2, <2>3
<1>4. \A b \in S : excess[b] = Excess(p, active, b, limit)
  BY <1>2 DEF Charges
<1> HIDE DEF S, cap, excess
<1>5. Shelf(S, cap, excess)
  <2>1. \A b \in S : excess[b] \in Int
    BY <1>1, <1>2, <1>4, Charged
  <2>2. \A b, c \in S : b <= c => excess[b] <= excess[c]
    BY <1>1, <1>2, <1>4, Charged
  <2> QED BY <1>2, <1>3, <2>1, <2>2 DEF Shelf
<1>6. ASSUME NEW T \in SUBSET S PROVE Capacity(p, T) = SumFunctionOnSet(cap, T)
  <2> DEFINE g == [b \in T |-> p.bins[b].base * Price[b]]
  <2>1. IsFiniteSet(T) /\ \A b \in T : cap[b] \in Int /\ g[b] = cap[b]
    BY <1>2, <1>3, FS_Subset
  <2>2. Capacity(p, T) = SumFunctionOnSet(g, T)
    BY DEF Capacity, SumFunction
  <2> HIDE DEF g
  <2> QED BY <2>1, <2>2, SumAgrees
<1>7. ASSUME NEW order, NEW b \in S PROVE Fill(p, active, order, b) = Part(S, cap, order, b)
  <2>1. Earlier(S, b) = {c \in SellBins(p, active) : c < b} /\ Earlier(S, b) \in SUBSET S
    BY DEF Earlier, S
  <2>2. Capacity(p, Earlier(S, b)) = SumFunctionOnSet(cap, Earlier(S, b))
    BY <1>6, <2>1
  <2> QED BY <1>3, <2>1, <2>2 DEF Fill, Part
<1>8. ASSUME NEW order PROVE Filled(p, active, order) = SumFunctionOnSet(Parts(S, cap, order), S)
  <2>1. [b \in S |-> Fill(p, active, order, b)] = Parts(S, cap, order)
    BY <1>7 DEF Parts
  <2>2. Filled(p, active, order) = SumFunctionOnSet([b \in S |-> Fill(p, active, order, b)], S)
    BY DEF Filled, SumFunction, S
  <2> QED BY <2>1, <2>2
<1>9. ASSUME NEW order
      PROVE  WithinAverage(p, active, order, limit) <=> Bill(S, cap, excess, order) <= 0
  <2> DEFINE paid == [b \in S |-> Fill(p, active, order, b) * Excess(p, active, b, limit)]
  <2>1. paid = [b \in S |-> Part(S, cap, order, b) * excess[b]]
    BY <1>4, <1>7
  <2>2. WithinAverage(p, active, order, limit) <=> SumFunctionOnSet(paid, S) <= 0
    BY DEF WithinAverage, SumFunction, S
  <2> HIDE DEF paid
  <2> QED BY <2>1, <2>2 DEF Bill
<1> QED BY <1>5, <1>6, <1>8, <1>9 DEF S, cap, excess

LEMMA PromisesHold ==
  ASSUME ReplayAssumption, NEW v \in Variants, NEW p, Stocked(v, p),
         NEW active \in DOMAIN Price, NEW limit \in Nat
  PROVE  LET depth == Depth(p, active, limit)
             most == AverageCapacity(p, active, limit)
         IN  /\ Filled(p, active, depth) = depth
             /\ WithinAverage(p, active, depth, limit)
             /\ depth <= most
             /\ WithinAverage(p, active, most, limit)
             /\ Filled(p, active, most + 1) = most + 1 =>
                  ~WithinAverage(p, active, most + 1, limit)
<1> DEFINE S == SellBins(p, active)
           cap == Worth(p)
           excess == Charges(p, active, limit)
           total == Capacity(p, S)
           depth == Depth(p, active, limit)
           most == AverageCapacity(p, active, limit)
           within(order) == WithinAverage(p, active, order, limit)
           P == {b \in S : 100 * Price[b] <= (100 + limit) * Price[active]}
<1>1. /\ Shelf(S, cap, excess)
      /\ \A T \in SUBSET S : Capacity(p, T) = SumFunctionOnSet(cap, T)
      /\ \A order : Filled(p, active, order) = SumFunctionOnSet(Parts(S, cap, order), S)
      /\ \A order : within(order) <=> Bill(S, cap, excess, order) <= 0
  BY Sold
<1>2. /\ p.upper \in DOMAIN Price
      /\ \A b \in S : /\ b \in DOMAIN Price /\ b \in Int /\ b <= p.upper
                      /\ excess[b] = Excess(p, active, b, limit)
  <2>1. /\ p.lower \in Int /\ p.upper \in Int /\ p.upper \in DOMAIN Price
        /\ DOMAIN p.bins = p.lower..p.upper /\ p.lower..p.upper \subseteq DOMAIN Price
    BY Prices DEF Stocked, Laid
  <2> QED BY <2>1 DEF SellBins, Charges
<1>3. P \in SUBSET S /\ \A b \in P, c \in S : c < b => c \in P
  <2> SUFFICES ASSUME NEW b \in P, NEW c \in S, c < b PROVE c \in P
    OBVIOUS
  <2>1. Price[c] <= Price[b] /\ Price[c] \in Nat /\ Price[b] \in Nat
    BY <1>2, Prices
  <2>2. (100 + limit) * Price[active] \in Nat
    BY Prices
  <2>3. 100 * Price[b] <= (100 + limit) * Price[active]
    OBVIOUS
  <2>4. 100 * Price[c] <= (100 + limit) * Price[active]
    BY <2>1, <2>2, <2>3
  <2> QED BY <2>4
<1>4. \A b \in P : excess[b] <= 0 /\ excess[b] \in Int /\ cap[b] \in Nat
  BY <1>1, <1>2, <1>3, Charged DEF Shelf
<1>5. depth = SumFunctionOnSet(cap, P)
  BY <1>1, <1>3 DEF Depth
<1>6. total = SumFunctionOnSet(cap, S)
  BY <1>1
<1>7. most = IF within(total) THEN total ELSE Bisect(p, active, limit, total)
  BY DEF AverageCapacity
<1> HIDE DEF S, cap, excess, total, depth, most, P
<1>8. IsFiniteSet(S) /\ (\A b \in S : cap[b] \in Nat /\ excess[b] \in Int) /\ total \in Nat
  BY <1>1, <1>6, SumOfNats DEF Shelf
<1>9. IsFiniteSet(P) /\ depth \in Nat /\ depth <= total
  <2>1. IsFiniteSet(P) /\ \A b \in P : cap[b] \in Nat
    BY <1>3, <1>8, FS_Subset
  <2> QED BY <1>3, <1>5, <1>6, <1>8, <2>1, SumOfNats, SumGrows
<1>10. \A b \in S : Part(S, cap, depth, b) = IF b \in P THEN cap[b] ELSE 0
  BY <1>1, <1>3, <1>5, PrefixFills
<1>11. Filled(p, active, depth) = depth
  <2>1. \A b \in S : /\ cap[b] \in Int
                     /\ Parts(S, cap, depth)[b] = IF b \in P THEN cap[b] ELSE 0
    BY <1>8, <1>10 DEF Parts
  <2>2. SumFunctionOnSet(Parts(S, cap, depth), S) = SumFunctionOnSet(cap, P)
    BY <1>3, <1>8, <2>1, SumOfPart
  <2> QED BY <1>1, <1>5, <2>2
<1>12. within(depth)
  <2> DEFINE bill == [b \in S |-> Part(S, cap, depth, b) * excess[b]]
             none == [b \in S |-> 0]
  <2>1. ASSUME NEW b \in S PROVE bill[b] \in Int /\ none[b] \in Int /\ bill[b] <= none[b]
    <3>1. \A m \in Nat, n \in Int : n <= 0 => m * n \in Int /\ m * n <= 0
      OBVIOUS
    <3>2. \A n \in Int : 0 * n = 0
      OBVIOUS
    <3> QED BY <1>4, <1>8, <1>10, <3>1, <3>2
  <2>2. SumFunctionOnSet(none, S) = 0
    BY <1>8, SumOfZeros
  <2>3. Bill(S, cap, excess, depth) = SumFunctionOnSet(bill, S)
    BY DEF Bill
  <2> HIDE DEF bill, none
  <2>4. SumFunctionOnSet(bill, S) <= 0
    BY <1>8, <2>1, <2>2, SumIsMonotone
  <2> QED BY <1>1, <2>3, <2>4
<1> HIDE DEF within
<1>13. \A q, r \in Nat : q <= r /\ within(r) => within(q)
  <2> SUFFICES ASSUME NEW q \in Nat, NEW r \in Nat, q <= r, within(r) PROVE within(q)
    OBVIOUS
  <2>1. Bill(S, cap, excess, r) <= 0
    BY <1>1
  <2>2. Bill(S, cap, excess, q) <= 0
    BY <1>1, <2>1, MoreCostsMore
  <2> QED BY <1>1, <2>2
<1>14. CASE within(total)
  <2>1. most = total
    BY <1>7, <1>14
  <2>2. Filled(p, active, most + 1) # most + 1
    <3>1. total + 1 \in Nat
      BY <1>8
    <3>2. Filled(p, active, total + 1) <= total
      BY <1>1, <1>6, <3>1, FillsAtMost
    <3> QED BY <1>8, <2>1, <3>2
  <2> QED BY <1>9, <1>11, <1>12, <1>14, <2>1, <2>2 DEF within, depth, most
<1>15. CASE ~within(total)
  <2> DEFINE Beyond == {x \in Nat : ~within(x)}
  <2>1. PICK x \in Beyond : \A y \in Beyond : x <= y
    <3>1. Beyond \in SUBSET Nat /\ Beyond # {}
      BY <1>8, <1>15
    <3> HIDE DEF Beyond
    <3> QED BY <3>1, LeastNatural
  <2>2. /\ x \in Nat /\ ~within(x) /\ x <= total
        /\ \A y \in Nat : ~within(y) => x <= y
    BY <1>8, <1>15, <2>1
  <2>3. depth < x
    BY <1>9, <1>12, <1>13, <2>2
  <2> DEFINE turn == x - 1
  <2>4. /\ turn \in Nat /\ turn < total /\ turn + 1 = x /\ depth <= turn
    BY <1>8, <1>9, <2>2, <2>3
  <2>5. \A y \in 0..total : within(y) <=> y <= turn
    <3> SUFFICES ASSUME NEW y \in 0..total PROVE within(y) <=> y <= turn
      OBVIOUS
    <3>1. y \in Nat
      OBVIOUS
    <3>2. x <= y => ~within(y)
      BY <1>13, <2>2, <3>1
    <3> QED BY <2>2, <3>1, <3>2
  <2> HIDE DEF turn
  <2>6. most = turn
    <3>1. Bisect(p, active, limit, total) = turn
      BY <1>8, <2>4, <2>5, Bisected DEF within
    <3> QED BY <1>7, <1>15, <3>1
  <2>7. within(most) /\ ~within(most + 1) /\ depth <= most
    <3>1. turn \in 0..total
      BY <1>8, <2>4
    <3> QED BY <2>2, <2>4, <2>5, <2>6, <3>1
  <2> QED BY <1>11, <1>12, <2>7 DEF within, depth, most
<1> QED BY <1>14, <1>15

(* Orders: what buyers are told they can buy is there for them.  From the  *)
(* bins of an active position alone: the depth is a lowest part of them, a *)
(* larger order pays no lower an average, and the bisection ends where the *)
(* average first exceeds its limit.                                        *)
THEOREM ReplayDepthIsHonest == ASSUME ReplayAssumption PROVE Spec => []DepthIsHonest
<1>1. ReplayInv => DepthIsHonest
  <2> SUFFICES ASSUME ReplayInv, NEW v \in Variants, NEW limit \in Limits,
                      runs[v].position.status = "ACTIVE"
               PROVE  LET p == runs[v].position
                          bin == runs[v].last
                          depth == Depth(p, bin, limit)
                          most == AverageCapacity(p, bin, limit)
                      IN  /\ Filled(p, bin, depth) = depth
                          /\ WithinAverage(p, bin, depth, limit)
                          /\ depth <= most
                          /\ WithinAverage(p, bin, most, limit)
                          /\ Filled(p, bin, most + 1) = most + 1 =>
                               ~WithinAverage(p, bin, most + 1, limit)
    BY DEF DepthIsHonest
  <2>1. RunSound(v, runs[v])
    BY DEF ReplayInv, AllSound
  <2>2. Stocked(v, runs[v].position) /\ runs[v].last \in DOMAIN Price
    BY <2>1 DEF RunSound, Sound
  <2>3. limit \in Nat
    BY DEF ReplayAssumption
  <2> HIDE DEF ReplayInv
  <2> QED BY <2>2, <2>3, PromisesHold
<1>2. Spec => []ReplayInv
  BY ReplayInvHolds
<1> QED BY <1>1, <1>2, PTL

=============================================================================
