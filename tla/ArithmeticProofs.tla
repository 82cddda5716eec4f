-------------------------- MODULE ArithmeticProofs --------------------------
(***************************************************************************)
(* What the arithmetic of the models computes, for all values: the curve   *)
(* and the slippage limits (CurveMath), and sums over finite sets (Sums).  *)
(* A fact about sums is proved by induction, on a smallest counterexample, *)
(* a natural number or a set, which the well-founded orderings of the      *)
(* library provide.                                                        *)
(***************************************************************************)
EXTENDS CurveMath, Sums, FiniteSetTheorems, WellFoundedInduction, TLAPS

\* Integer division rounds down.
LEMMA DivFloor ==
  ASSUME NEW a \in Nat, NEW b \in Nat, b > 0
  PROVE  /\ a \div b \in Nat
         /\ b * (a \div b) <= a
         /\ a < b * (a \div b) + b
  BY Z3

\* Dividing undoes multiplying.
LEMMA DivTimes ==
  ASSUME NEW a \in Nat, NEW b \in Nat, b > 0
  PROVE  (a * b) \div b = a
  BY Z3

\* Division by the same number keeps the order, and so does multiplication.
LEMMA DivMono ==
  ASSUME NEW a \in Nat, NEW b \in Nat, NEW d \in Nat, d > 0, a <= b
  PROVE  a \div d <= b \div d
  BY Z3

\* (as above)
LEMMA MulMono ==
  ASSUME NEW a \in Nat, NEW b \in Nat, NEW c \in Nat, a <= b
  PROVE  c * a <= c * b
  BY Z3

\* Products of naturals are naturals.
LEMMA MulNat ==
  ASSUME NEW a \in Nat, NEW b \in Nat
  PROVE  a * b \in Nat
  BY Z3

----------------------------------------------------------------------------
(* Swaps on the curve                                                      *)

\* A buy never empties the curve, and what it leaves, with what it paid, is
\* worth at least what was there: expected_tokens_for_sol rounds against the
\* buyer, as the program on the chain does.
THEOREM BuyKeepsProduct ==
  ASSUME NEW vs \in Nat, NEW vt \in Nat, NEW pay \in Nat, vs > 0, vt > 0, pay > 0
  PROVE  LET out == TokensForSol(vs, vt, pay) IN
         out \in Nat /\ out < vt /\ (vs + pay) * (vt - out) >= vs * vt
<1> DEFINE q == vt * pay  d == vs + pay  out == q \div d
<1>1. q \in Nat /\ d \in Nat /\ d > 0
  BY MulNat, Z3
<1>2. out \in Nat /\ d * out <= q
  <2> HIDE DEF q, d
  <2> QED BY <1>1, DivFloor DEF out
<1>3. d * vt = vs * vt + q
  BY Z3
<1>4. out < vt
  <2>1. SUFFICES ASSUME vt <= out PROVE FALSE
    BY <1>2, Z3
  <2>2. d * vt <= d * out
    BY <1>1, <1>2, <2>1, MulMono
  <2>3. vs * vt > 0
    BY Z3
  <2> QED BY <1>1, <1>2, <1>3, <2>2, <2>3, MulNat, Z3
<1>5. d * (vt - out) = d * vt - d * out
  <2> HIDE DEF q, d, out
  <2> QED BY <1>1, <1>2, Z3
<1>6. d * (vt - out) >= vs * vt
  <2> HIDE DEF d, out
  <2> QED BY <1>1, <1>2, <1>3, <1>5, MulNat, Z3
<1>7. TokensForSol(vs, vt, pay) = out
  BY Z3 DEF TokensForSol
<1> QED BY <1>2, <1>4, <1>6, <1>7

\* Buying and selling the same tokens at once gains nothing.
THEOREM RoundTripGainsNothing ==
  ASSUME NEW vs \in Nat, NEW vt \in Nat, NEW pay \in Nat, vs > 0, vt > 0, pay > 0
  PROVE  LET out == TokensForSol(vs, vt, pay)
         IN  SolForTokens(vs + pay, vt - out, out) <= pay
<1> DEFINE out == TokensForSol(vs, vt, pay)  d == vs + pay
<1>1. out \in Nat /\ out < vt
  BY BuyKeepsProduct
<1>2. CASE out = 0
  BY <1>2, Z3 DEF SolForTokens
<1>3. CASE out > 0
  <2>1. d * out <= vt * pay
    BY MulNat, DivFloor, Z3 DEF TokensForSol
  <2>2. d * out \in Nat /\ vt * pay \in Nat
    BY <1>1, MulNat, Z3
  <2>3. SolForTokens(d, vt - out, out) = (d * out) \div vt
    <3>1. (vt - out) + out = vt
      BY <1>1, Z3
    <3>2. ~ (d <= 0 \/ vt - out <= 0 \/ out <= 0)
      BY <1>1, <1>3, Z3
    <3> HIDE DEF out, d
    <3> QED BY <3>1, <3>2, Zenon DEF SolForTokens
  <2>4. (d * out) \div vt <= (vt * pay) \div vt
    <3> HIDE DEF out, d
    <3> QED BY <2>1, <2>2, DivMono
  <2>5. (vt * pay) \div vt = pay
    BY DivTimes, Z3
  <2> QED BY <2>3, <2>4, <2>5, <1>1, <2>2, DivFloor, Z3
<1> QED BY <1>1, <1>2, <1>3, Z3

\* The slippage floor asks for no more than is expected, and the ceiling of a
\* buy allows at least what is paid: an unmoved curve never rejects a swap.
THEOREM LimitsAdmitTheQuote ==
  ASSUME NEW n \in Nat, NEW bps \in Int
  PROVE  Floor(n, bps) <= n /\ MaxSol(n, bps) >= n
<1> DEFINE s == AtLeast0(bps)  k == AtLeast0(Bps - s)
<1>1. s \in Nat /\ k \in Nat /\ k <= 10000
  BY Z3 DEF AtLeast0, Bps
<1>2. Floor(n, bps) <= n
  <2>1. n * k <= n * 10000 /\ n * k \in Nat
    BY <1>1, MulMono, MulNat, Z3
  <2>2. (n * k) \div 10000 <= n
    <3> HIDE DEF k
    <3> QED BY <2>1, Z3
  <2> QED BY <2>2, Z3 DEF Floor, Bps
<1>3. MaxSol(n, bps) >= n
  <2>1. n * (10000 + s) = n * 10000 + n * s /\ n * s \in Nat
    <3> HIDE DEF s
    <3> QED BY <1>1, MulNat, Z3
  <2>2. (n * (10000 + s) + 10000 - 1) \div 10000 >= n
    <3> HIDE DEF s
    <3> QED BY <1>1, <2>1, Z3
  <2> QED BY <2>2, Z3 DEF MaxSol, Bps
<1> QED BY <1>2, <1>3

----------------------------------------------------------------------------
(* Smallest counterexamples                                                *)

(* A set of naturals has a least member.                                   *)
LEMMA LeastNumber ==
    ASSUME NEW T \in SUBSET Nat, T # {}
    PROVE  \E n \in T : \A m \in T : n <= m
<1>1. PICK n \in T : \A m \in T : ~ (<<m, n>> \in OpToRel(<, Nat))
    BY NatLessThanWellFounded, WFMin, Zenon
<1>2. ASSUME NEW m \in T PROVE n <= m
  <2>1. ~ (<<m, n>> \in OpToRel(<, Nat)) /\ <<m, n>> \in Nat \X Nat
      BY <1>1
  <2> QED
      BY <2>1 DEF OpToRel
<1> QED
    BY <1>2

(* A family of subsets of a finite set has a minimal member.               *)
LEMMA SmallestSubset ==
    ASSUME NEW S, IsFiniteSet(S), NEW F \in SUBSET (SUBSET S), F # {}
    PROVE  \E T \in F : \A U \in F : U \subseteq T => U = T
<1>1. IsWellFoundedOn(StrictSubsetOrdering(S), SUBSET S)
    BY FS_StrictSubsetOrderingWellFounded, FS_FiniteSubsetsOfFinite
<1>2. PICK T \in F : \A U \in F : ~ (<<U, T>> \in StrictSubsetOrdering(S))
    BY <1>1, WFMin, Zenon
<1>3. ASSUME NEW U \in F, U \subseteq T PROVE U = T
    BY <1>2, <1>3 DEF StrictSubsetOrdering
<1> QED
    BY <1>3

-----------------------------------------------------------------------------
(* The recursion                                                           *)

First(T) == CHOOSE y \in T : TRUE

(* g is the sum of f over the sets of D.                                   *)
IsSum(g, f, D) == g = [T \in D |-> IF T = {} THEN 0 ELSE f[First(T)] + g[T \ {First(T)}]]

(* The subsets of S with at most n elements.                               *)
UpTo(S, n) == {T \in SUBSET S : Cardinality(T) <= n}

LEMMA FirstOfSet == ASSUME NEW T, T # {} PROVE First(T) \in T
    BY DEF First

(* A set without its first element is a size smaller.                      *)
LEMMA Smaller ==
    ASSUME NEW S, IsFiniteSet(S), NEW T \in SUBSET S, T # {}
    PROVE  /\ T \ {First(T)} \in SUBSET S /\ Cardinality(T) \in Nat
           /\ Cardinality(T \ {First(T)}) = Cardinality(T) - 1
<1>1. IsFiniteSet(T)
    BY FS_Subset
<1> QED
    BY <1>1, FirstOfSet, FS_CardinalityType, FS_RemoveElement

(* A sum up to a size can be carried one size further.                     *)
LEMMA OneSizeFurther ==
    ASSUME NEW f, NEW S, IsFiniteSet(S), NEW n \in Nat, NEW g, IsSum(g, f, UpTo(S, n))
    PROVE  \E h : IsSum(h, f, UpTo(S, n + 1))
<1> DEFINE Rest(T) == T \ {First(T)}
           h == [T \in UpTo(S, n + 1) |-> IF T = {} THEN 0 ELSE f[First(T)] + g[Rest(T)]]
<1>1. ASSUME NEW T \in UpTo(S, n + 1), T # {} PROVE h[Rest(T)] = g[Rest(T)]
  <2>1. Rest(T) \in UpTo(S, n) /\ Rest(T) \in UpTo(S, n + 1)
      BY <1>1, Smaller DEF UpTo
  <2>2. g[Rest(T)] = IF Rest(T) = {} THEN 0 ELSE f[First(Rest(T))] + g[Rest(Rest(T))]
      BY <2>1 DEF IsSum
  <2>3. h[Rest(T)] = IF Rest(T) = {} THEN 0 ELSE f[First(Rest(T))] + g[Rest(Rest(T))]
      BY <2>1
  <2> QED
      BY <2>2, <2>3
<1>2. IsSum(h, f, UpTo(S, n + 1))
    BY <1>1 DEF IsSum
<1> QED
    BY <1>2

(* The recursion has a solution.                                           *)
LEMMA SumExists ==
    ASSUME NEW f, NEW S, IsFiniteSet(S)
    PROVE  \E g : IsSum(g, f, SUBSET S)
<1> DEFINE Short == {n \in Nat : ~ \E g : IsSum(g, f, UpTo(S, n))}
<1>1. 0 \notin Short
  <2> DEFINE g == [T \in UpTo(S, 0) |-> 0]
  <2>1. \A T \in UpTo(S, 0) : T = {}
    <3> TAKE T \in UpTo(S, 0)
    <3>1. T \in SUBSET S /\ Cardinality(T) <= 0
        BY DEF UpTo
    <3>2. IsFiniteSet(T)
        BY <3>1, FS_Subset
    <3> QED
        BY <3>1, <3>2, FS_CardinalityType, FS_EmptySet
  <2>2. IsSum(g, f, UpTo(S, 0))
      BY <2>1 DEF IsSum
  <2> QED
      BY <2>2
<1>2. Short = {}
  <2> SUFFICES ASSUME Short # {} PROVE FALSE
      OBVIOUS
  <2>1. PICK n \in Short : \A m \in Short : n <= m
      BY LeastNumber
  <2>2. n - 1 \in Nat /\ n - 1 \notin Short
      BY <1>1, <2>1
  <2>3. PICK g : IsSum(g, f, UpTo(S, n - 1))
      BY <2>2
  <2>4. \E h : IsSum(h, f, UpTo(S, (n - 1) + 1))
      BY <2>2, <2>3, OneSizeFurther
  <2>5. (n - 1) + 1 = n
      OBVIOUS
  <2> QED
      BY <2>1, <2>4, <2>5
<1>3. Cardinality(S) \in Nat /\ UpTo(S, Cardinality(S)) = SUBSET S
    BY FS_CardinalityType, FS_Subset DEF UpTo
<1>4. \E g : IsSum(g, f, UpTo(S, Cardinality(S)))
    BY <1>2, <1>3
<1> QED
    BY <1>3, <1>4

(* A sum is the value of a solution.                                       *)
LEMMA SumIs ==
    ASSUME NEW f, NEW S, IsFiniteSet(S)
    PROVE  \E g : IsSum(g, f, SUBSET S) /\ SumOver(f, S) = g[S]
<1> DEFINE g == CHOOSE h : IsSum(h, f, SUBSET S)
<1>1. IsSum(g, f, SUBSET S)
    BY SumExists
<1>2. SumOver(f, S) = g[S]
    BY DEF SumOver, IsSum, First
<1> QED
    BY <1>1, <1>2
(* One step of the recursion.                                              *)
LEMMA SumStep ==
    ASSUME NEW f, NEW S, NEW g, IsSum(g, f, SUBSET S), NEW T \in SUBSET S
    PROVE  /\ T = {} => g[T] = 0
           /\ T # {} => g[T] = f[First(T)] + g[T \ {First(T)}]
    BY DEF IsSum

(* The sum is a number of the kind the summands are.                       *)
LEMMA SumIsInt ==
    ASSUME NEW f, NEW S, IsFiniteSet(S), NEW g, IsSum(g, f, SUBSET S),
           NEW K \in {Int, Nat}, \A x \in S : f[x] \in K
    PROVE  \A T \in SUBSET S : g[T] \in K
<1> DEFINE Bad == {T \in SUBSET S : g[T] \notin K}
<1>1. ASSUME Bad # {} PROVE FALSE
  <2>1. PICK T \in Bad : \A U \in Bad : U \subseteq T => U = T
    <3>1. Bad \in SUBSET (SUBSET S)
        OBVIOUS
    <3> HIDE DEF Bad
    <3> QED
        BY <1>1, <3>1, SmallestSubset
  <2>2. T # {}
    <3>1. T \in SUBSET S /\ g[T] \notin K /\ 0 \in K
        BY <2>1
    <3> QED
        BY <3>1, SumStep
  <2> DEFINE x == First(T)  U == T \ {x}
  <2>3. x \in T /\ U \in SUBSET S /\ U \subseteq T /\ U # T
      BY <2>2, FirstOfSet
  <2>4. g[U] \in K /\ f[x] \in K
      BY <2>1, <2>3
  <2>5. g[T] = f[x] + g[U]
      BY <2>2, SumStep
  <2> QED
      BY <2>1, <2>4, <2>5
<1> QED
    BY <1>1

(* Any member may be taken off first.                                      *)
LEMMA SumTakes ==
    ASSUME NEW f, NEW S, IsFiniteSet(S), NEW g, IsSum(g, f, SUBSET S), \A x \in S : f[x] \in Int
    PROVE  \A T \in SUBSET S : \A x \in T : g[T] = f[x] + g[T \ {x}]
<1>1. \A T \in SUBSET S : g[T] \in Int
    BY SumIsInt
<1> DEFINE Bad == {T \in SUBSET S : \E x \in T : g[T] # f[x] + g[T \ {x}]}
<1>2. ASSUME Bad # {} PROVE FALSE
  <2>1. PICK T \in Bad : \A U \in Bad : U \subseteq T => U = T
    <3>1. Bad \in SUBSET (SUBSET S)
        OBVIOUS
    <3> HIDE DEF Bad
    <3> QED
        BY <1>2, <3>1, SmallestSubset
  <2>2. PICK x \in T : g[T] # f[x] + g[T \ {x}]
      BY <2>1
  <2> DEFINE y == First(T)  A == T \ {y}  B == T \ {x}  C == A \ {x}
  <2>3. T \in SUBSET S /\ y \in T
      BY <2>1, <2>2, FirstOfSet
  <2>4. g[T] = f[y] + g[A]
      BY <2>2, <2>3, SumStep
  <2>5. x # y /\ x \in A /\ y \in B /\ B \ {y} = C
      BY <2>2, <2>3, <2>4
  <2>6. A \notin Bad /\ B \notin Bad /\ {A, B, C} \subseteq SUBSET S
      BY <2>1, <2>3, <2>5
  <2>7. g[A] = f[x] + g[C] /\ g[B] = f[y] + g[C]
      BY <2>5, <2>6
  <2>8. f[x] \in Int /\ f[y] \in Int /\ g[C] \in Int
      BY <1>1, <2>3, <2>6
  <2>9. g[T] # f[x] + g[B]
      BY <2>2
  <2> HIDE DEF A, B, C
  <2> QED
      BY <2>4, <2>7, <2>8, <2>9
<1> QED
    BY <1>2

(* Larger summands have a larger sum.                                      *)
LEMMA SumGrows ==
    ASSUME NEW f, NEW h, NEW S, IsFiniteSet(S), NEW a, NEW b,
           IsSum(a, f, SUBSET S), IsSum(b, h, SUBSET S),
           \A x \in S : f[x] \in Int /\ h[x] \in Int
    PROVE  \A T \in SUBSET S : (\A x \in T : f[x] <= h[x]) => a[T] <= b[T]
<1>1. \A T \in SUBSET S : a[T] \in Int /\ b[T] \in Int
    BY SumIsInt
<1> DEFINE Bad == {T \in SUBSET S : (\A x \in T : f[x] <= h[x]) /\ ~ (a[T] <= b[T])}
<1>2. ASSUME Bad # {} PROVE FALSE
  <2>1. PICK T \in Bad : \A U \in Bad : U \subseteq T => U = T
    <3>1. Bad \in SUBSET (SUBSET S)
        OBVIOUS
    <3> HIDE DEF Bad
    <3> QED
        BY <1>2, <3>1, SmallestSubset
  <2>2. T # {}
    <3>1. T \in SUBSET S /\ ~ (a[T] <= b[T])
        BY <2>1
    <3>2. T = {} => a[T] = 0 /\ b[T] = 0
        BY <3>1, SumStep
    <3> QED
        BY <3>1, <3>2
  <2> DEFINE x == First(T)  U == T \ {x}
  <2>3. x \in T /\ U \in SUBSET S /\ U \subseteq T /\ U # T
      BY <2>2, FirstOfSet
  <2>4. a[U] <= b[U] /\ f[x] <= h[x]
      BY <2>1, <2>3
  <2>5. a[T] = f[x] + a[U] /\ b[T] = h[x] + b[U]
      BY <2>2, SumStep
  <2>6. /\ a[U] \in Int /\ b[U] \in Int /\ f[x] \in Int /\ h[x] \in Int
        /\ ~ (a[T] <= b[T])
      BY <1>1, <2>1, <2>3
  <2> HIDE DEF U, x
  <2> QED
      BY <2>4, <2>5, <2>6
<1> QED
    BY <1>2

-----------------------------------------------------------------------------
(* Sums                                                                    *)

(* A sum of integers is an integer, one of naturals a natural.             *)
LEMMA SumType ==
    ASSUME NEW f, NEW S, IsFiniteSet(S), NEW K \in {Int, Nat}, \A x \in S : f[x] \in K
    PROVE  SumOver(f, S) \in K
<1>1. PICK g : IsSum(g, f, SUBSET S) /\ SumOver(f, S) = g[S]
    BY SumIs
<1> QED
    BY <1>1, SumIsInt

(* A sum is monotone in its summands.                                      *)
LEMMA SumMonotone ==
    ASSUME NEW f, NEW h, NEW S, IsFiniteSet(S),
           \A x \in S : f[x] \in Int /\ h[x] \in Int /\ f[x] <= h[x]
    PROVE  SumOver(f, S) <= SumOver(h, S)
<1>1. PICK a : IsSum(a, f, SUBSET S) /\ SumOver(f, S) = a[S]
    BY SumIs
<1>2. PICK b : IsSum(b, h, SUBSET S) /\ SumOver(h, S) = b[S]
    BY SumIs
<1> QED
    BY <1>1, <1>2, SumGrows

(* Equal summands have equal sums.                                         *)
LEMMA SumSame ==
    ASSUME NEW f, NEW h, NEW S, IsFiniteSet(S), \A x \in S : f[x] \in Int /\ h[x] = f[x]
    PROVE  SumOver(f, S) = SumOver(h, S)
<1>1. SumOver(f, S) \in Int /\ SumOver(h, S) \in Int
    BY SumType
<1>2. SumOver(f, S) <= SumOver(h, S) /\ SumOver(h, S) <= SumOver(f, S)
    BY SumMonotone
<1> QED
    BY <1>1, <1>2

(* A sum changes by what one of its summands changes.                      *)
LEMMA SumChange ==
    ASSUME NEW f, NEW h, NEW S, IsFiniteSet(S), NEW k \in S,
           \A x \in S : f[x] \in Int /\ h[x] \in Int /\ (x # k => h[x] = f[x])
    PROVE  SumOver(h, S) = SumOver(f, S) + h[k] - f[k]
<1>1. PICK a : IsSum(a, f, SUBSET S) /\ SumOver(f, S) = a[S]
    BY SumIs
<1>2. PICK b : IsSum(b, h, SUBSET S) /\ SumOver(h, S) = b[S]
    BY SumIs
<1> DEFINE R == S \ {k}
<1>3. R \in SUBSET S /\ a[R] \in Int /\ b[R] \in Int
    BY <1>1, <1>2, SumIsInt
<1>4. a[R] <= b[R] /\ b[R] <= a[R]
  <2>1. \A x \in R : f[x] <= h[x] /\ h[x] <= f[x]
      OBVIOUS
  <2> QED
      BY <1>1, <1>2, <1>3, <2>1, SumGrows
<1>5. a[S] = f[k] + a[R] /\ b[S] = h[k] + b[R]
  <2>1. S \in SUBSET S /\ \A x \in S : f[x] \in Int /\ h[x] \in Int
      OBVIOUS
  <2>2. a[S] = f[k] + a[R]
      BY <1>1, <2>1, SumTakes
  <2>3. b[S] = h[k] + b[R]
      BY <1>2, <2>1, SumTakes
  <2> QED
      BY <2>2, <2>3
<1> HIDE DEF R
<1> QED
    BY <1>1, <1>2, <1>3, <1>4, <1>5

(* A summand is at most the sum of naturals.                               *)
LEMMA SumCovers ==
    ASSUME NEW f, NEW S, IsFiniteSet(S), NEW k \in S, \A x \in S : f[x] \in Nat
    PROVE  f[k] <= SumOver(f, S)
<1>1. PICK a : IsSum(a, f, SUBSET S) /\ SumOver(f, S) = a[S]
    BY SumIs
<1>2. a[S \ {k}] \in Nat
    BY <1>1, SumIsInt
<1>3. a[S] = f[k] + a[S \ {k}]
    BY <1>1, SumTakes
<1> QED
    BY <1>1, <1>2, <1>3

(* A sum of nothing but zeros is zero.                                     *)
LEMMA SumOfZeros ==
    ASSUME NEW f, NEW S, IsFiniteSet(S), \A x \in S : f[x] = 0
    PROVE  SumOver(f, S) = 0
<1>1. PICK g : IsSum(g, f, SUBSET S) /\ SumOver(f, S) = g[S]
    BY SumIs
<1> DEFINE Bad == {T \in SUBSET S : g[T] # 0}
<1>2. ASSUME Bad # {} PROVE FALSE
  <2>1. PICK T \in Bad : \A U \in Bad : U \subseteq T => U = T
    <3>1. Bad \in SUBSET (SUBSET S)
        OBVIOUS
    <3> HIDE DEF Bad
    <3> QED
        BY <1>2, <3>1, SmallestSubset
  <2>2. T # {}
    <3>1. T \in SUBSET S /\ g[T] # 0
        BY <2>1
    <3> QED
        BY <1>1, <3>1, SumStep
  <2> DEFINE x == First(T)  U == T \ {x}
  <2>3. x \in T /\ U \in SUBSET S /\ U \subseteq T /\ U # T
      BY <2>2, FirstOfSet
  <2>4. g[U] = 0 /\ f[x] = 0
      BY <2>1, <2>3
  <2>5. g[T] = f[x] + g[U]
      BY <1>1, <2>2, SumStep
  <2>6. g[T] # 0
      BY <2>1
  <2> HIDE DEF U, x
  <2> QED
      BY <2>4, <2>5, <2>6
<1> QED
    BY <1>1, <1>2
============================================================================
