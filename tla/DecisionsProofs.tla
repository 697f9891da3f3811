---------------------------- MODULE DecisionsProofs ----------------------------
(***************************************************************************)
(* The decisions, for any suppliers, products, lines, weights, companies   *)
(* and specifications, however many: whoever is recommended is complete    *)
(* and the best; a conflict with the request is never made good; a company *)
(* gets no second row; an item that two products are named like is asked   *)
(* about; no text is lost, and no measure.                                 *)
(*                                                                         *)
(* Scores are sums and minima over finite sets.  What holds of every       *)
(* finite set is proved by a least counterexample, and the sums of         *)
(* MapThenSumSet by the function they are defined with.                    *)
(***************************************************************************)
EXTENDS Decisions, FiniteSetTheorems, WellFoundedInduction, TLAPS

-----------------------------------------------------------------------------
(* Finite sets.  What is said of all of them is proved by a least              *)
(* counterexample: some set of naturals would have no least element.           *)

LEMMA LeastNatural ==
  ASSUME NEW S \in SUBSET Nat, S # {}
  PROVE  \E n \in S : \A m \in S : n <= m
<1>. DEFINE R == {ss \in Nat \X Nat : ss[1] < ss[2]}
<1>1. IsWellFoundedOn(R, Nat)
  BY NatLessThanWellFounded, Zenon DEF OpToRel
<1>2. PICK n \in S : \A m \in S : ~(<<m, n>> \in R)
  BY <1>1, WFMin, Zenon
<1>3. ASSUME NEW m \in S PROVE n <= m
  <2>1. m \in Nat /\ n \in Nat /\ ~(<<m, n>> \in R)
    BY <1>2
  <2>. QED
    BY <2>1
<1>. QED
  BY <1>3

\* Some element of a finite set has the greatest value of a function.
LEMMA GreatestExists ==
  ASSUME NEW T, IsFiniteSet(T), T # {}, NEW f \in [T -> Int]
  PROVE  \E x \in T : \A y \in T : f[y] <= f[x]
<1>. DEFINE Fails(S) == S # {} /\ \A x \in S : \E y \in S : ~(f[y] <= f[x])
            Sizes == {n \in Nat : \E S \in SUBSET T : Fails(S) /\ Cardinality(S) = n}
<1>. SUFFICES ASSUME Fails(T)
              PROVE  FALSE
  OBVIOUS
<1>1. Cardinality(T) \in Sizes
  BY FS_CardinalityType
<1>2. PICK n \in Sizes : \A m \in Sizes : n <= m
  <2>1. Sizes \in SUBSET Nat /\ Sizes # {}
    BY <1>1
  <2>. QED
    BY <2>1, LeastNatural, Zenon
<1>3. PICK S \in SUBSET T : Fails(S) /\ Cardinality(S) = n
  BY <1>2
<1>4. PICK x \in S : TRUE
  BY <1>3
<1>5. IsFiniteSet(S) /\ Cardinality(S) \in Nat
  BY FS_Subset, FS_CardinalityType
<1>6. Cardinality(S \ {x}) = n - 1 /\ Cardinality(S \ {x}) \in Nat
  BY <1>3, <1>4, <1>5, FS_RemoveElement, FS_CardinalityType
<1>7. ~Fails(S \ {x})
  <2>1. S \ {x} \in SUBSET T /\ n \in Nat
    BY <1>2
  <2>2. n - 1 \notin Sizes
    BY <1>2, <2>1
  <2>. QED
    BY <1>6, <2>1, <2>2
<1>8. CASE S \ {x} = {}
  <2>1. \A y \in S : y = x
    BY <1>8
  <2>. QED
    BY <1>3, <1>4, <2>1
<1>9. CASE S \ {x} # {}
  <2>1. PICK g \in S \ {x} : \A y \in S \ {x} : f[y] <= f[g]
    BY <1>7, <1>9
  <2>2. f[x] \in Int /\ f[g] \in Int /\ \A y \in S : f[y] \in Int
    BY <1>4, <2>1
  <2>3. CASE f[x] <= f[g]
    <3>1. \A y \in S : f[y] <= f[g]
      BY <2>1, <2>3
    <3>. QED
      BY <1>3, <2>1, <3>1
  <2>4. CASE ~(f[x] <= f[g])
    <3>1. \A y \in S : f[y] <= f[x]
      BY <2>1, <2>2, <2>4
    <3>. QED
      BY <1>3, <1>4, <3>1
  <2>. QED
    BY <2>3, <2>4
<1>. QED
  BY <1>8, <1>9

LEMMA LeastExists ==
  ASSUME NEW T, IsFiniteSet(T), T # {}, NEW f \in [T -> Int]
  PROVE  \E x \in T : \A y \in T : f[x] <= f[y]
<1>. DEFINE g == [x \in T |-> -f[x]]
<1>1. g \in [T -> Int]
  OBVIOUS
<1>2. PICK x \in T : \A y \in T : g[y] <= g[x]
  BY <1>1, GreatestExists, Zenon
<1>3. \A y \in T : f[x] \in Int /\ f[y] \in Int /\ -f[y] <= -f[x]
  BY <1>2
<1>. QED
  BY <1>3

LEMMA MaxIsGreatest ==
  ASSUME NEW S \in SUBSET Int, IsFiniteSet(S), S # {}
  PROVE  Max(S) \in S /\ \A y \in S : y <= Max(S)
<1>. DEFINE id == [x \in S |-> x]
<1>1. id \in [S -> Int]
  OBVIOUS
<1>2. \E x \in S : \A y \in S : id[y] <= id[x]
  BY <1>1, GreatestExists, Zenon
<1>3. \E x \in S : \A y \in S : x >= y
  BY <1>2
<1>4. Max(S) \in S /\ \A y \in S : Max(S) >= y
  BY <1>3, Zenon DEF Max
<1>. QED
  BY <1>4

LEMMA MinIsLeast ==
  ASSUME NEW S \in SUBSET Int, IsFiniteSet(S), S # {}
  PROVE  Min(S) \in S /\ \A y \in S : Min(S) <= y
<1>. DEFINE id == [x \in S |-> x]
<1>1. id \in [S -> Int]
  OBVIOUS
<1>2. \E x \in S : \A y \in S : id[x] <= id[y]
  BY <1>1, LeastExists, Zenon
<1>3. \E x \in S : \A y \in S : x =< y
  BY <1>2
<1>. QED
  BY <1>3, Zenon DEF Min

-----------------------------------------------------------------------------
(* Sums.  MapThenSumSet takes out one element after the other: h has the sum   *)
(* of f over every part of T.                                                  *)

Rest(s) == s \ {CHOOSE x \in s : TRUE}

IsSum(h, f, T) ==
  h = [s \in SUBSET T |-> IF s = {} THEN 0 ELSE f[CHOOSE x \in s : TRUE] + h[Rest(s)]]

\* A set without one of its elements is the smaller for it.
LEMMA OneLess ==
  ASSUME NEW T, IsFiniteSet(T), NEW s \in SUBSET T, NEW x \in s
  PROVE  /\ s \ {x} \in SUBSET T
         /\ Cardinality(s) \in Nat /\ Cardinality(s \ {x}) \in Nat
         /\ Cardinality(s \ {x}) = Cardinality(s) - 1
<1>1. IsFiniteSet(s) /\ Cardinality(s) \in Nat
  BY FS_Subset, FS_CardinalityType
<1>. QED
  BY <1>1, FS_RemoveElement, FS_CardinalityType

LEMMA SumExists ==
  ASSUME NEW T, IsFiniteSet(T), NEW f \in [T -> Int]
  PROVE  \E h : IsSum(h, f, T)
<1>. DEFINE Upto(n) == {s \in SUBSET T : Cardinality(s) <= n}
            Body(h, s) == IF s = {} THEN 0 ELSE f[CHOOSE x \in s : TRUE] + h[Rest(s)]
            Sums(h, n) == \A s \in Upto(n) : h[s] = Body(h, s)
            Found(n) == \E h : h = [s \in SUBSET T |-> h[s]] /\ Sums(h, n)
            Missed == {n \in Nat : ~Found(n)}
<1>1. Missed = {}
  <2>. SUFFICES ASSUME Missed # {}
                PROVE  FALSE
    OBVIOUS
  <2>1. PICK n \in Missed : n \in Nat /\ \A m \in Missed : n <= m
    <3>1. Missed \in SUBSET Nat
      OBVIOUS
    <3>. QED
      BY <3>1, LeastNatural, Zenon
  <2>2. n # 0
    <3>. DEFINE h == [s \in SUBSET T |-> 0]
    <3>1. ASSUME NEW s \in Upto(0) PROVE s = {}
      <4>1. IsFiniteSet(s) /\ Cardinality(s) \in Nat
        BY FS_Subset, FS_CardinalityType
      <4>2. Cardinality(s) = 0
        BY <4>1, <3>1
      <4>. QED
        BY <4>1, <4>2, FS_EmptySet
    <3>2. \A s \in Upto(0) : s \in SUBSET T /\ h[s] = 0
      OBVIOUS
    <3>3. Sums(h, 0)
      BY <3>1, <3>2
    <3>4. h = [s \in SUBSET T |-> h[s]]
      OBVIOUS
    <3>5. Found(0)
      <4>. HIDE DEF h, Sums
      <4>. QED
        BY <3>3, <3>4, Zenon
    <3>. HIDE DEF Found
    <3>. QED
      BY <3>5
  <2>3. n - 1 \in Nat /\ Found(n - 1)
    <3>. HIDE DEF Found
    <3>. QED
      BY <2>1, <2>2
  <2>4. PICK h : h = [s \in SUBSET T |-> h[s]] /\ Sums(h, n - 1)
    BY <2>3
  <2>. DEFINE k == [s \in SUBSET T |-> IF s \in Upto(n - 1) THEN h[s] ELSE Body(h, s)]
  <2>5. \A s \in SUBSET T : k[s] = IF s \in Upto(n - 1) THEN h[s] ELSE Body(h, s)
    OBVIOUS
  <2>6. ASSUME NEW s \in Upto(n) PROVE k[s] = Body(h, s)
    BY <2>4, <2>5, <2>6
  <2>7. ASSUME NEW s \in Upto(n) PROVE Body(k, s) = Body(h, s)
    <3>1. CASE s = {}
      BY <3>1
    <3>2. CASE s # {}
      <4>1. PICK x \in s : x = CHOOSE y \in s : TRUE
        BY <3>2
      <4>2. Rest(s) = s \ {x}
        BY <4>1 DEF Rest
      <4>3. Rest(s) \in Upto(n - 1)
        BY <4>2, <2>3, OneLess
      <4>. HIDE DEF k
      <4>4. k[Rest(s)] = h[Rest(s)]
        BY <2>5, <4>3
      <4>. QED
        BY <4>4
    <3>. QED
      BY <3>1, <3>2
  <2>8. Sums(k, n)
    BY <2>6, <2>7
  <2>9. k = [s \in SUBSET T |-> k[s]]
    OBVIOUS
  <2>10. Found(n)
    <3>. HIDE DEF k, Sums
    <3>. QED
      BY <2>8, <2>9, Zenon
  <2>. HIDE DEF Found
  <2>. QED
    BY <2>1, <2>10
<1>2. Cardinality(T) \in Nat
  BY FS_CardinalityType
<1>3. PICK h : h = [s \in SUBSET T |-> h[s]] /\ Sums(h, Cardinality(T))
  <2>1. Found(Cardinality(T))
    <3>. HIDE DEF Found
    <3>. QED
      BY <1>1, <1>2
  <2>. HIDE DEF Sums
  <2>. QED
    BY <2>1, Zenon
<1>4. \A s \in SUBSET T : s \in Upto(Cardinality(T))
  BY FS_Subset
<1>5. h = [s \in SUBSET T |-> Body(h, s)]
  BY <1>3, <1>4
<1>. QED
  BY <1>5 DEF IsSum

\* The sum of what is in V is in V.
LEMMA SumIsIn ==
  ASSUME NEW V, 0 \in V, \A u, v \in V : u + v \in V,
         NEW T, IsFiniteSet(T), NEW f \in [T -> V], NEW h, IsSum(h, f, T), NEW S \in SUBSET T
  PROVE  h[S] \in V
<1>. DEFINE Sizes == {n \in Nat : \E s \in SUBSET T : h[s] \notin V /\ Cardinality(s) = n}
<1>. SUFFICES ASSUME h[S] \notin V
              PROVE  FALSE
  OBVIOUS
<1>1. Cardinality(S) \in Sizes
  BY FS_Subset, FS_CardinalityType
<1>2. PICK n \in Sizes : n \in Nat /\ \A m \in Sizes : n <= m
  <2>1. Sizes \in SUBSET Nat /\ Sizes # {}
    BY <1>1
  <2>. QED
    BY <2>1, LeastNatural, Zenon
<1>3. PICK s \in SUBSET T : h[s] \notin V /\ Cardinality(s) = n
  BY <1>2
<1>4. h[s] = IF s = {} THEN 0 ELSE f[CHOOSE x \in s : TRUE] + h[Rest(s)]
  BY Zenon DEF IsSum
<1>5. s # {}
  BY <1>3, <1>4
<1>6. PICK x \in s : x = CHOOSE y \in s : TRUE
  BY <1>5
<1>7. Rest(s) = s \ {x} /\ h[s] = f[x] + h[s \ {x}] /\ f[x] \in V
  BY <1>4, <1>5, <1>6 DEF Rest
<1>8. h[s \ {x}] \notin V
  BY <1>3, <1>7
<1>9. /\ s \ {x} \in SUBSET T /\ Cardinality(s \ {x}) \in Nat
      /\ Cardinality(s \ {x}) < n
  BY <1>3, OneLess
<1>10. Cardinality(s \ {x}) \in Sizes
  BY <1>8, <1>9
<1>11. n <= Cardinality(s \ {x})
  BY <1>2, <1>10, Zenon
<1>. QED
  BY <1>2, <1>9, <1>11

LEMMA SumIsInt ==
  ASSUME NEW T, IsFiniteSet(T), NEW f \in [T -> Int], NEW h, IsSum(h, f, T), NEW S \in SUBSET T
  PROVE  h[S] \in Int
<1>1. 0 \in Int /\ \A u, v \in Int : u + v \in Int
  OBVIOUS
<1>. QED
  BY <1>1, SumIsIn, Zenon

LEMMA SumIsNat ==
  ASSUME NEW T, IsFiniteSet(T), NEW f \in [T -> Nat], NEW h, IsSum(h, f, T), NEW S \in SUBSET T
  PROVE  h[S] \in Nat
<1>1. 0 \in Nat /\ \A u, v \in Nat : u + v \in Nat
  OBVIOUS
<1>. QED
  BY <1>1, SumIsIn, Zenon

\* It is no matter which element is taken out.
LEMMA SumPeels ==
  ASSUME NEW T, IsFiniteSet(T), NEW f \in [T -> Int], NEW h, IsSum(h, f, T),
         NEW S \in SUBSET T, NEW y \in S
  PROVE  h[S] = f[y] + h[S \ {y}]
<1>. DEFINE Fails(s) == \E x \in s : h[s] # f[x] + h[s \ {x}]
            Sizes == {n \in Nat : \E s \in SUBSET T : Fails(s) /\ Cardinality(s) = n}
<1>. SUFFICES ASSUME Fails(S)
              PROVE  FALSE
  OBVIOUS
<1>1. Cardinality(S) \in Sizes
  BY FS_Subset, FS_CardinalityType
<1>2. PICK n \in Sizes : n \in Nat /\ \A m \in Sizes : n <= m
  <2>1. Sizes \in SUBSET Nat /\ Sizes # {}
    BY <1>1
  <2>. QED
    BY <2>1, LeastNatural, Zenon
<1>3. PICK s \in SUBSET T : Fails(s) /\ Cardinality(s) = n
  BY <1>2
<1>4. PICK x \in s : h[s] # f[x] + h[s \ {x}]
  BY <1>3
<1>5. PICK c \in s : c = CHOOSE z \in s : TRUE
  BY <1>4
<1>6. h[s] = f[c] + h[s \ {c}]
  <2>1. h[s] = IF s = {} THEN 0 ELSE f[CHOOSE z \in s : TRUE] + h[Rest(s)]
    BY Zenon DEF IsSum
  <2>2. s # {} /\ Rest(s) = s \ {c}
    BY <1>5 DEF Rest
  <2>. QED
    BY <1>5, <2>1, <2>2
<1>7. c # x
  BY <1>4, <1>6
<1>8. ASSUME NEW d \in s PROVE ~Fails(s \ {d})
  <2>1. /\ s \ {d} \in SUBSET T /\ Cardinality(s \ {d}) \in Nat
        /\ Cardinality(s \ {d}) < n
    BY <1>2, <1>3, OneLess
  <2>2. CASE Cardinality(s \ {d}) \in Sizes
    <3>1. n <= Cardinality(s \ {d})
      BY <1>2, <2>2, Zenon
    <3>. QED
      BY <1>2, <2>1, <3>1
  <2>3. CASE Cardinality(s \ {d}) \notin Sizes
    <3>. HIDE DEF Fails
    <3>. QED
      BY <2>1, <2>3
  <2>. QED
    BY <2>2, <2>3
<1>9. h[s \ {c}] = f[x] + h[(s \ {c}) \ {x}]
  BY <1>5, <1>7, <1>8
<1>10. h[s \ {x}] = f[c] + h[(s \ {x}) \ {c}]
  BY <1>4, <1>5, <1>7, <1>8
<1>11. (s \ {c}) \ {x} = (s \ {x}) \ {c}
  OBVIOUS
<1>12. f[x] \in Int /\ f[c] \in Int /\ h[(s \ {x}) \ {c}] \in Int
  <2>1. (s \ {x}) \ {c} \in SUBSET T
    OBVIOUS
  <2>. QED
    BY <2>1, SumIsInt
<1>13. h[s] = f[x] + h[s \ {x}]
  <2>1. PICK a, b, r : a = f[x] /\ b = f[c] /\ r = h[(s \ {x}) \ {c}]
    OBVIOUS
  <2>2. h[s] = b + (a + r) /\ h[s \ {x}] = b + r
    BY <1>6, <1>9, <1>10, <1>11, <2>1
  <2>. QED
    BY <1>12, <2>1, <2>2
<1>. QED
  BY <1>4, <1>13

LEMMA SumOfNone ==
  ASSUME NEW T, NEW f, NEW h, IsSum(h, f, T)
  PROVE  h[{}] = 0
<1>1. {} \in SUBSET T
  OBVIOUS
<1>. QED
  BY <1>1, Zenon DEF IsSum

\* Two sums, element for element.
LEMMA SumsCompare ==
  ASSUME NEW T, IsFiniteSet(T), NEW f \in [T -> Int], NEW h, IsSum(h, f, T),
         NEW U, IsFiniteSet(U), NEW g \in [U -> Int], NEW k, IsSum(k, g, U),
         NEW b \in [T -> U], \A x, y \in T : b[x] = b[y] => x = y,
         \A x \in T : f[x] <= g[b[x]],
         NEW S \in SUBSET T
  PROVE  h[S] <= k[{b[x] : x \in S}]
<1>. DEFINE Fails(s) == ~(h[s] <= k[{b[x] : x \in s}])
            Sizes == {n \in Nat : \E s \in SUBSET T : Fails(s) /\ Cardinality(s) = n}
<1>. SUFFICES ASSUME Fails(S)
              PROVE  FALSE
  OBVIOUS
<1>1. Cardinality(S) \in Sizes
  <2>1. Cardinality(S) \in Nat
    BY FS_Subset, FS_CardinalityType
  <2>. HIDE DEF Fails
  <2>. QED
    BY <2>1
<1>2. PICK n \in Sizes : n \in Nat /\ \A m \in Sizes : n <= m
  <2>1. Sizes \in SUBSET Nat /\ Sizes # {}
    BY <1>1
  <2>. QED
    BY <2>1, LeastNatural, Zenon
<1>3. PICK s \in SUBSET T : Fails(s) /\ Cardinality(s) = n
  <2>. HIDE DEF Fails
  <2>. QED
    BY <1>2
<1>. DEFINE Image(s_) == {b[x] : x \in s_}
<1>4. s # {}
  <2>1. CASE s = {}
    <3>1. Image(s) = {}
      BY <2>1
    <3>2. h[s] = 0 /\ k[Image(s)] = 0
      BY <2>1, <3>1, SumOfNone
    <3>. QED
      BY <1>3, <3>2
  <2>. QED
    BY <2>1
<1>5. PICK y \in s : TRUE
  BY <1>4
<1>6. /\ s \ {y} \in SUBSET T /\ Cardinality(s \ {y}) \in Nat
      /\ Cardinality(s \ {y}) < n
  BY <1>2, <1>3, OneLess
<1>7. h[s \ {y}] <= k[Image(s \ {y})]
  <2>1. CASE Cardinality(s \ {y}) \in Sizes
    <3>1. n <= Cardinality(s \ {y})
      BY <1>2, <2>1, Zenon
    <3>. QED
      BY <1>2, <1>6, <3>1
  <2>2. CASE Cardinality(s \ {y}) \notin Sizes
    <3>1. ~Fails(s \ {y})
      <4>. HIDE DEF Fails
      <4>. QED
        BY <1>6, <2>2
    <3>. QED
      BY <3>1
  <2>. QED
    BY <2>1, <2>2
<1>8. \A x \in T : b[x] \in U
  OBVIOUS
<1>9. Image(s) \in SUBSET U /\ b[y] \in Image(s)
  BY <1>5, <1>8
<1>10. Image(s \ {y}) = Image(s) \ {b[y]}
  BY <1>5
<1>. HIDE DEF Image
<1>. HIDE DEF Fails
<1>11. h[s] = f[y] + h[s \ {y}]
  <2>1. PICK z \in s : z = y
    BY <1>5
  <2>2. h[s] = f[z] + h[s \ {z}]
    BY SumPeels
  <2>. QED
    BY <2>1, <2>2
<1>12. k[Image(s)] = g[b[y]] + k[Image(s \ {y})]
  <2>1. PICK W \in SUBSET U : W = Image(s)
    BY <1>9
  <2>2. PICK z \in W : z = b[y]
    BY <1>9, <2>1
  <2>3. k[W] = g[z] + k[W \ {z}]
    BY <2>1, <2>2, SumPeels
  <2>. QED
    BY <1>10, <2>1, <2>2, <2>3
<1>13. /\ f[y] \in Int /\ g[b[y]] \in Int /\ f[y] <= g[b[y]]
       /\ h[s \ {y}] \in Int /\ k[Image(s \ {y})] \in Int
  <2>1. Image(s \ {y}) \in SUBSET U
    BY <1>9, <1>10
  <2>. QED
    BY <1>5, <1>6, <1>8, <2>1, SumIsInt
<1>14. h[s] <= k[Image(s)]
  <2>1. PICK p, q, u, v : /\ p = f[y] /\ q = g[b[y]]
                          /\ u = h[s \ {y}] /\ v = k[Image(s \ {y})]
    OBVIOUS
  <2>2. p \in Int /\ q \in Int /\ u \in Int /\ v \in Int /\ p <= q /\ u <= v
    BY <1>7, <1>13, <2>1
  <2>3. h[s] = p + u /\ k[Image(s)] = q + v
    BY <1>11, <1>12, <2>1
  <2>. QED
    BY <2>2, <2>3
<1>. QED
  BY <1>3, <1>14 DEF Image, Fails

-----------------------------------------------------------------------------
(* Which supplier a company is taken for *)

AnyCompany == Company(STRING, STRING, STRING, STRING)

LEMMA RatioBounds ==
  ASSUME NEW m \in Names \cup {None}, NEW n \in Names \cup {None}
  PROVE  Ratio(m, n) \in 0..1000
BY AlikeAssumption DEF Ratio

\* A score without an exact signal is not above the weight of a domain.
LEMMA ScoreBounds ==
  ASSUME NEW a \in AnyCompany, NEW b \in AnyCompany
  PROVE  /\ RawScore(a, b) \in Nat
         /\ Same(a.domain, b.domain) => RawScore(a, b) >= 12000
         /\ ~ExactIdentity(a, b) => RawScore(a, b) <= 12000
<1>. DEFINE L == NameScore(Ratio(a.legal, b.legal), 6)
            R == NameScore(Ratio(a.trade, b.trade), 5)
            D == IF Same(a.domain, b.domain) THEN 12000 ELSE 0
            E == IF a.emails \cap b.emails # {} THEN 7000 ELSE 0
            P == IF a.phones \cap b.phones # {} THEN 6000 ELSE 0
            C == IF Same(a.city, b.city) THEN 1000 ELSE 0
<1>1. /\ a.legal \in Names \cup {None} /\ b.legal \in Names \cup {None}
      /\ a.trade \in Names \cup {None} /\ b.trade \in Names \cup {None}
  BY DEF AnyCompany, Company
<1>3. L \in 0..6000 /\ R \in 0..5000
  <2>1. PICK l, r : l = Ratio(a.legal, b.legal) /\ r = Ratio(a.trade, b.trade)
    OBVIOUS
  <2>2. l \in 0..1000 /\ r \in 0..1000
    <3>. DEFINE names == Names \cup {None}
    <3>0. \A m, n \in names : Ratio(m, n) \in 0..1000
      BY RatioBounds
    <3>a. /\ a.legal \in names /\ b.legal \in names
          /\ a.trade \in names /\ b.trade \in names
      BY <1>1
    <3>. HIDE DEF names
    <3>1. Ratio(a.legal, b.legal) \in 0..1000
      BY <3>a, <3>0, Zenon
    <3>2. Ratio(a.trade, b.trade) \in 0..1000
      BY <3>a, <3>0, Zenon
    <3>. QED
      BY <2>1, <3>1, <3>2
  <2>3. L = (IF l >= 650 THEN l * 6 ELSE 0) /\ R = (IF r >= 650 THEN r * 5 ELSE 0)
    BY <2>1, Zenon DEF NameScore
  <2>. HIDE DEF L, R
  <2>. QED
    BY <2>2, <2>3
<1>4. RawScore(a, b) = D + E + P + L + R + C
  BY DEF RawScore, Weight
<1>5. D \in {0, 12000} /\ E \in {0, 7000} /\ P \in {0, 6000} /\ C \in {0, 1000}
  OBVIOUS
<1>6. Same(a.domain, b.domain) => D = 12000
  OBVIOUS
<1>7. ~ExactIdentity(a, b) => D = 0 /\ E = 0 /\ P = 0
  BY DEF ExactIdentity
<1>8. PICK l, r, d, e, p, c : /\ l = L /\ r = R /\ d = D /\ e = E /\ p = P /\ c = C
                              /\ RawScore(a, b) = d + e + p + l + r + c
  BY <1>4
<1>. HIDE DEF L, R, D, E, P, C
<1>9. /\ l \in Int /\ 0 <= l /\ l <= 6000 /\ r \in Int /\ 0 <= r /\ r <= 5000
      /\ c = 0 \/ c = 1000
      /\ d = 0 \/ d = 12000
      /\ e = 0 \/ e = 7000
      /\ p = 0 \/ p = 6000
  BY <1>3, <1>5, <1>8
<1>10. /\ d + e + p + l + r + c \in Nat
       /\ d = 12000 => d + e + p + l + r + c >= 12000
       /\ d = 0 /\ e = 0 /\ p = 0 => d + e + p + l + r + c <= 12000
  BY <1>9
<1>. QED
  BY <1>6, <1>7, <1>8, <1>10

\* Among finitely many suppliers there is a best one, and a first of the best.
LEMMA BestExists ==
  ASSUME NEW a \in AnyCompany, NEW suppliers, IsFiniteSet(suppliers),
         suppliers \subseteq SupplierRow, Known(a, suppliers) # {}
  PROVE  /\ Best(a, suppliers) # {}
         /\ \E s \in Best(a, suppliers) : \A t \in Best(a, suppliers) : s.no <= t.no
<1>. DEFINE known == Known(a, suppliers)
            best == Best(a, suppliers)
            score(s) == Bounded(RawScore(a, s.company))
            rank == [s \in known |-> 2 * score(s) + (IF ExactIdentity(a, s.company) THEN 1 ELSE 0)]
<1>1. known \subseteq suppliers /\ best \subseteq known
  BY DEF Known, Best
<1>2. IsFiniteSet(known) /\ IsFiniteSet(best) /\ known # {}
  BY <1>1, FS_Subset
<1>3. ASSUME NEW s \in known PROVE score(s) \in Nat
  <2>1. s.company \in AnyCompany
    BY <1>1, <1>3 DEF SupplierRow, AnyCompany
  <2>2. RawScore(a, s.company) \in Nat
    BY <2>1, ScoreBounds
  <2>. QED
    BY <2>2 DEF Bounded
<1>. HIDE DEF score
<1>4. rank \in [known -> Int]
  BY <1>3
<1>5. PICK x \in known : \A t \in known : rank[t] <= rank[x]
  <2>. HIDE DEF rank, known
  <2>. QED
    BY <1>2, <1>4, GreatestExists
<1>6. ASSUME NEW t \in known PROVE AtLeast(a, x.company, t.company)
  <2>1. rank[t] <= rank[x] /\ score(t) \in Nat /\ score(x) \in Nat
    BY <1>3, <1>5
  <2>2. \/ score(x) > score(t)
        \/ score(x) = score(t) /\ (ExactIdentity(a, t.company) => ExactIdentity(a, x.company))
    BY <2>1, <1>5
  <2>. QED
    BY <2>2, Zenon DEF AtLeast, score
<1>7. x \in best
  BY <1>5, <1>6, Zenon DEF Best
<1>. DEFINE no == [s \in best |-> s.no]
<1>8. no \in [best -> Int]
  BY <1>1 DEF SupplierRow
<1>9. PICK s \in best : \A t \in best : no[s] <= no[t]
  <2>. HIDE DEF no, best
  <2>. QED
    BY <1>2, <1>7, <1>8, LeastExists
<1>10. \A t \in best : s.no <= t.no
  BY <1>9
<1>. HIDE DEF best
<1>. QED
  BY <1>7, <1>9, <1>10 DEF best

\* A company with the domain of a supplier is taken for a supplier.
LEMMA DomainIsTaken ==
  ASSUME NEW a \in AnyCompany, NEW suppliers, IsFiniteSet(suppliers),
         suppliers \subseteq SupplierRow,
         NEW s \in suppliers, s.merged = None, Same(a.domain, s.company.domain)
  PROVE  TakenFor(a, suppliers) \in suppliers
<1>. DEFINE known == Known(a, suppliers)
            best == Best(a, suppliers)
            first == CHOOSE x \in best : \A t \in best : x.no <= t.no
<1>1. ExactIdentity(a, s.company)
  BY DEF ExactIdentity
<1>2. s \in known
  BY <1>1 DEF Known, HasSignals
<1>3. first \in best
  BY <1>2, BestExists, Zenon
<1>4. first \in known /\ AtLeast(a, first.company, s.company)
  BY <1>2, <1>3, Zenon DEF Best
<1>5. first \in suppliers
  BY <1>4, Zenon DEF Known
<1>6. s.company \in AnyCompany /\ first.company \in AnyCompany
  BY <1>5 DEF SupplierRow, AnyCompany
<1>. HIDE DEF first
<1>7. ExactIdentity(a, first.company)
  <2>. SUFFICES ASSUME ~ExactIdentity(a, first.company)
                PROVE  FALSE
    OBVIOUS
  <2>1. Bounded(RawScore(a, first.company)) > Bounded(RawScore(a, s.company))
    BY <1>1, <1>4, Zenon DEF AtLeast
  <2>2. RawScore(a, first.company) <= 12000 /\ RawScore(a, s.company) >= 12000
    BY <1>6, ScoreBounds
  <2>3. RawScore(a, first.company) \in Nat /\ RawScore(a, s.company) \in Nat
    BY <1>6, ScoreBounds
  <2>. QED
    BY <2>1, <2>2, <2>3 DEF Bounded
<1>8. DuplicateStatus(a, first.company) = "duplicate"
  BY <1>7 DEF DuplicateStatus
<1>9. TakenFor(a, suppliers) = first
  BY <1>3, <1>8, Zenon DEF TakenFor, first
<1>. QED
  BY <1>5, <1>9

-----------------------------------------------------------------------------
(* What a recommendation says of the lines it was made from *)

\* The recommended supplier is eligible, in a comparison that is ready.
LEMMA ChosenIsEligible ==
  ASSUME NEW x, NEW w, Recommendation(x, w).status = "ready"
  PROVE  x.status = "ready" /\ Recommendation(x, w).supplier \in Eligible(x, w)
<1>. DEFINE eligible == Eligible(x, w)
            best == {s \in eligible : \A t \in eligible : Score(x, s, w) >= Score(x, t, w)}
<1>1. x.status = "ready"
  BY Zenon DEF Recommendation
<1>2. /\ Cardinality(best) = 1
      /\ Recommendation(x, w).supplier = CHOOSE s \in best : TRUE
  BY <1>1, Zenon DEF Recommendation
<1>. HIDE DEF best
<1>3. best # {}
  BY <1>2, FS_EmptySet
<1>4. Recommendation(x, w).supplier \in best
  BY <1>2, <1>3
<1>. QED
  BY <1>1, <1>4 DEF best

\* What an eligible supplier offers of a product is a quote of the right quantity.
LEMMA EligibleIsQuoted ==
  ASSUME NEW x, NEW w, NEW s \in Eligible(x, w), NEW p \in Products
  PROVE  LET offer == x.items[p].offers[s] IN
         offer.status = "quoted" /\ offer.quantity = "matched" /\ offer.compliance # "non_compliant"
<1>1. ItemReasons(x.items[p], x.items[p].offers[s], w) = {}
  BY DEF Eligible, Reasons
<1>. QED
  BY <1>1, Zenon DEF ItemReasons

\* A quoted offer stands for the only line, and says of it what it is.
LEMMA QuotedIsTheLine ==
  ASSUME NEW lines, IsFiniteSet(lines), NEW s, NEW p,
         OfferOf(lines, s, p).status = "quoted",
         OfferOf(lines, s, p).quantity = "matched",
         OfferOf(lines, s, p).compliance # "non_compliant"
  PROVE  \E l \in lines :
           /\ l.line.supplier = s /\ l.line.product = p
           /\ l.line.quantity = Requested[p].value /\ l.line.unit = Requested[p].unit
           /\ l.line.compliance # "non_compliant"
<1>. DEFINE own == {l \in lines : l.line.supplier = s /\ l.line.product = p}
            chosen == CHOOSE l \in own : TRUE
<1>1. own # {}
  BY Zenon DEF OfferOf, EmptyOffer
<1>2. ~(Cardinality(own) > 1)
  BY <1>1, Zenon DEF OfferOf, EmptyOffer
<1>3. OfferOf(lines, s, p) = QuotedOffer(chosen.line, Requested[p])
  BY <1>1, <1>2, Zenon DEF OfferOf
<1>4. chosen \in own
  BY <1>1
<1>. HIDE DEF chosen
<1>5. /\ CompareQuantity(Requested[p], chosen.line) = "matched"
      /\ chosen.line.compliance # "non_compliant"
  BY <1>3 DEF QuotedOffer
<1>6. chosen.line.quantity = Requested[p].value /\ chosen.line.unit = Requested[p].unit
  BY <1>5, Zenon DEF CompareQuantity
<1>. QED
  BY <1>4, <1>5, <1>6

\* In a comparison that is ready every line has a product, and nobody has two
\* lines for one.
LEMMA ReadyIsUnambiguous ==
  ASSUME NEW lines, IsFiniteSet(lines), NEW quoting,
         Comparison(lines, quoting).status = "ready"
  PROVE  /\ \A l \in lines : l.line.product # None
         /\ \A k, l \in lines :
              /\ k.line.supplier = l.line.supplier /\ k.line.product = l.line.product
              /\ k.line.supplier \in Suppliers /\ k.line.product \in Products
              => k = l
<1>. DEFINE items == [p \in Products |-> BuildItem(lines, p)]
            global == GlobalWarnings(lines, quoting)
<1>1. /\ ~Critical(global)
      /\ \A p \in Products, s \in Suppliers : ~Critical(items[p].offers[s].warnings)
  BY Zenon DEF Comparison
<1>2. \A l \in lines : l.line.product # None
  <2>. SUFFICES ASSUME \E l \in lines : l.line.product = None
                PROVE  FALSE
    OBVIOUS
  <2>1. <<"critical", "product_unidentified">> \in global
    BY Zenon DEF GlobalWarnings
  <2>2. <<"critical", "product_unidentified">>[1] = "critical"
    OBVIOUS
  <2>. QED
    BY <1>1, <2>1, <2>2, Zenon DEF Critical
<1>3. ASSUME NEW k \in lines, NEW l \in lines, k # l,
             k.line.supplier = l.line.supplier, k.line.product = l.line.product,
             k.line.supplier \in Suppliers, k.line.product \in Products
      PROVE  FALSE
  <2>. DEFINE s == k.line.supplier
              p == k.line.product
              own == {m \in lines : m.line.supplier = s /\ m.line.product = p}
  <2>1. Cardinality(own) > 1
    <3>1. IsFiniteSet(own) /\ Cardinality(own) \in Nat
      BY FS_Subset, FS_CardinalityType
    <3>2. Cardinality(own) # 0 /\ Cardinality(own) # 1
      BY <1>3, <3>1, FS_EmptySet, FS_Singleton
    <3>. QED
      BY <3>1, <3>2
  <2>2. own # {}
    BY <1>3
  <2>3. OfferOf(lines, s, p) = EmptyOffer("invalid", {<<"critical", "duplicate_quote_item">>})
    BY <2>1, <2>2, Zenon DEF OfferOf
  <2>4. items[p].offers[s] = OfferOf(lines, s, p)
    BY <1>3, Zenon DEF BuildItem
  <2>5. Critical(items[p].offers[s].warnings)
    <3>. DEFINE warnings == {<<"critical", "duplicate_quote_item">>}
    <3>0. EmptyOffer("invalid", warnings).warnings = warnings
      BY DEF EmptyOffer
    <3>. HIDE DEF items
    <3>1. items[p].offers[s].warnings = {<<"critical", "duplicate_quote_item">>}
      BY <2>3, <2>4, <3>0
    <3>2. <<"critical", "duplicate_quote_item">>[1] = "critical"
      OBVIOUS
    <3>. QED
      BY <3>1, <3>2, Zenon DEF Critical
  <2>. QED
    BY <1>1, <1>3, <2>5, Zenon
<1>. QED
  BY <1>2, <1>3, Zenon

-----------------------------------------------------------------------------
(* The inductive invariant: of the input only that it has a topic, the lines *)
(* where a comparison is the topic, and what is requested and quoted where   *)
(* specifications are.                                                       *)

HasTopic == "topic" \in DOMAIN input

HasLines ==
  About("comparison") =>
    /\ {"lines", "quoting", "weights"} \subseteq DOMAIN input
    /\ input.weights \in Weights
    /\ IsFiniteSet(input.lines)
    /\ \A l \in input.lines : l.line \in Lines

HasSpecifications ==
  About("specifications") => {"requested", "quoted"} \subseteq DOMAIN input

IInv == HasTopic /\ HasLines /\ HasSpecifications

SuppliersMove ==
  \/ \E c \in Companies : Suggest(c)
  \/ StoreContacts
  \/ \E s, t \in input.suppliers : MergeInto(s, t)

\* No step changes the topic, or the fields the input has.
LEMMA TopicStays ==
  ASSUME HasTopic, Next
  PROVE  /\ DOMAIN input' = DOMAIN input
         /\ input'.topic = input.topic
         /\ About("comparison") => \E l \in Lines : AddLine(l)
         /\ About("specifications") =>
              \E k \in Keys, v \in Values : AddSpecification(k, v)
         /\ About("matching") => \E p \in CatalogLines : AddProduct(p)
         /\ About("suppliers") => SuppliersMove
<1>1. ASSUME NEW l \in Lines, AddLine(l)
      PROVE  DOMAIN input' = DOMAIN input /\ input'.topic = input.topic
  BY <1>1, Zenon DEF AddLine, HasTopic
<1>2. ASSUME NEW p \in CatalogLines, AddProduct(p)
      PROVE  DOMAIN input' = DOMAIN input /\ input'.topic = input.topic
  BY <1>2, Zenon DEF AddProduct, HasTopic
<1>3. ASSUME NEW k \in Keys, NEW v \in Values, AddSpecification(k, v)
      PROVE  DOMAIN input' = DOMAIN input /\ input'.topic = input.topic
  BY <1>3, Zenon DEF AddSpecification, HasTopic
<1>4. ASSUME Normalize
      PROVE  DOMAIN input' = DOMAIN input /\ input'.topic = input.topic
  BY <1>4, Zenon DEF Normalize, HasTopic
<1>5. ASSUME NEW x \in {"primary", "fallback"}, NEW n \in 1..MaxPages, NEW c \in Lengths,
             AddText(x, n, c)
      PROVE  DOMAIN input' = DOMAIN input /\ input'.topic = input.topic
  BY <1>5, Zenon DEF AddText, HasTopic
<1>6. ASSUME NEW c \in Companies, Suggest(c)
      PROVE  DOMAIN input' = DOMAIN input /\ input'.topic = input.topic
  BY <1>6, Zenon DEF Suggest, HasTopic
<1>7. ASSUME StoreContacts
      PROVE  DOMAIN input' = DOMAIN input /\ input'.topic = input.topic
  BY <1>7, Zenon DEF StoreContacts, HasTopic
<1>8. ASSUME NEW s \in input.suppliers, NEW t \in input.suppliers, MergeInto(s, t)
      PROVE  DOMAIN input' = DOMAIN input /\ input'.topic = input.topic
  BY <1>8, Zenon DEF MergeInto, HasTopic
<1>. QED
  BY <1>1, <1>2, <1>3, <1>4, <1>5, <1>6, <1>7, <1>8, Zenon DEF Next, About, SuppliersMove

\* One more specification leaves a conflict among the others.
LEMMA ConflictIsLeft ==
  ASSUME NEW requested, NEW quoted, NEW more,
         DOMAIN quoted \subseteq DOMAIN more,
         \A k \in DOMAIN quoted : more[k] = quoted[k],
         ComplianceOf(requested, quoted) = "non_compliant"
  PROVE  ComplianceOf(requested, more) = "non_compliant"
<1>1. PICK k \in DOMAIN requested \cap DOMAIN quoted : requested[k] # quoted[k]
  BY DEF ComplianceOf
<1>. QED
  BY <1>1 DEF ComplianceOf

LEMMA Inductive == Spec => []IInv
<1>1. Init => IInv
  <2>. SUFFICES ASSUME Init
                PROVE  IInv
    OBVIOUS
  <2>1. CASE input \in [topic : {"comparison"}, lines : {{}}, quoting : SUBSET Suppliers,
                        weights : Weights]
    BY <2>1, FS_EmptySet DEF IInv, HasTopic, HasLines, HasSpecifications, About
  <2>2. CASE input \in [topic : {"specifications"}, requested : Specifications,
                        quoted : {<< >>}]
    BY <2>2 DEF IInv, HasTopic, HasLines, HasSpecifications, About
  <2>3. CASE input.topic \notin {"comparison", "specifications"} /\ "topic" \in DOMAIN input
    BY <2>3 DEF IInv, HasTopic, HasLines, HasSpecifications, About
  <2>4. CASE \/ input \in [topic : {"matching"}, item : Items, products : {{}}]
             \/ input \in [topic : {"units"}, amount : Amounts, unit : Units]
    BY <2>3, <2>4
  <2>5. CASE input \in [topic : {"documents"}, primary : Blank \cup {None},
                        fallback : Blank \cup {None}]
    BY <2>3, <2>5
  <2>6. CASE input = [topic |-> "suppliers", suppliers |-> {}, unstored |-> {}]
    BY <2>3, <2>6
  <2>. QED
    BY <2>1, <2>2, <2>4, <2>5, <2>6 DEF Init
<1>2. IInv /\ [Next]_input => IInv'
  <2>. SUFFICES ASSUME IInv, [Next]_input
                PROVE  IInv'
    OBVIOUS
  <2>1. CASE UNCHANGED input
    BY <2>1 DEF IInv, HasTopic, HasLines, HasSpecifications, About
  <2>2. CASE Next
    <3>1. HasTopic' /\ HasSpecifications'
      BY <2>2, TopicStays DEF IInv, HasTopic, HasSpecifications, About
    <3>2. HasLines'
      <4>. SUFFICES ASSUME About("comparison")
                    PROVE  /\ {"lines", "quoting", "weights"} \subseteq DOMAIN input'
                           /\ input'.weights \in Weights
                           /\ IsFiniteSet(input'.lines)
                           /\ \A l \in input'.lines : l.line \in Lines
        BY <2>2, TopicStays DEF IInv, HasLines, About
      <4>1. {"lines", "quoting", "weights"} \subseteq DOMAIN input'
        BY <2>2, TopicStays DEF IInv, HasLines
      <4>2. PICK l \in Lines : AddLine(l)
        BY <2>2, TopicStays DEF IInv
      <4>3. PICK no : input'.lines = input.lines \cup {[no |-> no, line |-> l]}
        BY <4>2, Zenon DEF AddLine, IInv, HasLines
      <4>4. IsFiniteSet(input'.lines)
        <5>1. PICK old : old = input.lines
          OBVIOUS
        <5>2. IsFiniteSet(old \cup {[no |-> no, line |-> l]})
          BY <5>1, FS_AddElement DEF IInv, HasLines
        <5>. QED
          BY <4>3, <5>1, <5>2
      <4>5. \A m \in input'.lines : m.line \in Lines
        BY <4>3 DEF IInv, HasLines
      <4>6. input'.weights = input.weights
        BY <4>2, Zenon DEF AddLine, IInv, HasLines
      <4>7. input'.weights \in Weights
        BY <4>6, Zenon DEF IInv, HasLines
      <4>. QED
        BY <4>1, <4>4, <4>5, <4>7
    <3>. QED
      BY <3>1, <3>2 DEF IInv
  <2>. QED
    BY <2>1, <2>2
<1>. QED
  BY <1>1, <1>2, PTL DEF Spec

-----------------------------------------------------------------------------
(* The theorems *)

\* Whoever is recommended has quoted every requested product, in the quantity and
\* the unit that were asked for and not against the specifications, and nobody's
\* line is unidentified or contradicted by a second one: whatever the lines, the
\* participants and the weights.
THEOREM RecommendedAreComplete == Spec => []RecommendedIsComplete
<1>1. IInv => RecommendedIsComplete
  <2>. SUFFICES ASSUME IInv, About("comparison"), Recommended.status = "ready"
                PROVE  /\ \A l \in input.lines : l.line.product # None
                       /\ \A k, l \in input.lines :
                            /\ k.line.supplier = l.line.supplier
                            /\ k.line.product = l.line.product
                            => k = l
                       /\ \A p \in Products : \E l \in LinesOf(Recommended.supplier, p) :
                            /\ l.quantity = Requested[p].value /\ l.unit = Requested[p].unit
                            /\ l.compliance # "non_compliant"
    BY DEF RecommendedIsComplete
  <2>1. PICK lines, quoting, w :
          lines = input.lines /\ quoting = input.quoting /\ w = input.weights
    OBVIOUS
  <2>2. PICK x : x = Comparison(lines, quoting)
    OBVIOUS
  <2>3. Recommended = Recommendation(x, w)
    BY <2>1, <2>2, Zenon DEF Recommended, Compared
  <2>4. PICK s : s = Recommended.supplier
    OBVIOUS
  <2>5. x.status = "ready" /\ s \in Eligible(x, w)
    BY <2>3, <2>4, ChosenIsEligible, Zenon
  <2>6. IsFiniteSet(lines) /\ \A l \in lines : l.line \in Lines
    BY <2>1 DEF IInv, HasLines
  <2>7. \A l \in lines : l.line.supplier \in Suppliers /\ l.line.product \in Products \cup {None}
    BY <2>6, InputsAssumption DEF LineTypes
  <2>8. /\ \A l \in lines : l.line.product # None
        /\ \A k, l \in lines :
             k.line.supplier = l.line.supplier /\ k.line.product = l.line.product => k = l
    BY <2>2, <2>5, <2>6, <2>7, ReadyIsUnambiguous, Zenon
  <2>9. ASSUME NEW p \in Products
        PROVE  \E l \in LinesOf(s, p) :
                 /\ l.quantity = Requested[p].value /\ l.unit = Requested[p].unit
                 /\ l.compliance # "non_compliant"
    <3>1. x.items[p].offers[s] = OfferOf(lines, s, p)
      BY <2>2, <2>5, Zenon DEF Comparison, BuildItem, Eligible
    <3>2. \E l \in lines :
            /\ l.line.supplier = s /\ l.line.product = p
            /\ l.line.quantity = Requested[p].value /\ l.line.unit = Requested[p].unit
            /\ l.line.compliance # "non_compliant"
      <4>1. /\ OfferOf(lines, s, p).status = "quoted"
            /\ OfferOf(lines, s, p).quantity = "matched"
            /\ OfferOf(lines, s, p).compliance # "non_compliant"
        BY <2>5, <3>1, EligibleIsQuoted, Zenon
      <4>. QED
        BY <2>6, <4>1, QuotedIsTheLine
    <3>. QED
      BY <2>1, <3>2 DEF LinesOf
  <2>. QED
    BY <2>1, <2>4, <2>8, <2>9
<1>. QED
  BY <1>1, Inductive, PTL

\* Whatever else is known of a quoted item, and in whatever order, an item that
\* contradicts what was asked for is never found compliant, or partly so.
THEOREM ConflictsAreFinal == Spec => ConflictsStay
<1>1. IInv /\ [Next]_input =>
        [About("specifications") /\ Complies = "non_compliant"
           => Complies' = "non_compliant"]_input
  <2>. SUFFICES ASSUME IInv, Next, About("specifications"), Complies = "non_compliant"
                PROVE  Complies' = "non_compliant"
    OBVIOUS
  <2>1. PICK k \in Keys, v \in Values : AddSpecification(k, v)
    BY TopicStays, Zenon DEF IInv
  <2>2. /\ input'.requested = input.requested
        /\ input'.quoted = [j \in DOMAIN input.quoted \cup {k} |->
                              IF j = k THEN v ELSE input.quoted[j]]
        /\ k \notin DOMAIN input.quoted
    BY <2>1, Zenon DEF AddSpecification, IInv, HasSpecifications
  <2>3. /\ DOMAIN input.quoted \subseteq DOMAIN input'.quoted
        /\ \A j \in DOMAIN input.quoted : input'.quoted[j] = input.quoted[j]
    BY <2>2
  <2>4. PICK requested, quoted, more :
          requested = input.requested /\ quoted = input.quoted /\ more = input'.quoted
    OBVIOUS
  <2>5. ComplianceOf(requested, quoted) = "non_compliant"
    BY <2>4, Zenon DEF Complies
  <2>6. ComplianceOf(requested, more) = "non_compliant"
    BY <2>3, <2>4, <2>5, ConflictIsLeft, Zenon
  <2>7. Complies' = ComplianceOf(requested, more)
    BY <2>2, <2>4, Zenon DEF Complies
  <2>. QED
    BY <2>6, <2>7
<1>. QED
  BY <1>1, Inductive, PTL DEF Spec, ConflictsStay

-----------------------------------------------------------------------------
(* Suppliers: their rows, and how rows with contacts stand for the rows before *)

HasSuppliers ==
  About("suppliers") =>
    /\ {"suppliers", "unstored"} \subseteq DOMAIN input
    /\ IsFiniteSet(input.suppliers)
    /\ input.suppliers \subseteq SupplierRow
    /\ input.unstored \subseteq Companies \X Nat

SuppliersInv == HasTopic /\ HasSuppliers /\ OneSupplierPerDomain

\* Rows of which no two that were not merged have the same domain.
Apart(rows) ==
  \A s, t \in rows :
    s.merged = None /\ t.merged = None /\ Same(s.company.domain, t.company.domain) => s = t

\* A row with more contacts.
WithContacts(s, emails, phones) ==
  [s EXCEPT !.company.emails = @ \cup emails, !.company.phones = @ \cup phones]

LEMMA ContactsAreNoIdentity ==
  ASSUME NEW s \in SupplierRow, NEW emails \in SUBSET STRING, NEW phones \in SUBSET STRING,
         NEW t, t = WithContacts(s, emails, phones)
  PROVE  /\ t \in SupplierRow /\ t.merged = s.merged /\ t.no = s.no
         /\ t.company.domain = s.company.domain
BY DEF WithContacts, SupplierRow, Company

LEMMA MergedIsARow ==
  ASSUME NEW s \in SupplierRow, NEW n \in Nat, NEW t, t = [s EXCEPT !.merged = n]
  PROVE  t \in SupplierRow /\ t.merged # None /\ t.company = s.company
BY InputsAssumption DEF SupplierRow, Company

LEMMA SuggestedIsApart ==
  ASSUME SuppliersInv, About("suppliers"), NEW c \in Companies, Suggest(c)
  PROVE  HasSuppliers' /\ OneSupplierPerDomain'
<1>. DEFINE rows == input.suppliers
            taken == TakenFor(c, rows)
            next == Cardinality(rows) + 1
            new == [no |-> next, company |-> [c EXCEPT !.emails = {}, !.phones = {}],
                    merged |-> None]
<1>1. /\ IsFiniteSet(rows) /\ rows \subseteq SupplierRow
      /\ input.unstored \subseteq Companies \X Nat
      /\ {"suppliers", "unstored"} \subseteq DOMAIN input
      /\ Apart(rows)
  BY Zenon DEF SuppliersInv, HasSuppliers, OneSupplierPerDomain, Apart
<1>2. /\ input'.suppliers = IF taken = None THEN rows \cup {new} ELSE rows
      /\ input'.unstored = input.unstored
           \cup {<<c, IF taken = None THEN next ELSE taken.no>>}
      /\ DOMAIN input' = DOMAIN input
  BY <1>1, Zenon DEF Suggest
<1>3. c \in AnyCompany
  BY InputsAssumption, Zenon DEF AnyCompany
<1>4. next \in Nat
  BY <1>1, FS_CardinalityType
<1>5. /\ new \in SupplierRow /\ new.merged = None /\ new.company.domain = c.domain
  BY <1>3, <1>4 DEF SupplierRow, Company, AnyCompany
<1>6. taken # None => taken \in rows
  <2>1. CASE Best(c, rows) # {} /\ DuplicateStatus(c, (CHOOSE s \in Best(c, rows) : \A t \in Best(c, rows) : s.no <= t.no).company) = "duplicate"
    <3>1. PICK s \in Best(c, rows) : taken = s
      <4>1. Known(c, rows) # {}
        BY <2>1, Zenon DEF Best
      <4>2. \E s \in Best(c, rows) : \A t \in Best(c, rows) : s.no <= t.no
        BY <1>1, <1>3, <4>1, BestExists, Zenon
      <4>. QED
        BY <2>1, <4>2, Zenon DEF TakenFor
    <3>. QED
      BY <3>1, Zenon DEF Best, Known
  <2>2. CASE ~(Best(c, rows) # {} /\ DuplicateStatus(c, (CHOOSE s \in Best(c, rows) : \A t \in Best(c, rows) : s.no <= t.no).company) = "duplicate")
    <3>1. taken = None
      BY <2>2, Zenon DEF TakenFor
    <3>. QED
      BY <3>1
  <2>. QED
    BY <2>1, <2>2
<1>7. taken = None => \A s \in rows : s.merged = None => ~Same(c.domain, s.company.domain)
  <2>. SUFFICES ASSUME NEW s \in rows, s.merged = None, Same(c.domain, s.company.domain)
                PROVE  taken # None
    OBVIOUS
  <2>1. taken \in rows
    BY <1>1, <1>3, DomainIsTaken, Zenon
  <2>. QED
    BY <1>1, <2>1, InputsAssumption
<1>. HIDE DEF taken, new, next
<1>8. Apart(input'.suppliers)
  <2>1. CASE taken = None
    BY <1>1, <1>2, <1>5, <1>7, <2>1, Zenon DEF Apart, Same
  <2>2. CASE taken # None
    BY <1>1, <1>2, <2>2, Zenon
  <2>. QED
    BY <2>1, <2>2
<1>9. IsFiniteSet(input'.suppliers) /\ input'.suppliers \subseteq SupplierRow
  <2>1. IsFiniteSet(rows \cup {new})
    BY <1>1, FS_AddElement
  <2>. QED
    BY <1>1, <1>2, <1>5, <2>1
<1>10. input'.unstored \subseteq Companies \X Nat
  <2>1. taken # None => taken.no \in Nat
    BY <1>1, <1>6 DEF SupplierRow
  <2>. QED
    BY <1>1, <1>2, <1>4, <2>1
<1>. QED
  BY <1>1, <1>2, <1>8, <1>9, <1>10, Zenon DEF HasSuppliers, OneSupplierPerDomain, Apart

\* Contacts are stored, row for row.
LEMMA StoredIsApart ==
  ASSUME SuppliersInv, About("suppliers"), StoreContacts
  PROVE  HasSuppliers' /\ OneSupplierPerDomain'
<1>. DEFINE rows == input.suppliers
            Of(s) == {u[1] : u \in {u \in input.unstored : u[2] = s.no}}
            Emails(s) == UNION {c.emails : c \in Of(s)}
            Phones(s) == UNION {c.phones : c \in Of(s)}
            stored == [s \in rows |-> WithContacts(s, Emails(s), Phones(s))]
<1>1. /\ IsFiniteSet(rows) /\ rows \subseteq SupplierRow
      /\ input.unstored \subseteq Companies \X Nat
      /\ {"suppliers", "unstored"} \subseteq DOMAIN input
      /\ Apart(rows)
  BY Zenon DEF SuppliersInv, HasSuppliers, OneSupplierPerDomain, Apart
<1>2. /\ input'.suppliers = {stored[s] : s \in rows}
      /\ input'.unstored = {}
      /\ DOMAIN input' = DOMAIN input
  <2>1. input'.suppliers = {WithContacts(s, Emails(s), Phones(s)) : s \in rows}
    BY <1>1, Zenon DEF StoreContacts, WithContacts
  <2>2. input'.unstored = {} /\ DOMAIN input' = DOMAIN input
    BY <1>1, Zenon DEF StoreContacts
  <2>. QED
    BY <2>1, <2>2
<1>3. ASSUME NEW s \in rows
      PROVE  /\ stored[s] \in SupplierRow /\ stored[s].merged = s.merged
             /\ stored[s].company.domain = s.company.domain
  <2>1. \A c \in Of(s) : c \in AnyCompany
    BY <1>1, InputsAssumption DEF AnyCompany
  <2>2. Emails(s) \in SUBSET STRING /\ Phones(s) \in SUBSET STRING
    <3>. HIDE DEF Of
    <3>1. \A c \in Of(s) : c.emails \subseteq STRING /\ c.phones \subseteq STRING
      BY <2>1 DEF AnyCompany, Company
    <3>. QED
      BY <3>1
  <2>3. stored[s] = WithContacts(s, Emails(s), Phones(s)) /\ s \in SupplierRow
    BY <1>1
  <2>. HIDE DEF Emails, Phones, stored
  <2>4. PICK e \in SUBSET STRING, p \in SUBSET STRING, x \in SupplierRow :
          e = Emails(s) /\ p = Phones(s) /\ x = s
    BY <2>2, <2>3
  <2>5. stored[s] = WithContacts(x, e, p)
    BY <2>3, <2>4
  <2>6. /\ stored[s] \in SupplierRow /\ stored[s].merged = x.merged
        /\ stored[s].company.domain = x.company.domain
    BY <2>4, <2>5, ContactsAreNoIdentity
  <2>. QED
    BY <2>4, <2>6
<1>. HIDE DEF stored
<1>4. IsFiniteSet(input'.suppliers)
  <2>1. stored \in Surjection(rows, {stored[s] : s \in rows})
    BY DEF Surjection, stored
  <2>. QED
    BY <1>1, <1>2, <2>1, FS_Surjection
<1>5. input'.suppliers \subseteq SupplierRow
  BY <1>2, <1>3
<1>6. Apart(input'.suppliers)
  <2>. SUFFICES ASSUME NEW s \in rows, NEW t \in rows,
                       stored[s].merged = None, stored[t].merged = None,
                       Same(stored[s].company.domain, stored[t].company.domain)
                PROVE  stored[s] = stored[t]
    BY <1>2 DEF Apart
  <2>1. /\ s.merged = None /\ t.merged = None
        /\ Same(s.company.domain, t.company.domain)
    BY <1>3
  <2>2. s = t
    BY <1>1, <2>1, Zenon DEF Apart
  <2>. QED
    BY <2>2
<1>. QED
  BY <1>1, <1>2, <1>4, <1>5, <1>6, Zenon DEF HasSuppliers, OneSupplierPerDomain, Apart

\* A supplier is merged into another, which keeps its domain.
LEMMA MergedIsApart ==
  ASSUME SuppliersInv, About("suppliers"),
         NEW s \in input.suppliers, NEW t \in input.suppliers, MergeInto(s, t)
  PROVE  HasSuppliers' /\ OneSupplierPerDomain'
<1>. DEFINE rows == input.suppliers
            from == [s EXCEPT !.merged = t.no]
            into == WithContacts(t, s.company.emails, s.company.phones)
<1>1. /\ IsFiniteSet(rows) /\ rows \subseteq SupplierRow
      /\ input.unstored \subseteq Companies \X Nat
      /\ {"suppliers", "unstored"} \subseteq DOMAIN input
      /\ Apart(rows)
  BY Zenon DEF SuppliersInv, HasSuppliers, OneSupplierPerDomain, Apart
<1>2. /\ input'.suppliers = (rows \ {s, t}) \cup {from, into}
      /\ input'.unstored = input.unstored
      /\ DOMAIN input' = DOMAIN input
  BY <1>1, Zenon DEF MergeInto, WithContacts
<1>3. from \in SupplierRow /\ from.merged # None
  <2>1. s \in SupplierRow /\ t.no \in Nat
    BY <1>1 DEF SupplierRow
  <2>. QED
    BY <2>1, MergedIsARow, Zenon
<1>4. /\ into \in SupplierRow /\ into.merged = t.merged
      /\ into.company.domain = t.company.domain
  <2>1. /\ t \in SupplierRow
        /\ s.company.emails \in SUBSET STRING /\ s.company.phones \in SUBSET STRING
    BY <1>1 DEF SupplierRow, Company
  <2>2. PICK e \in SUBSET STRING, p \in SUBSET STRING, x \in SupplierRow :
          e = s.company.emails /\ p = s.company.phones /\ x = t
    BY <2>1
  <2>. HIDE DEF into
  <2>3. into = WithContacts(x, e, p)
    BY <2>2 DEF into
  <2>4. /\ into \in SupplierRow /\ into.merged = x.merged
        /\ into.company.domain = x.company.domain
    BY <2>2, <2>3, ContactsAreNoIdentity
  <2>. QED
    BY <2>2, <2>4
<1>. HIDE DEF from, into
<1>5. IsFiniteSet(input'.suppliers)
  <2>1. IsFiniteSet(rows \ {s, t})
    BY <1>1, FS_Subset
  <2>2. IsFiniteSet(((rows \ {s, t}) \cup {from}) \cup {into})
    BY <2>1, FS_AddElement
  <2>3. input'.suppliers = ((rows \ {s, t}) \cup {from}) \cup {into}
    BY <1>2
  <2>. QED
    BY <2>2, <2>3
<1>6. input'.suppliers \subseteq SupplierRow
  BY <1>1, <1>2, <1>3, <1>4
<1>7. Apart(input'.suppliers)
  <2>. SUFFICES ASSUME NEW x \in input'.suppliers, NEW y \in input'.suppliers,
                       x.merged = None, y.merged = None,
                       Same(x.company.domain, y.company.domain)
                PROVE  x = y
    BY Zenon DEF Apart
  <2>1. x \in (rows \ {s, t}) \cup {into} /\ y \in (rows \ {s, t}) \cup {into}
    BY <1>2, <1>3
  <2>2. CASE x \in rows \ {s, t} /\ y \in rows \ {s, t}
    BY <1>1, <2>2, Zenon DEF Apart
  <2>3. CASE x \in rows \ {s, t} /\ y = into
    BY <1>1, <1>4, <2>3, Zenon DEF Apart
  <2>4. CASE x = into /\ y \in rows \ {s, t}
    BY <1>1, <1>4, <2>4, Zenon DEF Apart
  <2>. QED
    BY <2>1, <2>2, <2>3, <2>4
<1>. QED
  BY <1>1, <1>2, <1>5, <1>6, <1>7, Zenon DEF HasSuppliers, OneSupplierPerDomain, Apart

\* However similar other suppliers are, a company is never given a second row while
\* a supplier with its domain exists that was not merged: for any companies, names
\* and similarities, and however many rows there are.
THEOREM DomainsAreApart == Spec => []OneSupplierPerDomain
<1>1. Init => SuppliersInv
  <2>. SUFFICES ASSUME Init
                PROVE  SuppliersInv
    OBVIOUS
  <2>1. CASE input = [topic |-> "suppliers", suppliers |-> {}, unstored |-> {}]
    BY <2>1, FS_EmptySet DEF SuppliersInv, HasTopic, HasSuppliers, OneSupplierPerDomain
  <2>2. CASE input.topic # "suppliers" /\ "topic" \in DOMAIN input
    BY <2>2 DEF SuppliersInv, HasTopic, HasSuppliers, OneSupplierPerDomain, About
  <2>3. CASE \/ input \in [topic : {"comparison"}, lines : {{}}, quoting : SUBSET Suppliers,
                           weights : Weights]
             \/ input \in [topic : {"specifications"}, requested : Specifications,
                           quoted : {<< >>}]
    BY <2>2, <2>3
  <2>4. CASE \/ input \in [topic : {"matching"}, item : Items, products : {{}}]
             \/ input \in [topic : {"units"}, amount : Amounts, unit : Units]
    BY <2>2, <2>4
  <2>5. CASE input \in [topic : {"documents"}, primary : Blank \cup {None},
                        fallback : Blank \cup {None}]
    BY <2>2, <2>5
  <2>. QED
    BY <2>1, <2>3, <2>4, <2>5 DEF Init
<1>2. SuppliersInv /\ [Next]_input => SuppliersInv'
  <2>. SUFFICES ASSUME SuppliersInv, [Next]_input
                PROVE  SuppliersInv'
    OBVIOUS
  <2>1. CASE UNCHANGED input
    BY <2>1 DEF SuppliersInv, HasTopic, HasSuppliers, OneSupplierPerDomain, About
  <2>2. CASE Next
    <3>1. HasTopic' /\ (About("suppliers")' <=> About("suppliers"))
      BY <2>2, TopicStays, Zenon DEF SuppliersInv, HasTopic, About
    <3>2. CASE About("suppliers")
      <4>1. SuppliersMove
        BY <2>2, <3>2, TopicStays, Zenon DEF SuppliersInv
      <4>2. HasSuppliers' /\ OneSupplierPerDomain'
        BY <3>2, <4>1, SuggestedIsApart, StoredIsApart, MergedIsApart, Zenon DEF SuppliersMove
      <4>. QED
        BY <3>1, <4>2 DEF SuppliersInv
    <3>3. CASE ~About("suppliers")
      BY <3>1, <3>3 DEF SuppliersInv, HasSuppliers, OneSupplierPerDomain
    <3>. QED
      BY <3>2, <3>3
  <2>. QED
    BY <2>1, <2>2
<1>3. SuppliersInv => OneSupplierPerDomain
  BY DEF SuppliersInv
<1>. QED
  BY <1>1, <1>2, <1>3, PTL DEF Spec

-----------------------------------------------------------------------------
(* Which product an item is *)

LEMMA PairIsFinite ==
  ASSUME NEW x, NEW y
  PROVE  IsFiniteSet({x, y})
<1>1. {x, y} = {x} \cup {y}
  OBVIOUS
<1>2. IsFiniteSet({x})
  BY FS_Singleton
<1>3. IsFiniteSet({x} \cup {y})
  BY <1>2, FS_AddElement
<1>. QED
  BY <1>1, <1>3

\* A product scores 1 at most.
LEMMA ScoreIsAtMostFull ==
  ASSUME NEW p, NEW item, IsFiniteSet(p.words), IsFiniteSet(item.words)
  PROVE  MatchScore(p, item) \in Int /\ MatchScore(p, item) <= Full
<1>. DEFINE lexical == Lexical(item.words, p.words)
            same == IF SameUnit(p, item) THEN 480 ELSE 0
            close == IF CloseQuantity(p, item) THEN 420 ELSE 0
<1>1. lexical \in Int
  <2>1. CASE item.words = {} \/ p.words = {}
    BY <2>1 DEF Lexical
  <2>2. CASE ~(item.words = {} \/ p.words = {})
    <3>1. PICK a, b : a = item.words /\ b = p.words
      OBVIOUS
    <3>2. IsFiniteSet(a \cap b) /\ IsFiniteSet(a \cup b)
      BY <3>1, FS_Subset, FS_Union
    <3>3. Cardinality(a \cap b) \in Nat /\ Cardinality(a \cup b) \in Nat
      BY <3>2, FS_CardinalityType
    <3>4. Cardinality(a \cup b) # 0
      BY <2>2, <3>1, <3>2, FS_EmptySet
    <3>5. (Cardinality(a \cap b) * 5100) \div Cardinality(a \cup b) \in Int
      BY <3>3, <3>4
    <3>6. Lexical(a, b) = (Cardinality(a \cap b) * 5100) \div Cardinality(a \cup b)
      BY <2>2, <3>1, Zenon DEF Lexical
    <3>. QED
      BY <3>1, <3>5, <3>6
  <2>. QED
    BY <2>1, <2>2
<1>2. lexical + same + close \in Int
  BY <1>1
<1>3. PICK v \in Int : v = lexical + same + close
  BY <1>2
<1>4. Min({Full, v}) \in Int /\ Min({Full, v}) <= Full
  <2>1. {Full, v} \in SUBSET Int /\ {Full, v} # {} /\ IsFiniteSet({Full, v})
    <3>1. IsFiniteSet({Full, v})
      BY PairIsFinite
    <3>. QED
      BY <3>1 DEF Full
  <2>. QED
    BY <2>1, MinIsLeast
<1>5. MatchScore(p, item) = IF NamesOverlap(p, item) THEN Full ELSE Min({Full, v})
  <2>1. MatchScore(p, item) = IF NamesOverlap(p, item) THEN Full
                              ELSE Min({Full, lexical + same + close})
    BY Zenon DEF MatchScore
  <2>. QED
    BY <1>3, <2>1, Zenon
<1>. QED
  BY <1>4, <1>5 DEF Full

\* There is a best product: a score no other exceeds, and the first identifier.
LEMMA BestProductExists ==
  ASSUME NEW products \in SUBSET CatalogLines, IsFiniteSet(products), products # {},
         NEW item \in Items
  PROVE  LET best == BestProduct(products, item) IN
         /\ best \in products
         /\ \A q \in products : MatchScore(q, item) <= MatchScore(best, item)
<1>. DEFINE score == [p \in products |-> MatchScore(p, item)]
            Ahead(p, q) == \/ MatchScore(p, item) > MatchScore(q, item)
                           \/ MatchScore(p, item) = MatchScore(q, item) /\ p.id < q.id
<1>1. ASSUME NEW p \in products PROVE score[p] = MatchScore(p, item) /\ score[p] \in Int
  BY CatalogAssumption, ScoreIsAtMostFull
<1>2. score \in [products -> Int]
  BY <1>1
<1>. HIDE DEF score
<1>3. PICK x \in products : \A q \in products : score[q] <= score[x]
  BY <1>2, GreatestExists
<1>. DEFINE top == {p \in products : score[p] = score[x]}
            id == [p \in top |-> p.id]
<1>4. IsFiniteSet(top) /\ top # {} /\ id \in [top -> Int]
  <2>1. IsFiniteSet(top)
    BY FS_Subset
  <2>. QED
    BY <1>3, <2>1, CatalogAssumption
<1>5. PICK b \in top : \A q \in top : id[b] <= id[q]
  <2>. HIDE DEF id, top
  <2>. QED
    BY <1>4, LeastExists
<1>6. ASSUME NEW q \in products \ {b} PROVE Ahead(b, q)
  <2>1. /\ score[q] <= score[b] /\ score[q] \in Int /\ score[b] \in Int
        /\ score[q] = MatchScore(q, item) /\ score[b] = MatchScore(b, item)
    BY <1>1, <1>3, <1>5
  <2>2. CASE score[q] = score[b]
    <3>1. q \in top
      BY <1>5, <2>2
    <3>2. b.id <= q.id
      BY <1>5, <3>1
    <3>3. b.id # q.id /\ b.id \in Nat /\ q.id \in Nat
      BY <1>5, CatalogAssumption
    <3>. QED
      BY <2>1, <2>2, <3>2, <3>3
  <2>3. CASE score[q] # score[b]
    BY <2>1, <2>3
  <2>. QED
    BY <2>2, <2>3
<1>. DEFINE best == BestProduct(products, item)
<1>7. best \in products /\ \A q \in products \ {best} : Ahead(best, q)
  <2>1. \E p \in products : \A q \in products \ {p} : Ahead(p, q)
    BY <1>5, <1>6
  <2>. QED
    BY <2>1, Zenon DEF BestProduct
<1>. HIDE DEF best
<1>8. ASSUME NEW q \in products PROVE MatchScore(q, item) <= MatchScore(best, item)
  <2>1. MatchScore(q, item) \in Int /\ MatchScore(best, item) \in Int
    BY <1>1, <1>7
  <2>2. CASE q = best
    BY <2>1, <2>2
  <2>3. CASE q # best
    BY <1>7, <2>1, <2>3
  <2>. QED
    BY <2>2, <2>3
<1>. QED
  BY <1>7, <1>8 DEF best

LEMMA TwoNamesAreAQuestion ==
  ASSUME NEW products \in SUBSET CatalogLines, IsFiniteSet(products), NEW item \in Items,
         NEW p \in products, NEW q \in products, p # q,
         NamesOverlap(p, item), NamesOverlap(q, item)
  PROVE  Match(products, item).status = "possible_match"
<1>. DEFINE best == BestProduct(products, item)
            score == MatchScore(best, item)
            others == {MatchScore(r, item) : r \in products \ {best}}
            second == Max({0} \cup others)
            certain == score >= 5400 /\ score - second >= 600
<1>1. best \in products /\ \A r \in products : MatchScore(r, item) <= score
  BY BestProductExists
<1>2. \A r \in products : MatchScore(r, item) \in Int /\ MatchScore(r, item) <= Full
  BY CatalogAssumption, ScoreIsAtMostFull
<1>3. MatchScore(p, item) = Full /\ MatchScore(q, item) = Full
  BY Zenon DEF MatchScore
<1>. HIDE DEF best
<1>4. score = Full
  BY <1>1, <1>2, <1>3 DEF Full
<1>5. {0} \cup others \in SUBSET Int /\ Full \in others
  <2>1. PICK r \in products \ {best} : MatchScore(r, item) = Full
    BY <1>3
  <2>. QED
    BY <1>2, <2>1
<1>6. IsFiniteSet({0} \cup others)
  <2>. DEFINE rest == products \ {best}
              f == [r \in rest |-> MatchScore(r, item)]
  <2>1. IsFiniteSet(rest)
    BY FS_RemoveElement
  <2>2. f \in Surjection(rest, others)
    BY DEF Surjection
  <2>3. IsFiniteSet(others)
    BY <2>1, <2>2, FS_Surjection
  <2>. HIDE DEF others
  <2>4. {0} \cup others = others \cup {0}
    OBVIOUS
  <2>. QED
    BY <2>3, <2>4, FS_AddElement
<1>7. second >= Full /\ second \in Int
  <2>. HIDE DEF others
  <2>1. second \in {0} \cup others /\ \A y \in {0} \cup others : y <= second
    BY <1>5, <1>6, MaxIsGreatest
  <2>. HIDE DEF second
  <2>. QED
    BY <1>5, <2>1 DEF Full
<1>. HIDE DEF score, second
<1>8. ~certain /\ score >= 3300
  BY <1>4, <1>7 DEF Full
<1>9. Match(products, item) = [product |-> best.id, status |-> "possible_match"]
  <2>1. products # {} /\ ~(score < 3300)
    BY <1>4 DEF Full
  <2>. HIDE DEF certain
  <2>. QED
    BY <1>8, <2>1 DEF Match, best, score, second, certain
<1>. QED
  BY <1>9

HasProducts ==
  About("matching") =>
    /\ {"item", "products"} \subseteq DOMAIN input
    /\ input.item \in Items
    /\ IsFiniteSet(input.products)
    /\ input.products \subseteq CatalogLines

MatchingInv == HasTopic /\ HasProducts

\* An item whose name is in, or contains, the names of two products is never assigned
\* to one of them without a question: whatever the names, however many the products.
THEOREM NamesakesAreAsked == Spec => []NamedTwiceIsAsked
<1>1. Init => MatchingInv
  <2>. SUFFICES ASSUME Init
                PROVE  MatchingInv
    OBVIOUS
  <2>1. CASE input \in [topic : {"matching"}, item : Items, products : {{}}]
    BY <2>1, FS_EmptySet DEF MatchingInv, HasTopic, HasProducts
  <2>2. CASE input.topic # "matching" /\ "topic" \in DOMAIN input
    BY <2>2 DEF MatchingInv, HasTopic, HasProducts, About
  <2>3. CASE \/ input \in [topic : {"comparison"}, lines : {{}}, quoting : SUBSET Suppliers,
                           weights : Weights]
             \/ input \in [topic : {"specifications"}, requested : Specifications,
                           quoted : {<< >>}]
    BY <2>2, <2>3
  <2>4. CASE \/ input = [topic |-> "suppliers", suppliers |-> {}, unstored |-> {}]
             \/ input \in [topic : {"units"}, amount : Amounts, unit : Units]
    BY <2>2, <2>4
  <2>5. CASE input \in [topic : {"documents"}, primary : Blank \cup {None},
                        fallback : Blank \cup {None}]
    BY <2>2, <2>5
  <2>. QED
    BY <2>1, <2>3, <2>4, <2>5 DEF Init
<1>2. MatchingInv /\ [Next]_input => MatchingInv'
  <2>. SUFFICES ASSUME MatchingInv, [Next]_input
                PROVE  MatchingInv'
    OBVIOUS
  <2>1. CASE UNCHANGED input
    BY <2>1 DEF MatchingInv, HasTopic, HasProducts, About
  <2>2. CASE Next
    <3>1. HasTopic' /\ (About("matching")' <=> About("matching"))
      BY <2>2, TopicStays, Zenon DEF MatchingInv, HasTopic, About
    <3>2. CASE About("matching")
      <4>1. PICK p \in CatalogLines : AddProduct(p)
        BY <2>2, <3>2, TopicStays, Zenon DEF MatchingInv
      <4>2. /\ input.products \subseteq CatalogLines /\ IsFiniteSet(input.products)
            /\ {"item", "products"} \subseteq DOMAIN input /\ input.item \in Items
        BY <3>2 DEF MatchingInv, HasProducts
      <4>3. /\ input'.products = input.products \cup {p} /\ input'.item = input.item
            /\ DOMAIN input' = DOMAIN input
        BY <4>1, <4>2, Zenon DEF AddProduct
      <4>4. IsFiniteSet(input.products \cup {p})
        BY <4>2, FS_AddElement
      <4>5. HasProducts'
        BY <4>2, <4>3, <4>4 DEF HasProducts
      <4>. QED
        BY <3>1, <4>5 DEF MatchingInv
    <3>3. CASE ~About("matching")
      BY <3>1, <3>3 DEF MatchingInv, HasProducts
    <3>. QED
      BY <3>2, <3>3
  <2>. QED
    BY <2>1, <2>2
<1>3. MatchingInv => NamedTwiceIsAsked
  <2>. SUFFICES ASSUME MatchingInv, About("matching"),
                       NEW p \in input.products, NEW q \in input.products, p # q,
                       NamesOverlap(p, input.item), NamesOverlap(q, input.item)
                PROVE  Match(input.products, input.item).status = "possible_match"
    BY Zenon DEF NamedTwiceIsAsked
  <2>1. PICK products \in SUBSET CatalogLines, item \in Items :
          products = input.products /\ item = input.item
    BY DEF MatchingInv, HasProducts
  <2>2. IsFiniteSet(products) /\ p \in products /\ q \in products
        /\ NamesOverlap(p, item) /\ NamesOverlap(q, item)
    BY <2>1 DEF MatchingInv, HasProducts
  <2>3. Match(products, item).status = "possible_match"
    BY <2>1, <2>2, TwoNamesAreAQuestion
  <2>. QED
    BY <2>1, <2>3
<1>. QED
  BY <1>1, <1>2, <1>3, PTL DEF Spec

-----------------------------------------------------------------------------
(* Ratios and rounding *)

LEMMA DivisionByMore ==
  ASSUME NEW n \in Nat, NEW a \in Nat \ {0}, NEW b \in Nat \ {0}, a <= b
  PROVE  n \div b <= n \div a
<1>. DEFINE q == n \div b
            k == n \div a
<1>1. q \in Nat /\ b * q <= n
  BY Z3
<1>2. k \in Nat /\ n < a * (k + 1)
  BY Z3
<1>. HIDE DEF q, k
<1>3. CASE q <= k
  BY <1>3 DEF q, k
<1>4. CASE k + 1 <= q
  <2>1. a * (k + 1) <= a * q
    BY <1>1, <1>2, <1>4, Z3
  <2>2. a * q <= b * q
    BY <1>1, Z3
  <2>3. a * (k + 1) \in Nat /\ a * q \in Nat /\ b * q \in Nat
    BY <1>1, <1>2
  <2>. QED
    BY <1>1, <1>2, <2>1, <2>2, <2>3
<1>. QED
  BY <1>1, <1>2, <1>3, <1>4

\* min(1, q), in units of 1/Scale.
LEMMA AtMostOne ==
  ASSUME NEW q \in Nat
  PROVE  Min({Scale, q}) = IF Scale <= q THEN Scale ELSE q
<1>1. {Scale, q} \in SUBSET Int /\ {Scale, q} # {} /\ IsFiniteSet({Scale, q})
  <2>1. IsFiniteSet({Scale, q})
    BY PairIsFinite
  <2>. QED
    BY <2>1, RulesAssumption
<1>2. Min({Scale, q}) \in {Scale, q} /\ \A y \in {Scale, q} : Min({Scale, q}) <= y
  BY <1>1, MinIsLeast
<1>. QED
  BY <1>2, RulesAssumption

\* Who is less has the higher ratio.
LEMMA LessIsBetter ==
  ASSUME NEW m \in Nat, NEW a \in Nat \ {0}, NEW b \in Nat \ {0}, a <= b
  PROVE  /\ RatioTo(m, a) \in Nat /\ RatioTo(m, b) \in Nat
         /\ RatioTo(m, b) <= RatioTo(m, a)
<1>. DEFINE qa == (m * Scale) \div a
            qb == (m * Scale) \div b
            ra == Min({Scale, qa})
            rb == Min({Scale, qb})
<1>0. /\ m # None /\ a # None /\ b # None /\ Scale \in Nat /\ a # 0 /\ b # 0
      /\ ~(a <= 0) /\ ~(b <= 0)
  BY InputsAssumption, RulesAssumption
<1>1. CASE m = 0
  <2>1. RatioTo(m, a) = 0 /\ RatioTo(m, b) = 0
    BY <1>0, <1>1, Zenon DEF RatioTo
  <2>. QED
    BY <2>1
<1>2. CASE m # 0
  <2>1. RatioTo(m, a) = ra /\ RatioTo(m, b) = rb
    BY <1>0, <1>2, Zenon DEF RatioTo
  <2>2. m * Scale \in Nat
    BY <1>0
  <2>3. qa \in Nat /\ qb \in Nat /\ qb <= qa
    <3>1. PICK n \in Nat : n = m * Scale
      BY <2>2
    <3>2. n \div a \in Nat /\ n \div b \in Nat
      BY Z3
    <3>3. n \div b <= n \div a
      BY DivisionByMore
    <3>. QED
      BY <3>1, <3>2, <3>3
  <2>. HIDE DEF qa, qb
  <2>4. /\ ra = IF Scale <= qa THEN Scale ELSE qa
        /\ rb = IF Scale <= qb THEN Scale ELSE qb
    BY <2>3, AtMostOne
  <2>. HIDE DEF ra, rb
  <2>. QED
    BY <1>0, <2>1, <2>3, <2>4
<1>. QED
  BY <1>1, <1>2

\* Rounding keeps the order.
LEMMA RoundingIsMonotone ==
  ASSUME NEW n \in Nat, NEW m \in Nat, n <= m, NEW d \in Nat \ {0}
  PROVE  /\ RoundHalfEven(n, d) \in Nat /\ RoundHalfEven(m, d) \in Nat
         /\ RoundHalfEven(n, d) <= RoundHalfEven(m, d)
<1>. DEFINE q == n \div d
            k == m \div d
            r == n % d
            s == m % d
<1>1. /\ q \in Nat /\ r \in Nat /\ r < d /\ n = d * q + r
      /\ k \in Nat /\ s \in Nat /\ s < d /\ m = d * k + s
  BY Z3
<1>. HIDE DEF q, k, r, s
<1>2. q <= k
  <2>1. CASE k + 1 <= q
    <3>1. d * (k + 1) <= d * q
      BY <1>1, <2>1, Z3
    <3>2. d * (k + 1) = d * k + d /\ d * k \in Nat /\ d * q \in Nat
      BY <1>1, Z3
    <3>. QED
      BY <1>1, <3>1, <3>2
  <2>. QED
    BY <1>1, <2>1
<1>3. /\ RoundHalfEven(n, d) = IF 2 * r > d \/ (2 * r = d /\ q % 2 = 1) THEN q + 1 ELSE q
      /\ RoundHalfEven(m, d) = IF 2 * s > d \/ (2 * s = d /\ k % 2 = 1) THEN k + 1 ELSE k
  BY Zenon DEF RoundHalfEven, q, k, r, s
<1>4. CASE q = k
  <2>1. r <= s
    BY <1>1, <1>4
  <2>. QED
    BY <1>1, <1>3, <1>4, <2>1
<1>5. CASE q + 1 <= k
  BY <1>1, <1>3, <1>5
<1>. QED
  BY <1>1, <1>2, <1>4, <1>5

-----------------------------------------------------------------------------
(* Scores *)

\* What Score adds up.
Points(item, offer, w) ==
  (IF w.technical > 0 THEN w.technical * TechnicalScore(offer) ELSE 0)
  + (IF w.price > 0 THEN w.price * PriceScore(item, offer) ELSE 0)
  + (IF w.delivery > 0 THEN w.delivery * DeliveryScore(item, offer) ELSE 0)

LEMMA ScoreIsASum ==
  ASSUME NEW x, NEW s, NEW w, NEW f \in [Products -> Int],
         f = [p \in Products |-> Points(x.items[p], x.items[p].offers[s], w)]
  PROVE  \E h : /\ IsSum(h, f, Products)
                /\ Score(x, s, w) = RoundHalfEven(h[Products], Scale * Cardinality(Products))
<1>. DEFINE Of(p) == Points(x.items[p], x.items[p].offers[s], w)
            Adds(g) == g = [S \in SUBSET Products |->
                   IF S = {} THEN 0
                   ELSE Of(CHOOSE p \in S : TRUE) + g[S \ {CHOOSE p \in S : TRUE}]]
            h == CHOOSE g : Adds(g)
<1>1. ASSUME NEW g
      PROVE  IsSum(g, f, Products) <=> Adds(g)
  <2>. HIDE DEF Of
  <2>1. ASSUME NEW S \in SUBSET Products, S # {}
        PROVE  f[CHOOSE p \in S : TRUE] = Of(CHOOSE p \in S : TRUE)
    <3>1. PICK c \in S : c = CHOOSE p \in S : TRUE
      BY <2>1
    <3>2. f[c] = Of(c)
      BY DEF Of
    <3>. QED
      BY <3>1, <3>2
  <2>2. ASSUME NEW S \in SUBSET Products
        PROVE  (IF S = {} THEN 0 ELSE f[CHOOSE p \in S : TRUE] + g[Rest(S)])
               = (IF S = {} THEN 0
                  ELSE Of(CHOOSE p \in S : TRUE) + g[S \ {CHOOSE p \in S : TRUE}])
    <3>1. CASE S = {}
      BY <3>1
    <3>2. CASE S # {}
      <4>1. f[CHOOSE p \in S : TRUE] = Of(CHOOSE p \in S : TRUE)
        BY <2>1, <3>2
      <4>. QED
        BY <3>2, <4>1, Zenon DEF Rest
    <3>. QED
      BY <3>1, <3>2
  <2>. QED
    BY <2>2, Zenon DEF IsSum
<1>. HIDE DEF Adds
<1>2. PICK g : IsSum(g, f, Products)
  BY RulesAssumption, SumExists
<1>3. IsSum(h, f, Products)
  <2>1. Adds(g)
    BY <1>1, <1>2
  <2>2. Adds(h)
    BY <2>1, Zenon
  <2>. HIDE DEF h
  <2>. QED
    BY <1>1, <2>2
<1>4. Score(x, s, w) = RoundHalfEven(h[Products], Scale * Cardinality(Products))
  BY Zenon DEF Score, MapThenSumSet, MapThenFoldSet, Points, Adds
<1>. QED
  BY <1>3, <1>4

OwnLines(lines, s, p) == {l \in lines : l.line.supplier = s /\ l.line.product = p}

\* What is quoted is the only line.
LEMMA TheOnlyLine ==
  ASSUME NEW lines, IsFiniteSet(lines), NEW s, NEW p, OfferOf(lines, s, p).status = "quoted"
  PROVE  \E l \in lines :
           /\ OwnLines(lines, s, p) = {l}
           /\ OfferOf(lines, s, p) = QuotedOffer(l.line, Requested[p])
           /\ l.line = CHOOSE m \in {k.line : k \in OwnLines(lines, s, p)} : TRUE
<1>. DEFINE own == OwnLines(lines, s, p)
            chosen == CHOOSE l \in own : TRUE
<1>1. own # {}
  BY Zenon DEF OfferOf, EmptyOffer, OwnLines
<1>2. ~(Cardinality(own) > 1)
  BY <1>1, Zenon DEF OfferOf, EmptyOffer, OwnLines
<1>3. OfferOf(lines, s, p) = QuotedOffer(chosen.line, Requested[p])
  BY <1>1, <1>2, Zenon DEF OfferOf, OwnLines
<1>4. own \subseteq lines
  BY DEF OwnLines
<1>. HIDE DEF own
<1>5. IsFiniteSet(own) /\ Cardinality(own) \in Nat
  BY <1>4, FS_Subset, FS_CardinalityType
<1>6. Cardinality(own) = 1
  BY <1>1, <1>2, <1>5, FS_EmptySet
<1>7. PICK l : own = {l}
  BY <1>5, <1>6, FS_Singleton
<1>8. chosen = l /\ l \in lines
  BY <1>4, <1>7
<1>9. {k.line : k \in own} = {l.line}
  BY <1>7
<1>10. l.line = CHOOSE m \in {k.line : k \in own} : TRUE
  BY <1>9
<1>. HIDE DEF chosen
<1>. QED
  BY <1>3, <1>7, <1>8, <1>10 DEF own

\* The numbers of an offer.
LEMMA OfferNumbers ==
  ASSUME NEW lines, IsFiniteSet(lines), \A l \in lines : l.line \in Lines,
         NEW s \in Suppliers, NEW p \in Products
  PROVE  LET offer == OfferOf(lines, s, p) IN
         offer.status = "quoted" =>
           offer.total.amount \in Nat \cup {None} /\ offer.days \in Nat \cup {None}
<1>. SUFFICES ASSUME OfferOf(lines, s, p).status = "quoted"
              PROVE  /\ OfferOf(lines, s, p).total.amount \in Nat \cup {None}
                     /\ OfferOf(lines, s, p).days \in Nat \cup {None}
  OBVIOUS
<1>1. PICK l \in lines : OfferOf(lines, s, p) = QuotedOffer(l.line, Requested[p])
  BY TheOnlyLine
<1>2. PICK a \in Lines : a = l.line
  OBVIOUS
<1>3. a.total \in Nat \cup {None} /\ DaysOf(a) \in Nat \cup {None}
  BY InputsAssumption DEF LineTypes, DaysOf
<1>4. /\ QuotedOffer(a, Requested[p]).total.amount = a.total
      /\ QuotedOffer(a, Requested[p]).days = DaysOf(a)
  BY DEF QuotedOffer, Money
<1>. QED
  BY <1>1, <1>2, <1>3, <1>4

LEMMA LeastIsANumber ==
  ASSUME NEW S \in SUBSET Nat, IsFiniteSet(S)
  PROVE  Least(S) \in Nat \cup {None}
<1>1. CASE S = {}
  BY <1>1 DEF Least
<1>2. CASE S # {}
  <2>1. Min(S) \in S
    BY <1>2, MinIsLeast
  <2>. QED
    BY <1>2, <2>1 DEF Least
<1>. QED
  BY <1>1, <1>2

\* Every ratio is taken to a number.
LEMMA MinimumsAreNumbers ==
  ASSUME NEW lines, IsFiniteSet(lines), \A l \in lines : l.line \in Lines, NEW p \in Products
  PROVE  /\ MinimumPrice(BuildItem(lines, p)) \in Nat \cup {None}
         /\ MinimumDelivery(BuildItem(lines, p)) \in Nat \cup {None}
<1>. DEFINE item == BuildItem(lines, p)
            offers == [s \in Suppliers |-> OfferOf(lines, s, p)]
            priced == {s \in Quoting(item) : item.offers[s].total.amount # None
                                             /\ item.offers[s].total.currency # None}
            timed == {s \in Quoting(item) : item.offers[s].days # None}
            prices == {item.offers[s].total.amount : s \in priced}
            days == {item.offers[s].days : s \in timed}
<1>1. item.offers = offers
  BY Zenon DEF BuildItem
<1>2. Quoting(item) = {s \in Suppliers : offers[s].status = "quoted"}
  BY <1>1 DEF Quoting
<1>. HIDE DEF item
<1>3. ASSUME NEW s \in Quoting(item)
      PROVE  /\ item.offers[s].total.amount \in Nat \cup {None}
             /\ item.offers[s].days \in Nat \cup {None}
  <2>1. s \in Suppliers /\ item.offers[s] = OfferOf(lines, s, p)
        /\ OfferOf(lines, s, p).status = "quoted"
    BY <1>1, <1>2
  <2>. QED
    BY <2>1, OfferNumbers
<1>4. IsFiniteSet(priced) /\ IsFiniteSet(timed)
  <2>1. priced \subseteq Suppliers /\ timed \subseteq Suppliers
    BY <1>2
  <2>. HIDE DEF priced, timed
  <2>. QED
    BY <2>1, RulesAssumption, FS_Subset
<1>5. prices \in SUBSET Nat /\ days \in SUBSET Nat
  BY <1>3
<1>6. IsFiniteSet(prices) /\ IsFiniteSet(days)
  <2>. DEFINE f == [s \in priced |-> item.offers[s].total.amount]
              g == [s \in timed |-> item.offers[s].days]
  <2>. HIDE DEF priced, timed
  <2>1. f \in Surjection(priced, prices) /\ g \in Surjection(timed, days)
    BY DEF Surjection
  <2>. QED
    BY <1>4, <2>1, FS_Surjection
<1>7. /\ MinimumPrice(item) = IF item.money # "comparable" THEN None ELSE Least(prices)
      /\ MinimumDelivery(item) = Least(days)
  BY Zenon DEF MinimumPrice, MinimumDelivery
<1>. HIDE DEF prices, days
<1>. QED
  BY <1>5, <1>6, <1>7, LeastIsANumber DEF item

\* Of two offers for an item that count, the one that is nowhere worse has the more
\* points.
LEMMA PointsCompare ==
  ASSUME NEW item, NEW w \in Weights, NEW r, NEW a \in Lines, NEW b \in Lines,
         MinimumPrice(item) \in Nat \cup {None}, MinimumDelivery(item) \in Nat \cup {None},
         ItemReasons(item, QuotedOffer(a, r), w) = {},
         ItemReasons(item, QuotedOffer(b, r), w) = {},
         a.total # None, a.total > 0, DaysOf(a) # None, DaysOf(a) > 0,
         b.total # None, b.total > 0, DaysOf(b) # None, DaysOf(b) > 0,
         a.compliance \in {"compliant", "partial"}, b.compliance \in {"compliant", "partial"},
         a.total <= b.total, DaysOf(a) <= DaysOf(b), Technically(a) >= Technically(b)
  PROVE  /\ Points(item, QuotedOffer(a, r), w) \in Nat
         /\ Points(item, QuotedOffer(b, r), w) \in Nat
         /\ Points(item, QuotedOffer(b, r), w) <= Points(item, QuotedOffer(a, r), w)
<1>. DEFINE oa == QuotedOffer(a, r)
            ob == QuotedOffer(b, r)
<1>1. /\ oa.status = "quoted" /\ ob.status = "quoted"
      /\ oa.total.amount = a.total /\ ob.total.amount = b.total
      /\ oa.days = DaysOf(a) /\ ob.days = DaysOf(b)
      /\ oa.compliance = a.compliance /\ ob.compliance = b.compliance
  BY DEF QuotedOffer, Money
<1>2. PICK ta \in Nat \ {0}, tb \in Nat \ {0}, da \in Nat \ {0}, db \in Nat \ {0} :
        /\ ta = a.total /\ tb = b.total /\ da = DaysOf(a) /\ db = DaysOf(b)
        /\ ta <= tb /\ da <= db
  <2>1. /\ a.total \in Nat \cup {None} /\ DaysOf(a) \in Nat \cup {None}
        /\ b.total \in Nat \cup {None} /\ DaysOf(b) \in Nat \cup {None}
    BY InputsAssumption DEF LineTypes, DaysOf
  <2>. QED
    BY <2>1
<1>3. /\ w.technical \in Nat /\ w.price \in Nat /\ w.delivery \in Nat
  <2>1. AcceptedWeights(w)
    BY InputsAssumption, Zenon
  <2>2. \A k \in {"technical", "price", "delivery"} : w[k] \in 0..Whole
    BY <2>1, Zenon DEF AcceptedWeights
  <2>3. 0..Whole \subseteq Nat
    BY DEF Whole
  <2>. QED
    BY <2>2, <2>3, Zenon
<1>4. /\ w.price > 0 => PriceScore(item, oa) # None /\ PriceScore(item, ob) # None
      /\ w.delivery > 0 => DeliveryScore(item, oa) # None /\ DeliveryScore(item, ob) # None
  <2>. HIDE DEF oa, ob
  <2>1. ASSUME NEW o, o.status = "quoted", ItemReasons(item, o, w) = {}
        PROVE  /\ w.price > 0 => PriceScore(item, o) # None
               /\ w.delivery > 0 => DeliveryScore(item, o) # None
    <3>1. "price_not_comparable" \notin ItemReasons(item, o, w)
          /\ "delivery_not_comparable" \notin ItemReasons(item, o, w)
      BY <2>1
    <3>. QED
      BY <2>1, <3>1, Zenon DEF ItemReasons
  <2>. QED
    BY <1>1, <2>1 DEF oa, ob
<1>. HIDE DEF oa, ob
<1>5. /\ TechnicalScore(oa) \in Nat /\ TechnicalScore(ob) \in Nat
      /\ TechnicalScore(ob) <= TechnicalScore(oa)
  <2>1. Scale \in Nat /\ Scale \div 2 \in Nat /\ Scale \div 2 <= Scale
    BY RulesAssumption
  <2>2. /\ TechnicalScore(oa) = IF a.compliance = "compliant" THEN Scale ELSE Scale \div 2
        /\ TechnicalScore(ob) = IF b.compliance = "compliant" THEN Scale ELSE Scale \div 2
    BY <1>1 DEF TechnicalScore
  <2>3. b.compliance = "compliant" => a.compliance = "compliant"
    BY DEF Technically
  <2>. QED
    BY <2>1, <2>2, <2>3
<1>6. ASSUME w.price > 0
      PROVE  /\ PriceScore(item, oa) \in Nat /\ PriceScore(item, ob) \in Nat
             /\ PriceScore(item, ob) <= PriceScore(item, oa)
  <2>1. /\ PriceScore(item, oa) = RatioTo(MinimumPrice(item), ta)
        /\ PriceScore(item, ob) = RatioTo(MinimumPrice(item), tb)
    BY <1>1, <1>2, <1>4, <1>6, Zenon DEF PriceScore
  <2>2. MinimumPrice(item) # None
    BY <1>4, <1>6, <2>1, Zenon DEF RatioTo
  <2>3. PICK m \in Nat : m = MinimumPrice(item)
    BY <2>2
  <2>4. RatioTo(m, ta) \in Nat /\ RatioTo(m, tb) \in Nat /\ RatioTo(m, tb) <= RatioTo(m, ta)
    BY <1>2, LessIsBetter
  <2>. QED
    BY <2>1, <2>3, <2>4
<1>7. ASSUME w.delivery > 0
      PROVE  /\ DeliveryScore(item, oa) \in Nat /\ DeliveryScore(item, ob) \in Nat
             /\ DeliveryScore(item, ob) <= DeliveryScore(item, oa)
  <2>1. /\ DeliveryScore(item, oa) = RatioTo(MinimumDelivery(item), da)
        /\ DeliveryScore(item, ob) = RatioTo(MinimumDelivery(item), db)
    BY <1>1, <1>2, Zenon DEF DeliveryScore
  <2>2. MinimumDelivery(item) # None
    BY <1>4, <1>7, <2>1, Zenon DEF RatioTo
  <2>3. PICK m \in Nat : m = MinimumDelivery(item)
    BY <2>2
  <2>4. RatioTo(m, da) \in Nat /\ RatioTo(m, db) \in Nat /\ RatioTo(m, db) <= RatioTo(m, da)
    BY <1>2, LessIsBetter
  <2>. QED
    BY <2>1, <2>3, <2>4
<1>8. ASSUME NEW k \in Nat, NEW u \in Nat, NEW v \in Nat, u <= v
      PROVE  k * u \in Nat /\ k * v \in Nat /\ k * u <= k * v
  BY <1>8, Z3
<1>9. PICK A, B, C, D, E, F :
        /\ A = IF w.technical > 0 THEN w.technical * TechnicalScore(oa) ELSE 0
        /\ B = IF w.technical > 0 THEN w.technical * TechnicalScore(ob) ELSE 0
        /\ C = IF w.price > 0 THEN w.price * PriceScore(item, oa) ELSE 0
        /\ D = IF w.price > 0 THEN w.price * PriceScore(item, ob) ELSE 0
        /\ E = IF w.delivery > 0 THEN w.delivery * DeliveryScore(item, oa) ELSE 0
        /\ F = IF w.delivery > 0 THEN w.delivery * DeliveryScore(item, ob) ELSE 0
  OBVIOUS
<1>10. A \in Nat /\ B \in Nat /\ B <= A
  BY <1>3, <1>5, <1>8, <1>9
<1>11. C \in Nat /\ D \in Nat /\ D <= C
  <2>1. CASE w.price > 0
    BY <1>3, <1>6, <1>8, <1>9, <2>1
  <2>2. CASE ~(w.price > 0)
    BY <1>9, <2>2
  <2>. QED
    BY <2>1, <2>2
<1>12. E \in Nat /\ F \in Nat /\ F <= E
  <2>1. CASE w.delivery > 0
    BY <1>3, <1>7, <1>8, <1>9, <2>1
  <2>2. CASE ~(w.delivery > 0)
    BY <1>9, <2>2
  <2>. QED
    BY <2>1, <2>2
<1>13. Points(item, oa, w) = A + C + E /\ Points(item, ob, w) = B + D + F
  BY <1>9, Zenon DEF Points
<1>. QED
  BY <1>10, <1>11, <1>12, <1>13 DEF oa, ob

-----------------------------------------------------------------------------
(* Who is better in everything scores higher *)

LinesAt(lines, s, p) == {k.line : k \in OwnLines(lines, s, p)}

TheLine(lines, s, p) == CHOOSE l \in LinesAt(lines, s, p) : TRUE

NothingMissing(l) ==
  /\ l.total # None /\ l.total > 0 /\ DaysOf(l) # None /\ DaysOf(l) > 0
  /\ l.compliance \in {"compliant", "partial"}

NowhereWorse(a, b) ==
  a.total <= b.total /\ DaysOf(a) <= DaysOf(b) /\ Technically(a) >= Technically(b)

\* An offer that is quoted is of the only line, which is known if one is.
LEMMA QuotedLine ==
  ASSUME NEW lines, IsFiniteSet(lines), \A l \in lines : l.line \in Lines, NEW s, NEW p,
         OfferOf(lines, s, p).status = "quoted",
         \E l \in LinesAt(lines, s, p) : NothingMissing(l)
  PROVE  /\ TheLine(lines, s, p) \in Lines
         /\ NothingMissing(TheLine(lines, s, p))
         /\ OfferOf(lines, s, p) = QuotedOffer(TheLine(lines, s, p), Requested[p])
<1>1. PICK l \in lines :
        /\ OwnLines(lines, s, p) = {l}
        /\ OfferOf(lines, s, p) = QuotedOffer(l.line, Requested[p])
        /\ l.line = CHOOSE m \in {k.line : k \in OwnLines(lines, s, p)} : TRUE
  BY TheOnlyLine
<1>2. l.line = TheLine(lines, s, p) /\ l.line \in Lines
  BY <1>1, Zenon DEF TheLine, LinesAt
<1>3. LinesAt(lines, s, p) = {l.line}
  BY <1>1 DEF LinesAt
<1>. QED
  BY <1>1, <1>2, <1>3

\* Of two suppliers who may be recommended, in one product.
LEMMA BetterPoints ==
  ASSUME NEW lines, IsFiniteSet(lines), \A l \in lines : l.line \in Lines,
         NEW w \in Weights, NEW p \in Products, NEW s \in Suppliers, NEW r \in Suppliers,
         NEW item, item = BuildItem(lines, p),
         ItemReasons(item, item.offers[s], w) = {}, ItemReasons(item, item.offers[r], w) = {},
         \E l \in LinesAt(lines, s, p) : NothingMissing(l),
         \E l \in LinesAt(lines, r, p) : NothingMissing(l),
         NowhereWorse(TheLine(lines, s, p), TheLine(lines, r, p))
  PROVE  /\ Points(item, item.offers[s], w) \in Nat
         /\ Points(item, item.offers[r], w) \in Nat
         /\ Points(item, item.offers[r], w) <= Points(item, item.offers[s], w)
<1>1. item.offers[s] = OfferOf(lines, s, p) /\ item.offers[r] = OfferOf(lines, r, p)
  BY Zenon DEF BuildItem
<1>2. item.offers[s].status = "quoted" /\ item.offers[r].status = "quoted"
  BY Zenon DEF ItemReasons
<1>3. PICK a \in Lines, b \in Lines :
        a = TheLine(lines, s, p) /\ b = TheLine(lines, r, p)
  BY <1>1, <1>2, QuotedLine
<1>4. /\ NothingMissing(a) /\ NothingMissing(b) /\ NowhereWorse(a, b)
      /\ item.offers[s] = QuotedOffer(a, Requested[p])
      /\ item.offers[r] = QuotedOffer(b, Requested[p])
  BY <1>1, <1>2, <1>3, QuotedLine
<1>5. /\ MinimumPrice(item) \in Nat \cup {None}
      /\ MinimumDelivery(item) \in Nat \cup {None}
  BY MinimumsAreNumbers
<1>6. PICK q : q = Requested[p]
  OBVIOUS
<1>7. /\ ItemReasons(item, QuotedOffer(a, q), w) = {}
      /\ ItemReasons(item, QuotedOffer(b, q), w) = {}
  BY <1>4, <1>6, Zenon
<1>8. /\ a.total # None /\ a.total > 0 /\ DaysOf(a) # None /\ DaysOf(a) > 0
      /\ b.total # None /\ b.total > 0 /\ DaysOf(b) # None /\ DaysOf(b) > 0
      /\ a.compliance \in {"compliant", "partial"} /\ b.compliance \in {"compliant", "partial"}
      /\ a.total <= b.total /\ DaysOf(a) <= DaysOf(b) /\ Technically(a) >= Technically(b)
  BY <1>4, Zenon DEF NothingMissing, NowhereWorse
<1>9. /\ Points(item, QuotedOffer(a, q), w) \in Nat
      /\ Points(item, QuotedOffer(b, q), w) \in Nat
      /\ Points(item, QuotedOffer(b, q), w) <= Points(item, QuotedOffer(a, q), w)
  BY <1>5, <1>7, <1>8, PointsCompare
<1>. QED
  BY <1>4, <1>6, <1>9, Zenon

\* And in all of them.
LEMMA BetterScores ==
  ASSUME NEW lines, IsFiniteSet(lines), \A l \in lines : l.line \in Lines,
         NEW quoting, NEW w \in Weights, NEW x, x = Comparison(lines, quoting),
         NEW s \in Eligible(x, w), NEW r \in Eligible(x, w),
         \A p \in Products : \E l \in LinesAt(lines, s, p) : NothingMissing(l),
         \A p \in Products : \E l \in LinesAt(lines, r, p) : NothingMissing(l),
         \A p \in Products : NowhereWorse(TheLine(lines, s, p), TheLine(lines, r, p))
  PROVE  /\ Score(x, s, w) \in Nat /\ Score(x, r, w) \in Nat
         /\ Score(x, r, w) <= Score(x, s, w)
<1>. DEFINE f == [p \in Products |-> Points(x.items[p], x.items[p].offers[s], w)]
            g == [p \in Products |-> Points(x.items[p], x.items[p].offers[r], w)]
            id == [p \in Products |-> p]
<1>1. s \in Suppliers /\ r \in Suppliers
  BY DEF Eligible
<1>2. ASSUME NEW p \in Products
      PROVE  /\ Points(x.items[p], x.items[p].offers[s], w) \in Nat
             /\ Points(x.items[p], x.items[p].offers[r], w) \in Nat
             /\ Points(x.items[p], x.items[p].offers[r], w)
                  <= Points(x.items[p], x.items[p].offers[s], w)
  <2>1. PICK item : item = x.items[p]
    OBVIOUS
  <2>2. item = BuildItem(lines, p)
    BY <2>1, Zenon DEF Comparison
  <2>3. ItemReasons(item, item.offers[s], w) = {} /\ ItemReasons(item, item.offers[r], w) = {}
    BY <2>1 DEF Eligible, Reasons
  <2>4. /\ Points(item, item.offers[s], w) \in Nat
        /\ Points(item, item.offers[r], w) \in Nat
        /\ Points(item, item.offers[r], w) <= Points(item, item.offers[s], w)
    BY <1>1, <2>2, <2>3, BetterPoints
  <2>. QED
    BY <2>1, <2>4, Zenon
<1>3. /\ f \in [Products -> Nat] /\ g \in [Products -> Nat]
      /\ \A p \in Products : g[p] <= f[p]
  BY <1>2
<1>4. f \in [Products -> Int] /\ g \in [Products -> Int]
  BY <1>3
<1>5. PICK h : /\ IsSum(h, f, Products)
               /\ Score(x, s, w) = RoundHalfEven(h[Products], Scale * Cardinality(Products))
  BY <1>4, ScoreIsASum
<1>6. PICK k : /\ IsSum(k, g, Products)
               /\ Score(x, r, w) = RoundHalfEven(k[Products], Scale * Cardinality(Products))
  BY <1>4, ScoreIsASum
<1>. HIDE DEF f, g
<1>7. IsFiniteSet(Products) /\ Products \in SUBSET Products
  BY RulesAssumption
<1>8. h[Products] \in Nat /\ k[Products] \in Nat
  BY <1>3, <1>5, <1>6, <1>7, SumIsNat
<1>9. k[Products] <= h[Products]
  <2>1. /\ id \in [Products -> Products]
        /\ \A p, q \in Products : id[p] = id[q] => p = q
        /\ \A p \in Products : g[p] <= f[id[p]]
    BY <1>3
  <2>2. {id[p] : p \in Products} = Products
    OBVIOUS
  <2>. HIDE DEF id
  <2>3. k[Products] <= h[{id[p] : p \in Products}]
    <3>1. PICK T : T = Products
      OBVIOUS
    <3>2. /\ IsFiniteSet(T) /\ T \in SUBSET T
          /\ f \in [T -> Int] /\ g \in [T -> Int] /\ IsSum(h, f, T) /\ IsSum(k, g, T)
          /\ id \in [T -> T] /\ \A p, q \in T : id[p] = id[q] => p = q
          /\ \A p \in T : g[p] <= f[id[p]]
      BY <1>4, <1>5, <1>6, <1>7, <2>1, <3>1
    <3>3. k[T] <= h[{id[p] : p \in T}]
      BY <3>2, SumsCompare
    <3>. QED
      BY <3>1, <3>3, Zenon
  <2>. QED
    BY <2>2, <2>3
<1>10. Scale * Cardinality(Products) \in Nat \ {0}
  <2>1. Cardinality(Products) \in Nat /\ Cardinality(Products) # 0
    BY RulesAssumption, FS_CardinalityType, FS_EmptySet
  <2>2. Scale \in Nat \ {0}
    BY RulesAssumption
  <2>. QED
    BY <2>1, <2>2, Z3
<1>11. PICK n \in Nat, m \in Nat, d \in Nat \ {0} :
         n = k[Products] /\ m = h[Products] /\ d = Scale * Cardinality(Products)
  BY <1>8, <1>10
<1>12. n <= m
  BY <1>9, <1>11
<1>13. /\ RoundHalfEven(n, d) \in Nat /\ RoundHalfEven(m, d) \in Nat
       /\ RoundHalfEven(n, d) <= RoundHalfEven(m, d)
  BY <1>12, RoundingIsMonotone
<1>. QED
  BY <1>5, <1>6, <1>11, <1>13, Zenon

-----------------------------------------------------------------------------
(* The legacy comparator *)

LinesBy(lines, s) == {l \in lines : l.line.supplier = s}

\* What LegacyScore adds up.
LEMMA LegacyIsASum ==
  ASSUME NEW lines, NEW s, IsFiniteSet(LinesBy(lines, s)), NEW f \in [LinesBy(lines, s) -> Int],
         f = [l \in LinesBy(lines, s) |-> LegacyLineScore(lines, l)]
  PROVE  \E h : /\ IsSum(h, f, LinesBy(lines, s))
                /\ LegacyScore(lines, s) = RoundHalfEven(h[LinesBy(lines, s)],
                                                         Cardinality(LinesBy(lines, s)))
<1>. DEFINE own == LinesBy(lines, s)
            Of(l) == LegacyLineScore(lines, l)
            Adds(g) == g = [S \in SUBSET own |->
                   IF S = {} THEN 0
                   ELSE Of(CHOOSE l \in S : TRUE) + g[S \ {CHOOSE l \in S : TRUE}]]
            h == CHOOSE g : Adds(g)
<1>1. ASSUME NEW g
      PROVE  IsSum(g, f, own) <=> Adds(g)
  <2>1. f = [l \in own |-> Of(l)]
    OBVIOUS
  <2>. HIDE DEF Of, own
  <2>2. ASSUME NEW S \in SUBSET own
        PROVE  (IF S = {} THEN 0 ELSE f[CHOOSE l \in S : TRUE] + g[Rest(S)])
               = (IF S = {} THEN 0
                  ELSE Of(CHOOSE l \in S : TRUE) + g[S \ {CHOOSE l \in S : TRUE}])
    <3>1. CASE S = {}
      BY <3>1
    <3>2. CASE S # {}
      <4>1. PICK c \in S : c = CHOOSE l \in S : TRUE
        BY <3>2
      <4>2. f[c] = Of(c)
        BY <2>1
      <4>3. f[CHOOSE l \in S : TRUE] = Of(CHOOSE l \in S : TRUE)
        BY <4>1, <4>2
      <4>4. Rest(S) = S \ {CHOOSE l \in S : TRUE}
        BY DEF Rest
      <4>. QED
        BY <3>2, <4>3, <4>4
    <3>. QED
      BY <3>1, <3>2
  <2>. QED
    BY <2>2, Zenon DEF IsSum
<1>2. PICK g : IsSum(g, f, own)
  BY SumExists
<1>. HIDE DEF Adds
<1>3. IsSum(h, f, own)
  <2>1. Adds(g)
    BY <1>1, <1>2
  <2>2. Adds(h)
    BY <2>1, Zenon
  <2>. HIDE DEF h
  <2>. QED
    BY <1>1, <2>2
<1>4. LegacyScore(lines, s) = RoundHalfEven(h[own], Cardinality(own))
  BY Zenon DEF LegacyScore, LinesBy, MapThenSumSet, MapThenFoldSet, Adds
<1>. QED
  BY <1>3, <1>4

\* The line that is nowhere worse than another for the product has the more points.
LEMMA BetterLine ==
  ASSUME NEW lines, IsFiniteSet(lines), \A m \in lines : m.line \in Lines,
         NEW k \in lines, NEW l \in lines, k.line.product = l.line.product,
         NothingMissing(k.line), NothingMissing(l.line),
         k.line.days # None, l.line.days # None, NowhereWorse(k.line, l.line)
  PROVE  /\ LegacyLineScore(lines, k) \in Nat /\ LegacyLineScore(lines, l) \in Nat
         /\ LegacyLineScore(lines, l) <= LegacyLineScore(lines, k)
<1>. DEFINE same == SameProduct(lines, l)
            currencies == {m.line.currency : m \in {m \in same :
              m.line.currency # None /\ (m.line.total # None \/ m.line.unitPrice # None)}}
            priced == {m \in same : m.line.total # None}
            timed == {m \in same : m.line.days # None}
            totals == {m.line.total : m \in priced}
            days == {m.line.days : m \in timed}
<1>0. /\ \A m \in lines : /\ m.line.total \in Nat \cup {None}
                          /\ m.line.days \in Nat \cup {None}
      /\ None \notin Int /\ Scale \in Nat \ {0}
  BY InputsAssumption, RulesAssumption DEF LineTypes
<1>1. SameProduct(lines, k) = same
  BY DEF SameProduct
<1>2. same \subseteq lines /\ k \in same /\ l \in same
  BY DEF SameProduct
<1>3. PICK tk \in Nat \ {0}, tl \in Nat \ {0}, dk \in Nat \ {0}, dl \in Nat \ {0} :
        /\ tk = k.line.total /\ tl = l.line.total
        /\ dk = k.line.days /\ dl = l.line.days
        /\ tk <= tl /\ dk <= dl
  <2>1. /\ k.line.total \in Nat \ {0} /\ l.line.total \in Nat \ {0}
        /\ k.line.total <= l.line.total
    BY <1>0 DEF NothingMissing, NowhereWorse
  <2>2. DaysOf(k.line) = k.line.days /\ DaysOf(l.line) = l.line.days
    BY DEF DaysOf
  <2>3. /\ k.line.days \in Nat \ {0} /\ l.line.days \in Nat \ {0}
        /\ k.line.days <= l.line.days
    BY <1>0, <2>2 DEF NothingMissing, NowhereWorse
  <2>. QED
    BY <2>1, <2>3
<1>4. Least(totals) \in Nat /\ Least(days) \in Nat
  <2>1. totals \in SUBSET Nat /\ days \in SUBSET Nat
    BY <1>0, <1>2
  <2>2. totals # {} /\ days # {}
    BY <1>2, <1>3, <1>0
  <2>3. IsFiniteSet(totals) /\ IsFiniteSet(days)
    <3>. DEFINE f == [m \in priced |-> m.line.total]
                g == [m \in timed |-> m.line.days]
    <3>1. priced \subseteq lines /\ timed \subseteq lines
      BY <1>2
    <3>. HIDE DEF priced, timed
    <3>2. IsFiniteSet(priced) /\ IsFiniteSet(timed)
      BY <3>1, FS_Subset
    <3>3. f \in Surjection(priced, totals) /\ g \in Surjection(timed, days)
      BY DEF Surjection
    <3>. QED
      BY <3>2, <3>3, FS_Surjection
  <2>. HIDE DEF totals, days
  <2>4. Min(totals) \in totals /\ Min(days) \in days
    BY <2>1, <2>2, <2>3, MinIsLeast
  <2>. QED
    BY <2>1, <2>2, <2>4 DEF Least
<1>. HIDE DEF totals, days
<1>5. Cardinality(currencies) \in Nat
  <2>. DEFINE coined == {m \in same :
                m.line.currency # None /\ (m.line.total # None \/ m.line.unitPrice # None)}
              f == [m \in coined |-> m.line.currency]
              image == {m.line.currency : m \in coined}
  <2>1. coined \subseteq lines
    BY <1>2
  <2>2. image = currencies
    OBVIOUS
  <2>. HIDE DEF coined, currencies
  <2>3. f \in Surjection(coined, image)
    BY DEF Surjection
  <2>4. IsFiniteSet(coined)
    BY <2>1, FS_Subset
  <2>. HIDE DEF image, f
  <2>. QED
    BY <2>2, <2>3, <2>4, FS_Surjection, FS_CardinalityType
<1>. HIDE DEF currencies, same
<1>6. /\ LegacyTechnical(k) \in Nat /\ LegacyTechnical(l) \in Nat
      /\ LegacyTechnical(l) <= LegacyTechnical(k)
  <2>1. Scale \div 2 \in Nat /\ Scale \div 2 <= Scale
    BY <1>0
  <2>2. /\ LegacyTechnical(k) = IF k.line.compliance = "compliant" THEN Scale ELSE Scale \div 2
        /\ LegacyTechnical(l) = IF l.line.compliance = "compliant" THEN Scale ELSE Scale \div 2
    BY DEF LegacyTechnical, NothingMissing
  <2>3. l.line.compliance = "compliant" => k.line.compliance = "compliant"
    BY DEF Technically, NowhereWorse
  <2>. QED
    BY <1>0, <2>1, <2>2, <2>3
<1>7. /\ LegacyPrice(lines, k) \in Nat /\ LegacyPrice(lines, l) \in Nat
      /\ LegacyPrice(lines, l) <= LegacyPrice(lines, k)
  <2>0. Scale \div 2 \in Nat
    BY <1>0
  <2>1. PICK min \in Nat : min = Least(totals)
    BY <1>4
  <2>. DEFINE Of(m) == IF Least(totals) = 0 THEN Scale \div 2
                       ELSE (Least(totals) * Scale) \div m.line.total
  <2>2. ASSUME NEW m \in {k, l}
        PROVE  LegacyPrice(lines, m) =
                 CASE Cardinality(currencies) > 1 \/ m.line.total = None -> Scale \div 2
                   [] Cardinality(currencies) <= 1 /\ m.line.total = 0 -> Scale
                   [] Cardinality(currencies) <= 1 /\ m.line.total # None
                      /\ m.line.total > 0 -> Of(m)
    <3>1. SameProduct(lines, m) = SameProduct(lines, l)
      BY <1>1 DEF same
    <3>. QED
      BY <3>1, Zenon DEF LegacyPrice, currencies, totals, priced, same
  <2>. HIDE DEF Of
  <2>3. /\ k.line.total # None /\ ~(k.line.total = 0) /\ k.line.total > 0
        /\ l.line.total # None /\ ~(l.line.total = 0) /\ l.line.total > 0
    BY <1>0, <1>3
  <2>4. CASE Cardinality(currencies) > 1
    <3>1. ~(Cardinality(currencies) <= 1)
      BY <1>5, <2>4
    <3>2. ASSUME NEW m \in {k, l} PROVE LegacyPrice(lines, m) = Scale \div 2
      BY <2>2, <2>4, <3>1, Zenon
    <3>. QED
      BY <2>0, <3>2
  <2>5. CASE ~(Cardinality(currencies) > 1)
    <3>1. ASSUME NEW m \in {k, l} PROVE LegacyPrice(lines, m) = Of(m)
      <4>1. Cardinality(currencies) <= 1
        BY <1>5, <2>5
      <4>2. m.line.total # None /\ ~(m.line.total = 0) /\ m.line.total > 0
        BY <2>3
      <4>. QED
        BY <2>2, <2>5, <4>1, <4>2, Zenon
    <3>2. /\ LegacyPrice(lines, k) = IF min = 0 THEN Scale \div 2 ELSE (min * Scale) \div tk
          /\ LegacyPrice(lines, l) = IF min = 0 THEN Scale \div 2 ELSE (min * Scale) \div tl
      BY <1>3, <2>1, <3>1 DEF Of
    <3>3. PICK n \in Nat : n = min * Scale
      BY <1>0
    <3>4. n \div tk \in Nat /\ n \div tl \in Nat
      BY Z3
    <3>5. n \div tl <= n \div tk
      BY <1>3, DivisionByMore
    <3>. QED
      BY <2>0, <3>2, <3>3, <3>4, <3>5
  <2>. QED
    BY <2>4, <2>5
<1>8. /\ LegacyDelivery(lines, k) \in Nat /\ LegacyDelivery(lines, l) \in Nat
      /\ LegacyDelivery(lines, l) <= LegacyDelivery(lines, k)
  <2>1. PICK min \in Nat : min = Least(days)
    BY <1>4
  <2>2. Max({min, 1}) \in Nat
    <3>1. IsFiniteSet({min, 1})
      BY PairIsFinite
    <3>2. {min, 1} \in SUBSET Int /\ {min, 1} # {}
      OBVIOUS
    <3>3. Max({min, 1}) \in {min, 1}
      BY <3>1, <3>2, MaxIsGreatest
    <3>. QED
      BY <3>3
  <2>3. PICK n \in Nat : n = Max({min, 1}) * Scale
    BY <1>0, <2>2
  <2>4. dk # None /\ dk # 0 /\ dl # None /\ dl # 0
    BY <1>0
  <2>5. /\ LegacyDelivery(lines, k) = Min({Scale, n \div dk})
        /\ LegacyDelivery(lines, l) = Min({Scale, n \div dl})
    BY <1>1, <1>3, <2>1, <2>3, <2>4, Zenon DEF LegacyDelivery, same, days, timed
  <2>6. n \div dk \in Nat /\ n \div dl \in Nat
    BY Z3
  <2>7. n \div dl <= n \div dk
    BY <1>3, DivisionByMore
  <2>8. /\ Min({Scale, n \div dk}) = IF Scale <= n \div dk THEN Scale ELSE n \div dk
        /\ Min({Scale, n \div dl}) = IF Scale <= n \div dl THEN Scale ELSE n \div dl
    BY <2>6, AtMostOne
  <2>. QED
    BY <1>0, <2>5, <2>6, <2>7, <2>8
<1>9. PICK A \in Nat, B \in Nat, C \in Nat, D \in Nat, E \in Nat, F \in Nat :
        /\ A = LegacyTechnical(k) /\ C = LegacyPrice(lines, k) /\ E = LegacyDelivery(lines, k)
        /\ B = LegacyTechnical(l) /\ D = LegacyPrice(lines, l) /\ F = LegacyDelivery(lines, l)
        /\ B <= A /\ D <= C /\ F <= E
  BY <1>6, <1>7, <1>8
<1>10. PICK n \in Nat, m \in Nat :
         n = 5000 * A + 3500 * C + 1500 * E /\ m = 5000 * B + 3500 * D + 1500 * F /\ m <= n
  BY <1>9
<1>11. /\ LegacyLineScore(lines, k) = RoundHalfEven(n, Scale)
       /\ LegacyLineScore(lines, l) = RoundHalfEven(m, Scale)
  <2>1. /\ n = 5000 * LegacyTechnical(k) + 3500 * LegacyPrice(lines, k)
                 + 1500 * LegacyDelivery(lines, k)
        /\ m = 5000 * LegacyTechnical(l) + 3500 * LegacyPrice(lines, l)
                 + 1500 * LegacyDelivery(lines, l)
    BY <1>9, <1>10
  <2>. QED
    BY <2>1 DEF LegacyLineScore
<1>. QED
  BY <1>0, <1>10, <1>11, RoundingIsMonotone

\* What is asked of two suppliers: one line each for every product, and the first
\* nowhere worse than the second.
Outdoes(lines, s, r) ==
  \A p \in Products : \E k, l \in lines :
    /\ OwnLines(lines, s, p) = {k} /\ OwnLines(lines, r, p) = {l}
    /\ NothingMissing(k.line) /\ NothingMissing(l.line)
    /\ k.line.days # None /\ l.line.days # None /\ NowhereWorse(k.line, l.line)

\* Line for line the better supplier has the more points, and on average too.
LEMMA LegacyScoresCompare ==
  ASSUME NEW lines, IsFiniteSet(lines), \A l \in lines : l.line \in Lines,
         \A l \in lines : l.line.product # None,
         NEW s, NEW r, Outdoes(lines, s, r)
  PROVE  /\ LegacyScore(lines, s) \in Nat /\ LegacyScore(lines, r) \in Nat
         /\ LegacyScore(lines, r) <= LegacyScore(lines, s)
<1>. DEFINE T == LinesBy(lines, r)
            U == LinesBy(lines, s)
            f == [l \in T |-> LegacyLineScore(lines, l)]
            g == [l \in U |-> LegacyLineScore(lines, l)]
            Other(l) == CHOOSE k \in lines : OwnLines(lines, s, l.line.product) = {k}
            b == [l \in T |-> Other(l)]
<1>1. T \subseteq lines /\ U \subseteq lines
  BY DEF LinesBy
<1>2. \A l \in lines : l.line.product \in Products
  BY InputsAssumption DEF LineTypes
<1>3. ASSUME NEW l \in T
      PROVE  /\ Other(l) \in U
             /\ Other(l).line.product = l.line.product
             /\ OwnLines(lines, s, l.line.product) = {Other(l)}
             /\ OwnLines(lines, r, l.line.product) = {l}
             /\ LegacyLineScore(lines, l) \in Nat
             /\ LegacyLineScore(lines, Other(l)) \in Nat
             /\ LegacyLineScore(lines, l) <= LegacyLineScore(lines, Other(l))
  <2>1. PICK p \in Products : p = l.line.product
    BY <1>1, <1>2
  <2>2. PICK k, m \in lines :
          /\ OwnLines(lines, s, p) = {k} /\ OwnLines(lines, r, p) = {m}
          /\ NothingMissing(k.line) /\ NothingMissing(m.line)
          /\ k.line.days # None /\ m.line.days # None /\ NowhereWorse(k.line, m.line)
    BY DEF Outdoes
  <2>3. l \in OwnLines(lines, r, p)
    BY <2>1 DEF LinesBy, OwnLines
  <2>4. m = l
    BY <2>2, <2>3
  <2>5. Other(l) = k
    BY <2>1, <2>2
  <2>6. k \in OwnLines(lines, s, p)
    BY <2>2
  <2>7. k \in U /\ k.line.product = l.line.product
    BY <2>1, <2>6 DEF LinesBy, OwnLines
  <2>8. /\ LegacyLineScore(lines, k) \in Nat /\ LegacyLineScore(lines, l) \in Nat
        /\ LegacyLineScore(lines, l) <= LegacyLineScore(lines, k)
    <3>1. l \in lines /\ NothingMissing(l.line) /\ l.line.days # None
          /\ NowhereWorse(k.line, l.line)
      BY <2>2, <2>4
    <3>. QED
      BY <2>2, <2>7, <3>1, BetterLine
  <2>. HIDE DEF Other
  <2>. QED
    BY <2>1, <2>2, <2>4, <2>5, <2>7, <2>8
<1>4. ASSUME NEW k \in U
      PROVE  \E l \in T : Other(l) = k
  <2>1. PICK p \in Products : p = k.line.product
    BY <1>1, <1>2
  <2>2. PICK m, l \in lines : OwnLines(lines, s, p) = {m} /\ OwnLines(lines, r, p) = {l}
    BY DEF Outdoes
  <2>3. k \in OwnLines(lines, s, p) /\ l \in OwnLines(lines, r, p)
    BY <2>1, <2>2 DEF LinesBy, OwnLines
  <2>4. m = k /\ l \in T /\ l.line.product = p
    BY <2>2, <2>3 DEF LinesBy, OwnLines
  <2>5. {Other(l)} = {m}
    BY <1>3, <2>2, <2>4
  <2>. HIDE DEF Other
  <2>. QED
    BY <2>4, <2>5
<1>. HIDE DEF Other
<1>5. ASSUME NEW l \in T, NEW m \in T, Other(l) = Other(m)
      PROVE  l = m
  <2>1. l.line.product = m.line.product
    BY <1>3, <1>5
  <2>2. {l} = {m}
    BY <1>3, <2>1
  <2>. QED
    BY <2>2
<1>6. IsFiniteSet(T) /\ IsFiniteSet(U)
  BY <1>1, FS_Subset
<1>. HIDE DEF T, U
<1>7. ASSUME NEW k \in U PROVE LegacyLineScore(lines, k) \in Nat
  BY <1>3, <1>4
<1>8. /\ f \in [T -> Nat] /\ g \in [U -> Nat] /\ b \in [T -> U]
      /\ \A l, m \in T : b[l] = b[m] => l = m
      /\ \A l \in T : f[l] <= g[b[l]]
  BY <1>3, <1>5, <1>7
<1>9. {b[l] : l \in T} = U
  <2>1. \A l \in T : b[l] = Other(l) /\ b[l] \in U
    BY <1>8
  <2>. HIDE DEF b
  <2>. QED
    BY <1>4, <2>1
<1>10. /\ Cardinality(T) = Cardinality(U) /\ Cardinality(U) \in Nat /\ Cardinality(U) # 0
  <2>1. b \in Bijection(T, U)
    <3>. HIDE DEF b
    <3>1. \A k \in U : \E l \in T : b[l] = k
      BY <1>9
    <3>. QED
      BY <1>8, <3>1 DEF Bijection, Injection, Surjection, IsInjective
  <2>2. U # {}
    <3>1. PICK p \in Products : TRUE
      BY RulesAssumption
    <3>2. PICK k \in lines : OwnLines(lines, s, p) = {k}
      BY <3>1 DEF Outdoes
    <3>3. k \in U
      <4>1. k \in OwnLines(lines, s, p)
        BY <3>2
      <4>. QED
        BY <4>1 DEF OwnLines, U, LinesBy
    <3>. QED
      BY <3>3
  <2>. HIDE DEF b
  <2>. QED
    <3>1. Cardinality(U) \in Nat /\ Cardinality(U) # 0
      BY <1>6, <2>2, FS_CardinalityType, FS_EmptySet
    <3>2. Cardinality(T) = Cardinality(U)
      BY <1>6, <2>1, FS_Bijection DEF ExistsBijection
    <3>. QED
      BY <3>1, <3>2
<1>11. f \in [T -> Int] /\ g \in [U -> Int]
  BY <1>8
<1>12. PICK h : /\ IsSum(h, f, T)
                /\ LegacyScore(lines, r) = RoundHalfEven(h[T], Cardinality(T))
  BY <1>6, <1>11, LegacyIsASum DEF T
<1>13. PICK k : /\ IsSum(k, g, U)
                /\ LegacyScore(lines, s) = RoundHalfEven(k[U], Cardinality(U))
  BY <1>6, <1>11, LegacyIsASum DEF U
<1>. HIDE DEF f, g, b
<1>14. h[T] <= k[U]
  <2>1. h[T] <= k[{b[l] : l \in T}]
    <3>1. T \in SUBSET T
      OBVIOUS
    <3>. QED
      BY <1>6, <1>8, <1>11, <1>12, <1>13, <3>1, SumsCompare
  <2>. QED
    BY <1>9, <2>1
<1>15. h[T] \in Nat /\ k[U] \in Nat
  BY <1>6, <1>8, <1>12, <1>13, SumIsNat
<1>16. PICK n \in Nat, m \in Nat, d \in Nat \ {0} :
         n = h[T] /\ m = k[U] /\ d = Cardinality(U) /\ d = Cardinality(T)
  BY <1>10, <1>15
<1>17. n <= m
  BY <1>14, <1>16
<1>18. /\ RoundHalfEven(n, d) \in Nat /\ RoundHalfEven(m, d) \in Nat
       /\ RoundHalfEven(n, d) <= RoundHalfEven(m, d)
  BY <1>17, RoundingIsMonotone
<1>. QED
  BY <1>12, <1>13, <1>16, <1>18, Zenon

\* The lines of the input, as the properties and as the lemmas name them.
LEMMA SameLines ==
  ASSUME NEW lines, lines = input.lines, NEW s
  PROVE  /\ \A p : LinesOf(s, p) = LinesAt(lines, s, p) /\ LineOf(s, p) = TheLine(lines, s, p)
         /\ IsKnown(s) =>
              \A p \in Products : \E l \in LinesAt(lines, s, p) : NothingMissing(l)
<1>1. ASSUME NEW p PROVE LinesOf(s, p) = LinesAt(lines, s, p)
  BY DEF LinesOf, LinesAt, OwnLines
<1>2. ASSUME NEW p PROVE LineOf(s, p) = TheLine(lines, s, p)
  BY <1>1 DEF LineOf, TheLine
<1>3. ASSUME IsKnown(s), NEW p \in Products
      PROVE  \E l \in LinesAt(lines, s, p) : NothingMissing(l)
  BY <1>1, <1>3 DEF IsKnown, NothingMissing
<1>. QED
  BY <1>1, <1>2, <1>3

\* The one who is recommended is the only one with the best score.
LEMMA ChosenIsTheBest ==
  ASSUME NEW x, NEW w, Recommendation(x, w).status = "ready",
         NEW s \in Eligible(x, w), s # Recommendation(x, w).supplier,
         Score(x, s, w) \in Nat, Score(x, Recommendation(x, w).supplier, w) \in Nat
  PROVE  ~(Score(x, Recommendation(x, w).supplier, w) <= Score(x, s, w))
<1>. DEFINE eligible == Eligible(x, w)
            best == {t \in eligible : \A u \in eligible : Score(x, t, w) >= Score(x, u, w)}
            chosen == Recommendation(x, w).supplier
<1>1. ~(Cardinality(best) # 1)
  BY Zenon DEF Recommendation
<1>2. chosen \in best
  <2>1. x.status = "ready" /\ ~(\E t \in eligible : Score(x, t, w) > Whole)
    BY Zenon DEF Recommendation
  <2>2. chosen = CHOOSE t \in best : TRUE
    BY <1>1, <2>1, Zenon DEF Recommendation
  <2>. HIDE DEF best, chosen
  <2>3. best # {}
    <3>1. Cardinality({}) = 0
      BY FS_EmptySet
    <3>. QED
      BY <1>1, <3>1
  <2>. QED
    BY <2>2, <2>3
<1>3. PICK t : best = {t}
  <2>. HIDE DEF best
  <2>1. IsFiniteSet(best)
    <3>1. best \subseteq Suppliers
      BY DEF best, Eligible
    <3>. QED
      BY <3>1, RulesAssumption, FS_Subset
  <2>. QED
    BY <1>1, <2>1, FS_Singleton
<1>. SUFFICES ASSUME Score(x, chosen, w) <= Score(x, s, w)
              PROVE  FALSE
  OBVIOUS
<1>4. Score(x, chosen, w) = Score(x, s, w)
  <2>1. Score(x, chosen, w) >= Score(x, s, w)
    BY <1>2, Zenon
  <2>. HIDE DEF chosen
  <2>. QED
    BY <2>1 DEF chosen
<1>5. s \in best
  <2>1. \A u \in eligible : Score(x, chosen, w) >= Score(x, u, w)
    BY <1>2, Zenon
  <2>2. \A u \in eligible : Score(x, s, w) >= Score(x, u, w)
    BY <1>4, <2>1, Zenon
  <2>. QED
    BY <2>2
<1>. HIDE DEF best, chosen
<1>. QED
  BY <1>2, <1>3, <1>5 DEF chosen

LEMMA WinnerHolds == IInv => WinnerIsUndominated
<1>. SUFFICES ASSUME IInv, About("comparison"), Recommended.status = "ready",
                     NEW s \in Eligible(Compared, input.weights),
                     s # Recommended.supplier,
                     IsKnown(s), IsKnown(Recommended.supplier),
                     IsNoWorse(s, Recommended.supplier)
              PROVE  FALSE
  BY DEF WinnerIsUndominated
<1>0. PICK w \in Weights : w = input.weights
  BY DEF IInv, HasLines
<1>1. PICK lines, quoting :
        lines = input.lines /\ quoting = input.quoting /\ w = input.weights
  BY <1>0
<1>2. PICK x : x = Comparison(lines, quoting)
  OBVIOUS
<1>3. Compared = x /\ Recommended = Recommendation(x, w)
  BY <1>1, <1>2, Zenon DEF Recommended, Compared
<1>4. PICK r : r = Recommended.supplier
  OBVIOUS
<1>5. s \in Eligible(x, w) /\ r \in Eligible(x, w) /\ s # r
  BY <1>1, <1>3, <1>4, ChosenIsEligible, Zenon
<1>6. IsFiniteSet(lines) /\ \A l \in lines : l.line \in Lines
  BY <1>1 DEF IInv, HasLines
<1>7. /\ \A p \in Products : \E l \in LinesAt(lines, s, p) : NothingMissing(l)
      /\ \A p \in Products : \E l \in LinesAt(lines, r, p) : NothingMissing(l)
  BY <1>1, <1>4, SameLines, Zenon
<1>8. \A p \in Products : NowhereWorse(TheLine(lines, s, p), TheLine(lines, r, p))
  <2>1. ASSUME NEW p \in Products
        PROVE  NowhereWorse(LineOf(s, p), LineOf(r, p))
    BY <1>4 DEF IsNoWorse, NowhereWorse
  <2>. QED
    BY <1>1, <2>1, SameLines, Zenon
<1>9. /\ Score(x, s, w) \in Nat /\ Score(x, r, w) \in Nat
      /\ Score(x, r, w) <= Score(x, s, w)
  BY <1>2, <1>5, <1>6, <1>7, <1>8, BetterScores
<1>. QED
  BY <1>3, <1>4, <1>5, <1>9, ChosenIsTheBest

LEMMA LegacyHolds == IInv => LegacyPrefersBetter
<1>. DEFINE Own(s, p) == {l \in input.lines : l.line.supplier = s /\ l.line.product = p}
            Clear(s) == /\ \A p \in Products : Cardinality(Own(s, p)) = 1
                        /\ IsKnown(s) /\ \A p \in Products : LineOf(s, p).days # None
<1>1. ASSUME IInv, About("comparison"), \A l \in input.lines : l.line.product # None,
             NEW s \in Suppliers, NEW r \in Suppliers, Clear(s), Clear(r), IsNoWorse(s, r)
      PROVE  LegacyScore(input.lines, s) >= LegacyScore(input.lines, r)
  <2>1. PICK lines : lines = input.lines
    OBVIOUS
  <2>2. IsFiniteSet(lines) /\ \A l \in lines : l.line \in Lines /\ l.line.product # None
    BY <1>1, <2>1 DEF IInv, HasLines
  <2>3. ASSUME NEW t \in {s, r}, NEW p \in Products
        PROVE  \E k \in lines :
                 /\ OwnLines(lines, t, p) = {k} /\ LineOf(t, p) = k.line
                 /\ NothingMissing(k.line) /\ k.line.days # None
    <3>1. Clear(t)
      BY <1>1
    <3>2. OwnLines(lines, t, p) = Own(t, p)
      BY <2>1 DEF OwnLines
    <3>3. Cardinality(OwnLines(lines, t, p)) = 1 /\ IsFiniteSet(OwnLines(lines, t, p))
      <4>1. OwnLines(lines, t, p) \subseteq lines
        BY DEF OwnLines
      <4>. QED
        BY <2>2, <3>1, <3>2, <4>1, FS_Subset
    <3>4. PICK k : OwnLines(lines, t, p) = {k}
      BY <3>3, FS_Singleton
    <3>5. k \in lines
      BY <3>4 DEF OwnLines
    <3>6. LinesAt(lines, t, p) = {k.line}
      BY <3>4 DEF LinesAt
    <3>7. LineOf(t, p) = k.line
      <4>1. LineOf(t, p) = TheLine(lines, t, p)
        BY <2>1, SameLines
      <4>. QED
        BY <3>6, <4>1 DEF TheLine
    <3>8. \E l \in LinesAt(lines, t, p) : NothingMissing(l)
      BY <2>1, <3>1, SameLines
    <3>. QED
      BY <3>1, <3>4, <3>5, <3>6, <3>7, <3>8
  <2>. HIDE DEF Clear
  <2>4. Outdoes(lines, s, r)
    <3>. SUFFICES ASSUME NEW p \in Products
                  PROVE  \E k, l \in lines :
                    /\ OwnLines(lines, s, p) = {k} /\ OwnLines(lines, r, p) = {l}
                    /\ NothingMissing(k.line) /\ NothingMissing(l.line)
                    /\ k.line.days # None /\ l.line.days # None
                    /\ NowhereWorse(k.line, l.line)
      BY DEF Outdoes
    <3>1. PICK k \in lines :
            /\ OwnLines(lines, s, p) = {k} /\ LineOf(s, p) = k.line
            /\ NothingMissing(k.line) /\ k.line.days # None
      BY <2>3
    <3>2. PICK l \in lines :
            /\ OwnLines(lines, r, p) = {l} /\ LineOf(r, p) = l.line
            /\ NothingMissing(l.line) /\ l.line.days # None
      BY <2>3
    <3>3. NowhereWorse(k.line, l.line)
      <4>1. NowhereWorse(LineOf(s, p), LineOf(r, p))
        BY <1>1 DEF IsNoWorse, NowhereWorse
      <4>. QED
        BY <3>1, <3>2, <4>1
    <3>. QED
      BY <3>1, <3>2, <3>3
  <2>5. /\ LegacyScore(lines, s) \in Nat /\ LegacyScore(lines, r) \in Nat
        /\ LegacyScore(lines, r) <= LegacyScore(lines, s)
    BY <2>2, <2>4, LegacyScoresCompare
  <2>. QED
    BY <2>1, <2>5
<1>. QED
  BY <1>1 DEF LegacyPrefersBetter

\* Who is recommended is complete, is no worse than anybody who could have been
\* recommended, and the legacy comparator does not prefer a supplier to one that is
\* at least as good in everything: whatever the participants, the products, the
\* lines and the weights.
THEOREM RecommendationsAreSound == Spec => []RecommendationIsSound
<1>1. RecommendedIsComplete /\ WinnerIsUndominated /\ LegacyPrefersBetter
        => RecommendationIsSound
  BY DEF RecommendationIsSound
<1>. QED
  BY <1>1, RecommendedAreComplete, Inductive, WinnerHolds, LegacyHolds, PTL

-----------------------------------------------------------------------------
(* Texts *)

Page == [characters : Nat, area : Nat]

CharactersOf(text, n) == [i \in 1..n |-> text[i].characters]

AreasOf(text, n) == [i \in 1..n |-> text[i].area]

LEMMA PagesAreFinite ==
  ASSUME NEW n \in Nat
  PROVE  IsFiniteSet(1..n)
BY FS_Interval

\* What Characters adds up.
LEMMA CharactersIsASum ==
  ASSUME NEW n \in Nat, NEW text \in [1..n -> Page], NEW f, f = CharactersOf(text, n)
  PROVE  /\ f \in [1..n -> Nat] /\ f \in [1..n -> Int]
         /\ \E h : IsSum(h, f, 1..n) /\ Characters(text) = h[1..n]
<1>. DEFINE pages == 1..n
            Of(i) == text[i].characters
            Adds(g) == g = [S \in SUBSET pages |->
                   IF S = {} THEN 0
                   ELSE Of(CHOOSE i \in S : TRUE) + g[S \ {CHOOSE i \in S : TRUE}]]
            h == CHOOSE g : Adds(g)
<1>0. f \in [pages -> Nat] /\ f \in [pages -> Int]
  BY DEF CharactersOf, Page
<1>1. ASSUME NEW g
      PROVE  IsSum(g, f, pages) <=> Adds(g)
  <2>1. f = [i \in pages |-> Of(i)]
    BY DEF CharactersOf
  <2>. HIDE DEF Of, pages
  <2>2. ASSUME NEW S \in SUBSET pages
        PROVE  (IF S = {} THEN 0 ELSE f[CHOOSE i \in S : TRUE] + g[Rest(S)])
               = (IF S = {} THEN 0
                  ELSE Of(CHOOSE i \in S : TRUE) + g[S \ {CHOOSE i \in S : TRUE}])
    <3>1. CASE S = {}
      BY <3>1
    <3>2. CASE S # {}
      <4>1. PICK c \in S : c = CHOOSE i \in S : TRUE
        BY <3>2
      <4>2. f[c] = Of(c)
        BY <2>1
      <4>3. f[CHOOSE i \in S : TRUE] = Of(CHOOSE i \in S : TRUE)
        BY <4>1, <4>2
      <4>4. Rest(S) = S \ {CHOOSE i \in S : TRUE}
        BY DEF Rest
      <4>. QED
        BY <3>2, <4>3, <4>4
    <3>. QED
      BY <3>1, <3>2
  <2>. QED
    BY <2>2, Zenon DEF IsSum
<1>2. PICK g : IsSum(g, f, pages)
  BY <1>0, PagesAreFinite, SumExists
<1>. HIDE DEF Adds
<1>3. IsSum(h, f, pages)
  <2>1. Adds(g)
    BY <1>1, <1>2
  <2>2. Adds(h)
    BY <2>1, Zenon
  <2>. HIDE DEF h
  <2>. QED
    BY <1>1, <2>2
<1>4. DOMAIN text = pages
  OBVIOUS
<1>5. Characters(text) = h[pages]
  BY <1>4, Zenon DEF Characters, MapThenSumSet, MapThenFoldSet, Adds
<1>. QED
  BY <1>0, <1>3, <1>5

\* What Area adds up.
LEMMA AreaIsASum ==
  ASSUME NEW n \in Nat, NEW text \in [1..n -> Page], NEW f, f = AreasOf(text, n)
  PROVE  /\ f \in [1..n -> Nat] /\ f \in [1..n -> Int]
         /\ \E h : IsSum(h, f, 1..n) /\ Area(text) = Max({1, h[1..n]})
<1>. DEFINE pages == 1..n
            Of(i) == text[i].area
            Adds(g) == g = [S \in SUBSET pages |->
                   IF S = {} THEN 0
                   ELSE Of(CHOOSE i \in S : TRUE) + g[S \ {CHOOSE i \in S : TRUE}]]
            h == CHOOSE g : Adds(g)
<1>0. f \in [pages -> Nat] /\ f \in [pages -> Int]
  BY DEF AreasOf, Page
<1>1. ASSUME NEW g
      PROVE  IsSum(g, f, pages) <=> Adds(g)
  <2>1. f = [i \in pages |-> Of(i)]
    BY DEF AreasOf
  <2>. HIDE DEF Of, pages
  <2>2. ASSUME NEW S \in SUBSET pages
        PROVE  (IF S = {} THEN 0 ELSE f[CHOOSE i \in S : TRUE] + g[Rest(S)])
               = (IF S = {} THEN 0
                  ELSE Of(CHOOSE i \in S : TRUE) + g[S \ {CHOOSE i \in S : TRUE}])
    <3>1. CASE S = {}
      BY <3>1
    <3>2. CASE S # {}
      <4>1. PICK c \in S : c = CHOOSE i \in S : TRUE
        BY <3>2
      <4>2. f[c] = Of(c)
        BY <2>1
      <4>3. f[CHOOSE i \in S : TRUE] = Of(CHOOSE i \in S : TRUE)
        BY <4>1, <4>2
      <4>4. Rest(S) = S \ {CHOOSE i \in S : TRUE}
        BY DEF Rest
      <4>. QED
        BY <3>2, <4>3, <4>4
    <3>. QED
      BY <3>1, <3>2
  <2>. QED
    BY <2>2, Zenon DEF IsSum
<1>2. PICK g : IsSum(g, f, pages)
  BY <1>0, PagesAreFinite, SumExists
<1>. HIDE DEF Adds
<1>3. IsSum(h, f, pages)
  <2>1. Adds(g)
    BY <1>1, <1>2
  <2>2. Adds(h)
    BY <2>1, Zenon
  <2>. HIDE DEF h
  <2>. QED
    BY <1>1, <2>2
<1>4. DOMAIN text = pages
  OBVIOUS
<1>5. Area(text) = Max({1, h[pages]})
  BY <1>4, Zenon DEF Area, MapThenSumSet, MapThenFoldSet, Adds
<1>. QED
  BY <1>0, <1>3, <1>5

\* Sums over the same elements compare as the elements do.
LEMMA SumsCompareThere ==
  ASSUME NEW T, IsFiniteSet(T), NEW f \in [T -> Int], NEW g \in [T -> Int],
         NEW h, IsSum(h, f, T), NEW k, IsSum(k, g, T),
         \A x \in T : f[x] <= g[x]
  PROVE  h[T] <= k[T]
<1>. DEFINE b == [x \in T |-> x]
<1>1. b \in [T -> T] /\ \A x \in T : b[x] = x
  OBVIOUS
<1>. HIDE DEF b
<1>2. /\ \A x, y \in T : b[x] = b[y] => x = y
      /\ \A x \in T : f[x] <= g[b[x]]
  BY <1>1
<1>3. T \in SUBSET T /\ T = {b[x] : x \in T}
  BY <1>1
<1>4. h[T] <= k[{b[x] : x \in T}]
  BY <1>1, <1>2, <1>3, SumsCompare
<1>. QED
  BY <1>3, <1>4

\* What is counted on pages is a natural number.
LEMMA CountsAreNumbers ==
  ASSUME NEW n \in Nat, NEW text \in [1..n -> Page]
  PROVE  /\ Characters(text) \in Nat
         /\ Area(text) \in Int
         /\ EmptyPages(text) \in Nat
         /\ Len(text) = n /\ DOMAIN text = 1..n
<1>1. Characters(text) \in Nat
  <2>1. PICK f, h : /\ f \in [1..n -> Nat]
                    /\ IsSum(h, f, 1..n) /\ Characters(text) = h[1..n]
    BY CharactersIsASum
  <2>2. 1..n \in SUBSET (1..n)
    OBVIOUS
  <2>. QED
    BY <2>1, <2>2, PagesAreFinite, SumIsNat
<1>2. Area(text) \in Int
  <2>1. PICK f, h : /\ f \in [1..n -> Nat]
                    /\ IsSum(h, f, 1..n) /\ Area(text) = Max({1, h[1..n]})
    BY AreaIsASum
  <2>2. 1..n \in SUBSET (1..n)
    OBVIOUS
  <2>3. PICK a \in Nat : a = h[1..n]
    BY <2>1, <2>2, PagesAreFinite, SumIsNat
  <2>4. {1, a} \in SUBSET Int /\ {1, a} # {} /\ IsFiniteSet({1, a})
    <3>1. IsFiniteSet({1, a})
      BY PairIsFinite
    <3>. QED
      BY <3>1
  <2>5. Max({1, a}) \in {1, a}
    BY <2>4, MaxIsGreatest
  <2>. QED
    BY <2>1, <2>3, <2>5
<1>3. EmptyPages(text) \in Nat
  <2>1. {i \in DOMAIN text : text[i].characters < 5} \in SUBSET (1..n)
    OBVIOUS
  <2>2. IsFiniteSet({i \in DOMAIN text : text[i].characters < 5})
    BY <2>1, PagesAreFinite, FS_Subset
  <2>. QED
    BY <2>2, FS_CardinalityType DEF EmptyPages
<1>. QED
  BY <1>1, <1>2, <1>3

\* More text on the same pages.
LEMMA TextGrows ==
  ASSUME NEW n \in Nat, NEW old \in [1..n -> Page], NEW new \in [1..n -> Page],
         \A i \in 1..n : /\ old[i].characters <= new[i].characters
                         /\ old[i].area = new[i].area
  PROVE  /\ Characters(old) <= Characters(new)
         /\ Area(old) = Area(new)
         /\ EmptyPages(new) <= EmptyPages(old)
<1>1. Characters(old) <= Characters(new)
  <2>1. PICK f, h : /\ f = CharactersOf(old, n) /\ f \in [1..n -> Int]
                    /\ IsSum(h, f, 1..n) /\ Characters(old) = h[1..n]
    BY CharactersIsASum
  <2>2. PICK g, k : /\ g = CharactersOf(new, n) /\ g \in [1..n -> Int]
                    /\ IsSum(k, g, 1..n) /\ Characters(new) = k[1..n]
    BY CharactersIsASum
  <2>3. \A i \in 1..n : f[i] <= g[i]
    BY <2>1, <2>2 DEF CharactersOf
  <2>4. h[1..n] <= k[1..n]
    BY <2>1, <2>2, <2>3, PagesAreFinite, SumsCompareThere, Zenon
  <2>. QED
    BY <2>1, <2>2, <2>4
<1>2. Area(old) = Area(new)
  <2>1. PICK f, h : /\ f = AreasOf(old, n) /\ f \in [1..n -> Int] /\ f \in [1..n -> Nat]
                    /\ IsSum(h, f, 1..n) /\ Area(old) = Max({1, h[1..n]})
    BY AreaIsASum
  <2>2. PICK g, k : /\ g = AreasOf(new, n) /\ g \in [1..n -> Int] /\ g \in [1..n -> Nat]
                    /\ IsSum(k, g, 1..n) /\ Area(new) = Max({1, k[1..n]})
    BY AreaIsASum
  <2>3. \A i \in 1..n : f[i] \in Nat /\ f[i] = g[i]
    BY <2>1, <2>2 DEF AreasOf
  <2>4. (\A i \in 1..n : f[i] <= g[i]) /\ (\A i \in 1..n : g[i] <= f[i])
    BY <2>3
  <2>5. h[1..n] <= k[1..n]
    BY <2>1, <2>2, <2>4, PagesAreFinite, SumsCompareThere, Zenon
  <2>6. k[1..n] <= h[1..n]
    <3>1. \A i \in 1..n : g[i] <= f[i]
      BY <2>4
    <3>. QED
      BY <2>1, <2>2, <3>1, PagesAreFinite, SumsCompareThere, Zenon
  <2>7. 1..n \in SUBSET (1..n)
    OBVIOUS
  <2>8. h[1..n] \in Nat /\ k[1..n] \in Nat
    BY <2>1, <2>2, <2>7, PagesAreFinite, SumIsNat
  <2>9. h[1..n] = k[1..n]
    BY <2>5, <2>8, <2>6
  <2>. QED
    BY <2>1, <2>2, <2>9
<1>3. EmptyPages(new) <= EmptyPages(old)
  <2>1. PICK E, F : /\ E = {i \in DOMAIN old : old[i].characters < 5}
                    /\ F = {i \in DOMAIN new : new[i].characters < 5}
    OBVIOUS
  <2>2. E \subseteq 1..n /\ F \subseteq E
    BY <2>1 DEF Page
  <2>3. IsFiniteSet(E)
    BY <2>2, PagesAreFinite, FS_Subset
  <2>4. Cardinality(F) <= Cardinality(E)
    BY <2>2, <2>3, FS_Subset
  <2>. QED
    BY <2>1, <2>4 DEF EmptyPages
<1>. QED
  BY <1>1, <1>2, <1>3

\* A decision is never the worse for more text.
LEMMA DecisionImproves ==
  ASSUME NEW n \in Nat, NEW old \in [1..n -> Page], NEW new \in [1..n -> Page],
         \A i \in 1..n : /\ old[i].characters <= new[i].characters
                         /\ old[i].area = new[i].area
  PROVE  Rank(Decision(new)) >= Rank(Decision(old))
<1>1. PICK a, b, c, d, e, f :
        /\ {a, b, c, d, e, f} \subseteq Int
        /\ a = Characters(old) /\ b = Characters(new)
        /\ c = EmptyPages(old) /\ d = EmptyPages(new)
        /\ e = Area(old) /\ f = Area(new)
  BY CountsAreNumbers
<1>2. a <= b /\ d <= c /\ e = f /\ Len(old) = n /\ Len(new) = n
  BY <1>1, TextGrows, CountsAreNumbers
<1>3. old = << >> <=> new = << >>
  <2>1. ASSUME NEW t \in [1..n -> Page]
        PROVE  t = << >> <=> n = 0
    OBVIOUS
  <2>. QED
    BY <2>1
<1>4. Ready(old) => Ready(new)
  <2>1. Ready(old) => old # << >> /\ a >= 200 /\ 4 * c <= n /\ 2 * a >= 3 * e
    BY <1>1, <1>2, Zenon DEF Ready
  <2>2. new # << >> /\ b >= 200 /\ 4 * d <= n /\ 2 * b >= 3 * e => Ready(new)
    BY <1>1, <1>2, Zenon DEF Ready
  <2>3. a >= 200 /\ 4 * c <= n /\ 2 * a >= 3 * e => b >= 200 /\ 4 * d <= n /\ 2 * b >= 3 * e
    BY <1>1, <1>2
  <2>. QED
    BY <1>3, <2>1, <2>2, <2>3
<1>5. NeedsOcr(new) => NeedsOcr(old)
  <2>1. NeedsOcr(new) => new = << >> \/ b <= 50 \/ 2 * d >= n \/ 2 * b <= e
    BY <1>1, <1>2, Zenon DEF NeedsOcr
  <2>2. old = << >> \/ a <= 50 \/ 2 * c >= n \/ 2 * a <= e => NeedsOcr(old)
    BY <1>1, <1>2, Zenon DEF NeedsOcr
  <2>3. b <= 50 \/ 2 * d >= n \/ 2 * b <= e => a <= 50 \/ 2 * c >= n \/ 2 * a <= e
    BY <1>1, <1>2
  <2>. QED
    BY <1>3, <2>1, <2>2, <2>3
<1>. QED
  BY <1>4, <1>5 DEF Decision, Rank

\* Of two texts the one that is kept has 100 characters or is the longest.
LEMMA LongestIsKept ==
  ASSUME NEW primary, NEW fallback,
         primary # None => Characters(primary) \in Nat,
         fallback # None => Characters(fallback) \in Nat,
         NEW text \in {primary, fallback} \ {None}
  PROVE  LET kept == Extract(primary, fallback) IN
         kept # None /\ (Characters(kept) >= 100 \/ Characters(kept) >= Characters(text))
<1>1. CASE primary # None /\ IsSufficient(primary)
  <2>1. Extract(primary, fallback) = primary
    BY <1>1 DEF Extract
  <2>2. Characters(primary) >= 100
    BY <1>1 DEF IsSufficient
  <2>. QED
    BY <1>1, <2>1, <2>2
<1>2. CASE ~(primary # None /\ IsSufficient(primary)) /\ fallback = None
  <2>1. Extract(primary, fallback) = primary
    BY <1>2 DEF Extract
  <2>. QED
    BY <1>2, <2>1
<1>3. CASE primary = None /\ fallback # None
  <2>1. Extract(primary, fallback) = fallback
    BY <1>3 DEF Extract
  <2>. QED
    BY <1>3, <2>1
<1>4. CASE primary # None /\ ~IsSufficient(primary) /\ fallback # None
  <2>1. Extract(primary, fallback) = IF Better(fallback, primary) THEN fallback ELSE primary
    BY <1>4 DEF Extract
  <2>2. Better(fallback, primary) => Characters(fallback) >= Characters(primary)
    BY <1>4 DEF Better
  <2>3. ~Better(fallback, primary) => Characters(primary) >= Characters(fallback)
    BY <1>4 DEF Better
  <2>. QED
    BY <1>4, <2>1, <2>2, <2>3
<1>. QED
  BY <1>1, <1>2, <1>3, <1>4

\* The steps of the other two topics.
LEMMA TopicGoesOn ==
  ASSUME HasTopic, Next
  PROVE  /\ About("units") => Normalize
         /\ About("documents") => \E x \in {"primary", "fallback"}, n \in 1..MaxPages, c \in Lengths :
                                    AddText(x, n, c)
BY Zenon DEF Next, About, SuppliersMove

-----------------------------------------------------------------------------
HasTexts ==
  About("documents") =>
    /\ {"primary", "fallback"} \subseteq DOMAIN input
    /\ input.primary \in Texts \cup {None} /\ input.fallback \in Texts \cup {None}

TextsInv == HasTopic /\ HasTexts

\* A text of the model is one of pages.
LEMMA TextHasPages ==
  ASSUME NEW text \in Texts
  PROVE  /\ \E n \in Nat : text \in [1..n -> Page]
         /\ \A k \in DOMAIN text, c \in Lengths :
              [text EXCEPT ![k].characters = c] \in Texts
<1>. DEFINE Own == [characters : Lengths, area : PageAreas]
<1>1. PICK n \in 0..MaxPages : text \in [1..n -> Own]
  BY DEF Texts
<1>2. n \in Nat
  BY <1>1
<1>3. text \in [1..n -> Page]
  <2>1. \A p \in Own : p \in Page
    BY TextsAssumption DEF Page
  <2>. HIDE DEF Own
  <2>. QED
    BY <1>1, <2>1
<1>4. ASSUME NEW k \in DOMAIN text, NEW c \in Lengths
      PROVE  [text EXCEPT ![k].characters = c] \in Texts
  <2>1. [text[k] EXCEPT !.characters = c] \in Own
    BY <1>1
  <2>. HIDE DEF Own
  <2>2. [text EXCEPT ![k] = [text[k] EXCEPT !.characters = c]] \in [1..n -> Own]
    BY <1>1, <2>1
  <2>3. [text EXCEPT ![k].characters = c] \in [1..n -> Own]
    BY <2>2
  <2>. QED
    BY <1>1, <2>3 DEF Texts, Own
<1>. QED
  BY <1>2, <1>3, <1>4

\* What a step does to the texts.
LEMMA TextsStep ==
  ASSUME TextsInv, About("documents"),
         NEW e \in {"primary", "fallback"}, NEW k \in 1..MaxPages, NEW c \in Lengths,
         AddText(e, k, c)
  PROVE  \E text \in Texts :
           /\ text = input[e] /\ k \in DOMAIN text /\ c > text[k].characters
           /\ input'[e] = [text EXCEPT ![k].characters = c]
           /\ \A x \in {"primary", "fallback"} : x # e => input'[x] = input[x]
<1>1. /\ {"primary", "fallback"} \subseteq DOMAIN input
      /\ input[e] \in Texts
  BY DEF TextsInv, HasTexts, AddText
<1>2. PICK text \in Texts : text = input[e]
  BY <1>1
<1>3. /\ k \in DOMAIN text /\ c > text[k].characters
      /\ input' = [input EXCEPT ![e] = [text EXCEPT ![k].characters = c]]
  BY <1>2 DEF AddText
<1>4. input'[e] = [text EXCEPT ![k].characters = c]
  BY <1>1, <1>3
<1>5. \A x \in {"primary", "fallback"} : x # e => input'[x] = input[x]
  BY <1>1, <1>3
<1>. QED
  BY <1>2, <1>3, <1>4, <1>5

\* A failure of one extractor loses nothing of what the other has found, and more
\* text on a page never makes the decision on the document worse: for any texts of
\* any number of pages.
THEOREM TextIsCounted == Spec => TextCounts
<1>. DEFINE Improves ==
       \A x \in {"primary", "fallback"} :
         About("documents") /\ input[x] # None =>
           Rank(Decision(input'[x])) >= Rank(Decision(input[x]))
<1>1. Init => TextsInv
  <2>. SUFFICES ASSUME Init
                PROVE  TextsInv
    OBVIOUS
  <2>1. CASE input \in [topic : {"documents"}, primary : Blank \cup {None},
                        fallback : Blank \cup {None}]
    <3>1. Blank \subseteq Texts
      BY DEF Blank
    <3>. QED
      BY <2>1, <3>1 DEF TextsInv, HasTopic, HasTexts
  <2>2. CASE input.topic # "documents" /\ "topic" \in DOMAIN input
    BY <2>2 DEF TextsInv, HasTopic, HasTexts, About
  <2>3. CASE \/ input \in [topic : {"comparison"}, lines : {{}}, quoting : SUBSET Suppliers,
                           weights : Weights]
             \/ input \in [topic : {"specifications"}, requested : Specifications,
                           quoted : {<< >>}]
    BY <2>2, <2>3
  <2>4. CASE \/ input = [topic |-> "suppliers", suppliers |-> {}, unstored |-> {}]
             \/ input \in [topic : {"units"}, amount : Amounts, unit : Units]
             \/ input \in [topic : {"matching"}, item : Items, products : {{}}]
    BY <2>2, <2>4
  <2>. QED
    BY <2>1, <2>3, <2>4 DEF Init
<1>2. TextsInv /\ [Next]_input => TextsInv'
  <2>. SUFFICES ASSUME TextsInv, [Next]_input
                PROVE  TextsInv'
    OBVIOUS
  <2>1. CASE UNCHANGED input
    BY <2>1 DEF TextsInv, HasTopic, HasTexts, About
  <2>2. CASE Next
    <3>1. HasTopic' /\ (About("documents")' <=> About("documents")) /\ DOMAIN input' = DOMAIN input
      BY <2>2, TopicStays, Zenon DEF TextsInv, HasTopic, About
    <3>2. CASE About("documents")
      <4>1. PICK e \in {"primary", "fallback"}, k \in 1..MaxPages, c \in Lengths : AddText(e, k, c)
        BY <2>2, <3>2, TopicGoesOn, Zenon DEF TextsInv
      <4>2. PICK text \in Texts :
              /\ text = input[e] /\ k \in DOMAIN text
              /\ input'[e] = [text EXCEPT ![k].characters = c]
              /\ \A x \in {"primary", "fallback"} : x # e => input'[x] = input[x]
        BY <3>2, <4>1, TextsStep
      <4>3. input'[e] \in Texts
        BY <4>1, <4>2, TextHasPages
      <4>4. \A x \in {"primary", "fallback"} : input'[x] \in Texts \cup {None}
        BY <3>2, <4>2, <4>3 DEF TextsInv, HasTexts
      <4>5. {"primary", "fallback"} \subseteq DOMAIN input'
        BY <3>1, <3>2 DEF TextsInv, HasTexts
      <4>. QED
        BY <3>1, <4>4, <4>5 DEF TextsInv, HasTexts
    <3>3. CASE ~About("documents")
      BY <3>1, <3>3 DEF TextsInv, HasTexts
    <3>. QED
      BY <3>2, <3>3
  <2>. QED
    BY <2>1, <2>2
<1>3. TextsInv => TextIsNotLost
  <2>. SUFFICES ASSUME TextsInv, About("documents"),
                       NEW text \in {input.primary, input.fallback} \ {None}
                PROVE  LET kept == Extract(input.primary, input.fallback) IN
                       kept # None /\ (Characters(kept) >= 100
                                       \/ Characters(kept) >= Characters(text))
    BY Zenon DEF TextIsNotLost
  <2>1. PICK primary, fallback : primary = input.primary /\ fallback = input.fallback
    OBVIOUS
  <2>2. \A t \in Texts : Characters(t) \in Nat
    BY TextHasPages, CountsAreNumbers
  <2>3. /\ primary # None => Characters(primary) \in Nat
        /\ fallback # None => Characters(fallback) \in Nat
    BY <2>1, <2>2 DEF TextsInv, HasTexts
  <2>4. text \in {primary, fallback} \ {None}
    BY <2>1
  <2>5. LET kept == Extract(primary, fallback) IN
        kept # None /\ (Characters(kept) >= 100 \/ Characters(kept) >= Characters(text))
    BY <2>3, <2>4, LongestIsKept, Zenon
  <2>. QED
    BY <2>1, <2>5, Zenon
<1>4. TextsInv /\ [Next]_input => [Improves]_input
  <2>. SUFFICES ASSUME TextsInv, Next, About("documents"),
                       NEW x \in {"primary", "fallback"}, input[x] # None
                PROVE  Rank(Decision(input'[x])) >= Rank(Decision(input[x]))
    OBVIOUS
  <2>1. PICK e \in {"primary", "fallback"}, k \in 1..MaxPages, c \in Lengths : AddText(e, k, c)
    BY TopicGoesOn, Zenon DEF TextsInv
  <2>2. PICK text \in Texts :
          /\ text = input[e] /\ k \in DOMAIN text /\ c > text[k].characters
          /\ input'[e] = [text EXCEPT ![k].characters = c]
          /\ \A y \in {"primary", "fallback"} : y # e => input'[y] = input[y]
    BY <2>1, TextsStep
  <2>3. PICK old \in Texts : old = input[x]
    BY DEF TextsInv, HasTexts
  <2>4. PICK n \in Nat : old \in [1..n -> Page]
    BY <2>3, TextHasPages
  <2>5. PICK new : new = input'[x]
    OBVIOUS
  <2>6. /\ new \in [1..n -> Page]
        /\ \A i \in 1..n : old[i].characters <= new[i].characters /\ old[i].area = new[i].area
    <3>1. \A i \in 1..n : old[i].characters \in Nat
      BY <2>4 DEF Page
    <3>2. CASE x = e
      <4>1. old = text /\ new = [old EXCEPT ![k].characters = c] /\ k \in 1..n
        BY <2>2, <2>3, <2>4, <2>5, <3>2
      <4>2. c \in Nat /\ c > old[k].characters
        BY <2>1, <2>2, <4>1, TextsAssumption
      <4>3. /\ new[k] = [old[k] EXCEPT !.characters = c]
            /\ \A i \in 1..n : i # k => new[i] = old[i]
            /\ new = [i \in 1..n |-> new[i]]
        BY <2>4, <4>1
      <4>4. /\ new[k] \in Page /\ new[k].characters = c /\ new[k].area = old[k].area
        BY <2>4, <4>1, <4>2, <4>3 DEF Page
      <4>5. \A i \in 1..n : new[i] \in Page
        BY <2>4, <4>3, <4>4
      <4>6. new \in [1..n -> Page]
        BY <4>3, <4>5
      <4>7. ASSUME NEW i \in 1..n
            PROVE  old[i].characters <= new[i].characters /\ old[i].area = new[i].area
        <5>1. CASE i = k
          BY <3>1, <4>2, <4>4, <5>1
        <5>2. CASE i # k
          BY <3>1, <4>3, <5>2
        <5>. QED
          BY <5>1, <5>2
      <4>. QED
        BY <4>6, <4>7
    <3>3. CASE x # e
      <4>1. new = old
        BY <2>2, <2>3, <2>5, <3>3
      <4>. QED
        BY <2>4, <3>1, <4>1
    <3>. QED
      BY <3>2, <3>3
  <2>7. Rank(Decision(new)) >= Rank(Decision(old))
    BY <2>4, <2>6, DecisionImproves
  <2>. QED
    BY <2>3, <2>5, <2>7
<1>5. Spec => []TextIsNotLost
  BY <1>1, <1>2, <1>3, PTL DEF Spec
<1>6. Spec => [][Improves]_input
  BY <1>1, <1>2, <1>4, PTL DEF Spec
<1>. QED
  BY <1>5, <1>6 DEF TextCounts, Improves

-----------------------------------------------------------------------------
(* Units *)

\* A word in one line of a table stands for the unit of that line.
LEMMA TheUnit ==
  ASSUME NEW aliases, NEW u \in DOMAIN aliases, NEW w \in aliases[u],
         \A v \in DOMAIN aliases : w \in aliases[v] => v = u
  PROVE  UnitIn(aliases, w) = u
<1>1. PICK v \in DOMAIN aliases : /\ w \in aliases[v]
                                  /\ v = CHOOSE x \in DOMAIN aliases : w \in aliases[x]
  OBVIOUS
<1>2. \E x \in DOMAIN aliases : w \in aliases[x]
  OBVIOUS
<1>. QED
  BY <1>1, <1>2 DEF UnitIn

\* A word in no line stands for itself.
LEMMA NoUnit ==
  ASSUME NEW aliases, NEW w, \A v \in DOMAIN aliases : w \notin aliases[v]
  PROVE  UnitIn(aliases, w) = w
BY DEF UnitIn

\* A word is in one line of the table of the catalog.
LEMMA CatalogWordsApart ==
  ASSUME NEW u \in DOMAIN CatalogUnits, NEW v \in DOMAIN CatalogUnits,
         NEW w \in CatalogUnits[u], w \in CatalogUnits[v]
  PROVE  u = v
BY DEF CatalogUnits

\* A unit of the table is one of its own words.
LEMMA UnitsAreWords ==
  ASSUME NEW u \in DOMAIN CatalogUnits
  PROVE  u \in CatalogUnits[u]
BY DEF CatalogUnits

\* What a unit is written as once it was normalized.
LEMMA CatalogUnitIs ==
  ASSUME NEW written, written # None
  PROVE  /\ \A u \in DOMAIN CatalogUnits :
              written.word \in CatalogUnits[u] => CatalogUnit(written) = Plain(u)
         /\ (\A u \in DOMAIN CatalogUnits : written.word \notin CatalogUnits[u])
              => CatalogUnit(written) = written
<1>1. ASSUME NEW u \in DOMAIN CatalogUnits, written.word \in CatalogUnits[u]
      PROVE  CatalogUnit(written) = Plain(u)
  <2>1. PICK w : w = written.word
    OBVIOUS
  <2>2. \A v \in DOMAIN CatalogUnits : w \in CatalogUnits[v] => v = u
    BY <1>1, <2>1, CatalogWordsApart
  <2>3. UnitIn(CatalogUnits, w) = u
    BY <1>1, <2>1, <2>2, TheUnit
  <2>. QED
    BY <1>1, <2>1, <2>3, Zenon DEF CatalogUnit
<1>2. ASSUME \A u \in DOMAIN CatalogUnits : written.word \notin CatalogUnits[u]
      PROVE  CatalogUnit(written) = written
  BY <1>2, Zenon DEF CatalogUnit
<1>. QED
  BY <1>1, <1>2

\* The words of each common unit, through the table of the quote and the last one.
LEMMA SynonymsOfPieza ==
  ASSUME NEW w \in CatalogUnits.pieza, w # "ud"
  PROVE  UnitIn(ComparedUnits, UnitIn(QuotedUnits, w)) = UnitIn(ComparedUnits, "pieza")
<1>1. w \in {"pieza", "piezas", "pza", "pzas", "unidad", "unidades"}
  BY DEF CatalogUnits
<1>2. UnitIn(QuotedUnits, w) = "piece"
  <2>1. /\ "piece" \in DOMAIN QuotedUnits /\ w \in QuotedUnits["piece"]
        /\ \A v \in DOMAIN QuotedUnits : w \in QuotedUnits[v] => v = "piece"
    BY <1>1 DEF QuotedUnits
  <2>. QED
    BY <2>1, TheUnit
<1>3. \A x \in {"piece", "pieza"} : UnitIn(ComparedUnits, x) = "piece"
  <2>1. ASSUME NEW x \in {"piece", "pieza"}
        PROVE  /\ "piece" \in DOMAIN ComparedUnits /\ x \in ComparedUnits["piece"]
               /\ \A v \in DOMAIN ComparedUnits : x \in ComparedUnits[v] => v = "piece"
    BY DEF ComparedUnits
  <2>. QED
    BY <2>1, TheUnit
<1>. QED
  BY <1>2, <1>3

LEMMA SynonymsOfKg ==
  ASSUME NEW w \in CatalogUnits.kg
  PROVE  UnitIn(ComparedUnits, UnitIn(QuotedUnits, w)) = UnitIn(ComparedUnits, "kg")
<1>1. w \in {"kg", "kilogramo", "kilogramos"}
  BY DEF CatalogUnits
<1>2. UnitIn(QuotedUnits, w) = "kilogram"
  <2>1. /\ "kilogram" \in DOMAIN QuotedUnits /\ w \in QuotedUnits["kilogram"]
        /\ \A v \in DOMAIN QuotedUnits : w \in QuotedUnits[v] => v = "kilogram"
    BY <1>1 DEF QuotedUnits
  <2>. QED
    BY <2>1, TheUnit
<1>3. \A x \in {"kilogram", "kg"} : UnitIn(ComparedUnits, x) = "kg"
  <2>1. ASSUME NEW x \in {"kilogram", "kg"}
        PROVE  /\ "kg" \in DOMAIN ComparedUnits /\ x \in ComparedUnits["kg"]
               /\ \A v \in DOMAIN ComparedUnits : x \in ComparedUnits[v] => v = "kg"
    BY DEF ComparedUnits
  <2>. QED
    BY <2>1, TheUnit
<1>. QED
  BY <1>2, <1>3

LEMMA SynonymsOfL ==
  ASSUME NEW w \in CatalogUnits.l
  PROVE  UnitIn(ComparedUnits, UnitIn(QuotedUnits, w)) = UnitIn(ComparedUnits, "l")
<1>1. w \in {"l", "lt", "litro", "litros"}
  BY DEF CatalogUnits
<1>2. UnitIn(QuotedUnits, w) \in {"liter", "lt"}
  <2>1. CASE w # "lt"
    <3>1. /\ "liter" \in DOMAIN QuotedUnits /\ w \in QuotedUnits["liter"]
          /\ \A v \in DOMAIN QuotedUnits : w \in QuotedUnits[v] => v = "liter"
      BY <1>1, <2>1 DEF QuotedUnits
    <3>. QED
      BY <3>1, TheUnit
  <2>2. CASE w = "lt"
    <3>1. \A v \in DOMAIN QuotedUnits : w \notin QuotedUnits[v]
      BY <1>1, <2>2 DEF QuotedUnits
    <3>. QED
      BY <1>1, <2>2, <3>1, NoUnit
  <2>. QED
    BY <2>1, <2>2
<1>3. \A x \in {"liter", "lt", "l"} : UnitIn(ComparedUnits, x) = "l"
  <2>1. ASSUME NEW x \in {"liter", "lt", "l"}
        PROVE  /\ "l" \in DOMAIN ComparedUnits /\ x \in ComparedUnits["l"]
               /\ \A v \in DOMAIN ComparedUnits : x \in ComparedUnits[v] => v = "l"
    BY DEF ComparedUnits
  <2>. QED
    BY <2>1, TheUnit
<1>. QED
  BY <1>2, <1>3

LEMMA SynonymsOfM ==
  ASSUME NEW w \in CatalogUnits.m
  PROVE  UnitIn(ComparedUnits, UnitIn(QuotedUnits, w)) = UnitIn(ComparedUnits, "m")
<1>1. w \in {"m", "metro", "metros"}
  BY DEF CatalogUnits
<1>2. UnitIn(QuotedUnits, w) = "meter"
  <2>1. /\ "meter" \in DOMAIN QuotedUnits /\ w \in QuotedUnits["meter"]
        /\ \A v \in DOMAIN QuotedUnits : w \in QuotedUnits[v] => v = "meter"
    BY <1>1 DEF QuotedUnits
  <2>. QED
    BY <2>1, TheUnit
<1>3. \A x \in {"meter", "m"} : UnitIn(ComparedUnits, x) = "m"
  <2>1. ASSUME NEW x \in {"meter", "m"}
        PROVE  /\ "m" \in DOMAIN ComparedUnits /\ x \in ComparedUnits["m"]
               /\ \A v \in DOMAIN ComparedUnits : x \in ComparedUnits[v] => v = "m"
    BY DEF ComparedUnits
  <2>. QED
    BY <2>1, TheUnit
<1>. QED
  BY <1>2, <1>3

LEMMA SynonymsOfCaja ==
  ASSUME NEW w \in CatalogUnits.caja
  PROVE  UnitIn(ComparedUnits, UnitIn(QuotedUnits, w)) = UnitIn(ComparedUnits, "caja")
<1>1. w \in {"caja", "cajas"}
  BY DEF CatalogUnits
<1>2. UnitIn(QuotedUnits, w) \in {"caja", "cajas"}
  <2>1. \A v \in DOMAIN QuotedUnits : w \notin QuotedUnits[v]
    BY <1>1 DEF QuotedUnits
  <2>. QED
    BY <1>1, <2>1, NoUnit
<1>3. \A x \in {"caja", "cajas"} : UnitIn(ComparedUnits, x) = "box"
  <2>1. ASSUME NEW x \in {"caja", "cajas"}
        PROVE  /\ "box" \in DOMAIN ComparedUnits /\ x \in ComparedUnits["box"]
               /\ \A v \in DOMAIN ComparedUnits : x \in ComparedUnits[v] => v = "box"
    BY DEF ComparedUnits
  <2>. QED
    BY <2>1, TheUnit
<1>. QED
  BY <1>2, <1>3

LEMMA SynonymsOfPaquete ==
  ASSUME NEW w \in CatalogUnits.paquete
  PROVE  UnitIn(ComparedUnits, UnitIn(QuotedUnits, w)) = UnitIn(ComparedUnits, "paquete")
<1>1. w \in {"paquete", "paquetes"}
  BY DEF CatalogUnits
<1>2. UnitIn(QuotedUnits, w) \in {"paquete", "paquetes"}
  <2>1. \A v \in DOMAIN QuotedUnits : w \notin QuotedUnits[v]
    BY <1>1 DEF QuotedUnits
  <2>. QED
    BY <1>1, <2>1, NoUnit
<1>3. \A x \in {"paquete", "paquetes"} : UnitIn(ComparedUnits, x) = "pack"
  <2>1. ASSUME NEW x \in {"paquete", "paquetes"}
        PROVE  /\ "pack" \in DOMAIN ComparedUnits /\ x \in ComparedUnits["pack"]
               /\ \A v \in DOMAIN ComparedUnits : x \in ComparedUnits[v] => v = "pack"
    BY DEF ComparedUnits
  <2>. QED
    BY <2>1, TheUnit
<1>. QED
  BY <1>2, <1>3

\* The words of a unit meet in the last table, whichever way they take.
LEMMA SynonymsMeet ==
  ASSUME NEW u \in Common, NEW w \in CatalogUnits[u], w # "ud"
  PROVE  UnitIn(ComparedUnits, UnitIn(QuotedUnits, w)) = UnitIn(ComparedUnits, u)
<1>1. \/ u = "pieza" \/ u = "kg" \/ u = "l" \/ u = "m" \/ u = "caja" \/ u = "paquete"
  BY DEF Common
<1>. QED
  BY <1>1, SynonymsOfPieza, SynonymsOfKg, SynonymsOfL, SynonymsOfM, SynonymsOfCaja,
     SynonymsOfPaquete

-----------------------------------------------------------------------------
LEMMA TablesOfWords ==
  /\ DOMAIN CatalogUnits \subseteq Words
  /\ DOMAIN QuotedUnits \subseteq Words
  /\ DOMAIN ComparedUnits \subseteq Words
BY Zenon DEF Words

\* A written unit is there, and so is a plain word.
LEMMA NoneIsUnwritten ==
  None \notin WrittenUnit
BY MeasuresAssumption

LEMMA UnitInIsAWord ==
  ASSUME NEW aliases, DOMAIN aliases \subseteq Words, NEW w \in Words
  PROVE  UnitIn(aliases, w) \in Words
<1>1. CASE \E u \in DOMAIN aliases : w \in aliases[u]
  <2>1. PICK v \in DOMAIN aliases : v = CHOOSE u \in DOMAIN aliases : w \in aliases[u]
    BY <1>1
  <2>. QED
    BY <1>1, <2>1 DEF UnitIn
<1>2. CASE ~ \E u \in DOMAIN aliases : w \in aliases[u]
  BY <1>2 DEF UnitIn
<1>. QED
  BY <1>1, <1>2

LEMMA PlainIsThere ==
  ASSUME NEW w \in Words
  PROVE  /\ Plain(w) \in WrittenUnit /\ Plain(w) # None
         /\ Plain(w).word = w /\ Plain(w).dot = FALSE
<1>1. Plain(w) \in WrittenUnit /\ Plain(w).word = w /\ Plain(w).dot = FALSE
  BY DEF Plain, Written, WrittenUnit
<1>. QED
  BY <1>1, NoneIsUnwritten, Zenon

\* What is normalized does not change its unit when it is normalized again.
LEMMA NormalizedStays ==
  ASSUME NEW unit \in WrittenUnit
  PROVE  /\ CatalogUnit(unit) \in WrittenUnit
         /\ CatalogUnit(CatalogUnit(unit)) = CatalogUnit(unit)
<1>1. unit # None
  BY NoneIsUnwritten, Zenon
<1>2. CASE \E u \in DOMAIN CatalogUnits : unit.word \in CatalogUnits[u]
  <2>1. PICK u \in DOMAIN CatalogUnits : unit.word \in CatalogUnits[u]
    BY <1>2
  <2>2. CatalogUnit(unit) = Plain(u)
    BY <1>1, <2>1, CatalogUnitIs, Zenon
  <2>3. u \in Words
    BY TablesOfWords, Zenon
  <2>4. /\ Plain(u) \in WrittenUnit /\ Plain(u) # None /\ Plain(u).word = u
    BY <2>3, PlainIsThere, Zenon
  <2>5. Plain(u).word \in CatalogUnits[u]
    BY <2>4, UnitsAreWords, Zenon
  <2>6. CatalogUnit(Plain(u)) = Plain(u)
    BY <2>4, <2>5, CatalogUnitIs, Zenon
  <2>. QED
    BY <2>2, <2>4, <2>6, Zenon
<1>3. CASE \A u \in DOMAIN CatalogUnits : unit.word \notin CatalogUnits[u]
  <2>1. CatalogUnit(unit) = unit
    BY <1>1, <1>3, CatalogUnitIs, Zenon
  <2>. QED
    BY <2>1, Zenon
<1>. QED
  BY <1>2, <1>3, Zenon

\* A unit of the table is already normalized.
LEMMA TableIsNormalized ==
  ASSUME NEW u \in DOMAIN CatalogUnits
  PROVE  Plain(u) \in WrittenUnit /\ Plain(u).word = u /\ CatalogUnit(Plain(u)) = Plain(u)
<1>1. u \in Words
  BY TablesOfWords, Zenon
<1>2. Plain(u) \in WrittenUnit /\ Plain(u) # None /\ Plain(u).word = u
  BY <1>1, PlainIsThere, Zenon
<1>3. Plain(u).word \in CatalogUnits[u]
  BY <1>2, UnitsAreWords, Zenon
<1>. QED
  BY <1>2, <1>3, CatalogUnitIs, Zenon

\* What is converted is at least a hundred.
LEMMA ConversionsDivide ==
  ASSUME NEW c \in Conversions
  PROVE  (c.by = 100 \/ c.by = 1000) /\ c.least * 1000 >= 100000
BY DEF Conversions

\* A conversion leads to a unit of the table that is worth as much more as the
\* amount is divided by, and that is not converted itself.
LEMMA ConversionsFit ==
  ASSUME NEW c \in Conversions
  PROVE  /\ c.from \in DOMAIN CatalogUnits /\ c.to \in DOMAIN CatalogUnits
         /\ c.from \in DOMAIN Worth /\ c.to \in DOMAIN Worth
         /\ Worth[c.from] \in Nat /\ Worth[c.to] = c.by * Worth[c.from]
         /\ \A d \in Conversions : c.to # d.from
<1>1. \/ c = [from |-> "g", least |-> 1000, by |-> 1000, to |-> "kg"]
      \/ c = [from |-> "ml", least |-> 1000, by |-> 1000, to |-> "l"]
      \/ c = [from |-> "cm", least |-> 100, by |-> 100, to |-> "m"]
      \/ c = [from |-> "mm", least |-> 1000, by |-> 1000, to |-> "m"]
  BY DEF Conversions
<1>2. c.from \in {"g", "ml", "cm", "mm"} /\ c.to \in {"kg", "l", "m"}
  BY <1>1
<1>3. c.from \in DOMAIN CatalogUnits /\ c.to \in DOMAIN CatalogUnits
  BY <1>2 DEF CatalogUnits
<1>4. /\ c.from \in DOMAIN Worth /\ c.to \in DOMAIN Worth
      /\ Worth[c.from] \in Nat /\ Worth[c.to] = c.by * Worth[c.from]
  BY <1>1 DEF Worth
<1>5. \A d \in Conversions : c.to # d.from
  BY <1>2 DEF Conversions
<1>. QED
  BY <1>3, <1>4, <1>5

-----------------------------------------------------------------------------
\* What is divided by a conversion is a multiple of it.
IsExact(amount) == amount >= 100000 => amount % 1000 = 0

\* A measure is an amount of a written unit; if it may be converted, exactly.
IsMeasure(amount, unit) ==
  /\ amount \in Nat /\ unit \in WrittenUnit
  /\ \A c \in Conversions : CatalogUnit(unit) = Plain(c.from) => IsExact(amount)

\* The conversions of normalize_quantity that an amount is large enough for.
Applicable(amount, unit) ==
  {c \in Conversions : CatalogUnit(unit) = Plain(c.from) /\ amount >= c.least * 1000}

\* What normalize_quantity returns, with a conversion and without one.
LEMMA ConvertedOrNot ==
  ASSUME NEW amount, NEW unit, amount # None
  PROVE  /\ CatalogUnit(unit) = None \/ Applicable(amount, unit) = {} =>
              CatalogQuantity(amount, unit) = [amount |-> amount, unit |-> CatalogUnit(unit)]
         /\ CatalogUnit(unit) # None /\ Applicable(amount, unit) # {} =>
              \E c \in Applicable(amount, unit) :
                CatalogQuantity(amount, unit) = [amount |-> amount \div c.by, unit |-> Plain(c.to)]
<1>1. ASSUME CatalogUnit(unit) = None \/ Applicable(amount, unit) = {}
      PROVE  CatalogQuantity(amount, unit) = [amount |-> amount, unit |-> CatalogUnit(unit)]
  BY <1>1, SMT DEF CatalogQuantity, Applicable
<1>2. ASSUME CatalogUnit(unit) # None, Applicable(amount, unit) # {}
      PROVE  \E c \in Applicable(amount, unit) :
               CatalogQuantity(amount, unit) = [amount |-> amount \div c.by, unit |-> Plain(c.to)]
  <2>1. CatalogQuantity(amount, unit) =
          LET c == CHOOSE c \in Applicable(amount, unit) : TRUE IN
          [amount |-> amount \div c.by, unit |-> Plain(c.to)]
    BY <1>2, SMT DEF CatalogQuantity, Applicable
  <2>2. (CHOOSE c \in Applicable(amount, unit) : TRUE) \in Applicable(amount, unit)
    BY <1>2, Zenon
  <2>. QED
    BY <2>1, <2>2, Zenon
<1>. QED
  BY <1>1, <1>2, Zenon

\* What is normalized is a measure again, of the same worth.
LEMMA NormalizedIsWorthAsMuch ==
  ASSUME NEW amount, NEW unit, IsMeasure(amount, unit)
  PROVE  LET q == CatalogQuantity(amount, unit) IN
         /\ IsMeasure(q.amount, q.unit)
         /\ CatalogUnit(unit).word \in DOMAIN Worth
              => InSmallest(amount, unit) = InSmallest(q.amount, q.unit)
<1>. DEFINE normal == CatalogUnit(unit)
            q == CatalogQuantity(amount, unit)
<1>1. amount \in Nat /\ unit \in WrittenUnit
  BY DEF IsMeasure
<1>2. normal \in WrittenUnit /\ CatalogUnit(normal) = normal
  BY <1>1, NormalizedStays, Zenon
<1>3. amount # None
  BY <1>1, InputsAssumption
<1>4. CASE normal = None \/ Applicable(amount, unit) = {}
  <2>1. q = [amount |-> amount, unit |-> normal]
    BY <1>4, <1>3, ConvertedOrNot, Zenon
  <2>2. q.amount = amount /\ q.unit = normal
    BY <2>1
  <2>3. IsMeasure(amount, normal)
    BY <1>2, Zenon DEF IsMeasure
  <2>4. InSmallest(amount, unit) = InSmallest(amount, normal)
    BY <1>2, Zenon DEF InSmallest
  <2>. QED
    BY <2>2, <2>3, <2>4, Zenon
<1>5. CASE normal # None /\ Applicable(amount, unit) # {}
  <2>1. PICK c \in Applicable(amount, unit) :
          q = [amount |-> amount \div c.by, unit |-> Plain(c.to)]
    BY <1>5, <1>3, ConvertedOrNot, Zenon
  <2>2. q.amount = amount \div c.by /\ q.unit = Plain(c.to)
    BY <2>1
  <2>3. c \in Conversions /\ normal = Plain(c.from) /\ amount >= c.least * 1000
    BY DEF Applicable
  <2>4. /\ c.from \in DOMAIN CatalogUnits /\ c.to \in DOMAIN CatalogUnits
        /\ Worth[c.from] \in Nat /\ Worth[c.to] = c.by * Worth[c.from]
        /\ \A d \in Conversions : c.to # d.from
    BY <2>3, ConversionsFit, Zenon
  <2>5. (c.by = 100 \/ c.by = 1000) /\ c.least * 1000 >= 100000
    BY <2>3, ConversionsDivide
  <2>6. /\ Plain(c.from).word = c.from
        /\ Plain(c.to) \in WrittenUnit /\ Plain(c.to).word = c.to
        /\ CatalogUnit(Plain(c.to)) = Plain(c.to)
    BY <2>4, TableIsNormalized, Zenon
  <2>7. \A d \in Conversions : Plain(c.to) # Plain(d.from)
    <3>1. \A d \in Conversions : Plain(d.from).word = d.from
      BY ConversionsFit, TableIsNormalized, Zenon
    <3>. QED
      BY <2>4, <2>6, <3>1, Zenon
  <2>8. amount >= 100000
    <3>1. c.least * 1000 \in Int
      BY <2>3 DEF Conversions
    <3>. QED
      BY <1>1, <2>3, <2>5, <3>1
  <2>9. amount % 1000 = 0
    <3>1. IsExact(amount)
      BY <2>3, Zenon DEF IsMeasure
    <3>. QED
      BY <2>8, <3>1 DEF IsExact
  <2>10. amount \div c.by \in Nat /\ (amount \div c.by) * c.by = amount
    <3>1. CASE c.by = 100
      BY <1>1, <2>9, <3>1
    <3>2. CASE c.by = 1000
      BY <1>1, <2>9, <3>2
    <3>. QED
      BY <2>5, <3>1, <3>2
  <2>11. IsMeasure(amount \div c.by, Plain(c.to))
    BY <2>6, <2>7, <2>10, Zenon DEF IsMeasure
  <2>12. InSmallest(amount, unit) = InSmallest(amount \div c.by, Plain(c.to))
    <3>1. InSmallest(amount, unit) = amount * Worth[c.from]
      BY <2>3, <2>6, Zenon DEF InSmallest
    <3>2. InSmallest(amount \div c.by, Plain(c.to)) = (amount \div c.by) * (c.by * Worth[c.from])
      BY <2>4, <2>6, Zenon DEF InSmallest
    <3>3. \A k, b, w \in Nat : k * (b * w) = (k * b) * w
      OBVIOUS
    <3>4. c.by \in Nat
      BY <2>5
    <3>5. (amount \div c.by) * (c.by * Worth[c.from])
            = ((amount \div c.by) * c.by) * Worth[c.from]
      BY <2>4, <2>10, <3>3, <3>4
    <3>6. (amount \div c.by) * (c.by * Worth[c.from]) = amount * Worth[c.from]
      BY <2>10, <3>5
    <3>. QED
      BY <3>1, <3>2, <3>6, Zenon
  <2>. QED
    BY <2>2, <2>11, <2>12, Zenon
<1>. QED
  BY <1>4, <1>5, Zenon

\* A unit without a full stop, in the two tables of the comparison.
LEMMA ComparedWord ==
  ASSUME NEW unit \in WrittenUnit, unit.dot = FALSE
  PROVE  /\ ComparedUnit(unit) = Plain(UnitIn(ComparedUnits, unit.word))
         /\ QuotedUnit(unit) = Plain(UnitIn(QuotedUnits, unit.word))
         /\ UnitIn(ComparedUnits, unit.word) \in Words
         /\ UnitIn(QuotedUnits, unit.word) \in Words
<1>1. unit # None /\ unit.word \in Words
  BY NoneIsUnwritten DEF WrittenUnit
<1>2. /\ UnitIn(ComparedUnits, unit.word) \in Words
      /\ UnitIn(QuotedUnits, unit.word) \in Words
  BY <1>1, TablesOfWords, UnitInIsAWord, Zenon
<1>. QED
  BY <1>1, <1>2, Zenon DEF ComparedUnit, QuotedUnit

\* The common units are not converted.
LEMMA CommonStays ==
  ASSUME NEW u \in Common
  PROVE  /\ u \in DOMAIN CatalogUnits
         /\ \A c \in Conversions : u # c.from
<1>1. u \in {"pieza", "kg", "l", "m", "caja", "paquete"}
  BY DEF Common
<1>2. u \in DOMAIN CatalogUnits
  BY <1>1 DEF CatalogUnits
<1>3. \A c \in Conversions : u # c.from
  BY <1>1 DEF Conversions
<1>. QED
  BY <1>2, <1>3

\* An amount in a common unit, asked for in one of its words and quoted in another.
LEMMA SynonymsAreMatched ==
  ASSUME NEW amount, NEW unit, IsMeasure(amount, unit),
         NEW written \in Units, written.dot = FALSE, written.word # "ud",
         CatalogUnit(written).word \in Common,
         CatalogUnit(written) = CatalogUnit(unit)
  PROVE  CompareQuantity(RequestedAs(amount, unit), QuotedAs(amount, written)) = "matched"
<1>1. written \in WrittenUnit /\ amount \in Nat /\ unit \in WrittenUnit
  BY MeasuresAssumption DEF IsMeasure
<1>2. written # None /\ amount # None
  <2>1. None \notin Int
    BY InputsAssumption
  <2>. QED
    BY <1>1, <2>1, NoneIsUnwritten
<1>3. PICK u \in DOMAIN CatalogUnits : written.word \in CatalogUnits[u]
  <2>. SUFFICES ASSUME \A u \in DOMAIN CatalogUnits : written.word \notin CatalogUnits[u]
                PROVE  FALSE
    BY Zenon
  <2>1. CatalogUnit(written) = written
    BY <1>2, CatalogUnitIs, Zenon
  <2>. QED
    BY <2>1, CommonStays, UnitsAreWords, Zenon
<1>4. CatalogUnit(written) = Plain(u) /\ Plain(u).word = u
  BY <1>2, <1>3, CatalogUnitIs, TableIsNormalized, Zenon
<1>5. u \in Common
  BY <1>4, Zenon
<1>6. PICK base : base = UnitIn(ComparedUnits, u)
  OBVIOUS
<1>7. ComparedUnit(Plain(u)) = Plain(base) /\ base \in Words
  <2>1. Plain(u) \in WrittenUnit /\ Plain(u).word = u /\ Plain(u).dot = FALSE
    BY <1>3, TablesOfWords, PlainIsThere, Zenon
  <2>. QED
    BY <1>6, <2>1, ComparedWord, Zenon
<1>8. Plain(base) # None
  BY <1>7, PlainIsThere, Zenon
<1>9. RequestedAs(amount, unit) = [value |-> amount, unit |-> Plain(base)]
  <2>1. Applicable(amount, unit) = {}
    <3>1. \A c \in Conversions : Plain(c.from).word = c.from
      BY ConversionsFit, TableIsNormalized, Zenon
    <3>2. \A c \in Conversions : CatalogUnit(unit) # Plain(c.from)
      BY <1>4, <1>5, <3>1, CommonStays, Zenon
    <3>. QED
      BY <3>2 DEF Applicable
  <2>2. CatalogQuantity(amount, unit) = [amount |-> amount, unit |-> Plain(u)]
    BY <1>2, <1>4, <2>1, ConvertedOrNot, Zenon
  <2>3. /\ CatalogQuantity(amount, unit).amount = amount
        /\ CatalogQuantity(amount, unit).unit = Plain(u)
    BY <2>2
  <2>. QED
    BY <1>7, <2>3, Zenon DEF RequestedAs
<1>10. QuotedAs(amount, written) = [quantity |-> amount, unit |-> Plain(base)]
  <2>1. PICK x : x = UnitIn(QuotedUnits, written.word)
    OBVIOUS
  <2>2. QuotedUnit(written) = Plain(x) /\ x \in Words
    BY <1>1, <2>1, ComparedWord, Zenon
  <2>3. Plain(x) \in WrittenUnit /\ Plain(x).word = x /\ Plain(x).dot = FALSE
    BY <2>2, PlainIsThere, Zenon
  <2>4. UnitIn(ComparedUnits, x) = base
    BY <1>3, <1>5, <1>6, <2>1, SynonymsMeet, Zenon
  <2>5. ComparedUnit(Plain(x)) = Plain(base)
    BY <2>3, <2>4, ComparedWord, Zenon
  <2>. QED
    BY <2>2, <2>5, Zenon DEF QuotedAs
<1>11. PICK requested, quoted :
         /\ requested = RequestedAs(amount, unit) /\ quoted = QuotedAs(amount, written)
         /\ requested.value = amount /\ requested.unit = Plain(base)
         /\ quoted.quantity = amount /\ quoted.unit = Plain(base)
  BY <1>9, <1>10
<1>12. CompareQuantity(requested, quoted) = "matched"
  BY <1>2, <1>8, <1>11 DEF CompareQuantity
<1>. QED
  BY <1>11, <1>12, Zenon

-----------------------------------------------------------------------------

\* The amount and the unit of the input are a measure.
HasMeasure ==
  About("units") =>
    /\ {"amount", "unit"} \subseteq DOMAIN input
    /\ IsMeasure(input.amount, input.unit)

MeasureInv == HasTopic /\ HasMeasure

\* A step normalizes the measure.
LEMMA MeasureStep ==
  ASSUME MeasureInv, About("units"), Normalize
  PROVE  LET q == CatalogQuantity(input.amount, input.unit) IN
         input'.amount = q.amount /\ input'.unit = q.unit
<1>1. PICK q : q = CatalogQuantity(input.amount, input.unit)
  OBVIOUS
<1>2. input' = [input EXCEPT !.amount = q.amount, !.unit = q.unit]
  BY <1>1, Zenon DEF Normalize
<1>3. "amount" \in DOMAIN input /\ "unit" \in DOMAIN input
  BY DEF MeasureInv, HasMeasure
<1>. QED
  BY <1>1, <1>2, <1>3

\* Normalizing keeps what a measure is worth, once and again, and what is asked for
\* and quoted in two words of a common unit is a match: for any amounts that the
\* conversions divide and any written units, in the tables or not.
THEOREM MeasuresAreKept == Spec => MeasuresAgree
<1>. DEFINE Keeps ==
       About("units") /\ CatalogUnit(input.unit).word \in DOMAIN Worth =>
         InSmallest(input.amount, input.unit) = InSmallest(input.amount', input.unit')
<1>1. Init => MeasureInv
  <2>. SUFFICES ASSUME Init
                PROVE  MeasureInv
    OBVIOUS
  <2>1. CASE input \in [topic : {"units"}, amount : Amounts, unit : Units]
    <3>1. input.amount \in Amounts /\ input.unit \in Units
      BY <2>1
    <3>2. input.amount \in Nat /\ IsExact(input.amount) /\ input.unit \in WrittenUnit
      BY <3>1, MeasuresAssumption DEF IsExact
    <3>3. IsMeasure(input.amount, input.unit)
      BY <3>2, Zenon DEF IsMeasure
    <3>. QED
      BY <2>1, <3>3 DEF MeasureInv, HasTopic, HasMeasure
  <2>2. CASE input.topic # "units" /\ "topic" \in DOMAIN input
    BY <2>2 DEF MeasureInv, HasTopic, HasMeasure, About
  <2>3. CASE \/ input \in [topic : {"comparison"}, lines : {{}}, quoting : SUBSET Suppliers,
                           weights : Weights]
             \/ input \in [topic : {"specifications"}, requested : Specifications,
                           quoted : {<< >>}]
    BY <2>2, <2>3
  <2>4. CASE \/ input = [topic |-> "suppliers", suppliers |-> {}, unstored |-> {}]
             \/ input \in [topic : {"documents"}, primary : Blank \cup {None},
                           fallback : Blank \cup {None}]
             \/ input \in [topic : {"matching"}, item : Items, products : {{}}]
    BY <2>2, <2>4
  <2>. QED
    BY <2>1, <2>3, <2>4 DEF Init
<1>2. ASSUME MeasureInv, Next, About("units")
      PROVE  /\ input'.amount = CatalogQuantity(input.amount, input.unit).amount
             /\ input'.unit = CatalogQuantity(input.amount, input.unit).unit
  BY <1>2, TopicGoesOn, MeasureStep, Zenon DEF MeasureInv
<1>3. ASSUME MeasureInv, About("units")
      PROVE  LET q == CatalogQuantity(input.amount, input.unit) IN
             /\ IsMeasure(q.amount, q.unit)
             /\ CatalogUnit(input.unit).word \in DOMAIN Worth =>
                  InSmallest(input.amount, input.unit) = InSmallest(q.amount, q.unit)
  BY <1>3, NormalizedIsWorthAsMuch, Zenon DEF MeasureInv, HasMeasure
<1>4. MeasureInv /\ [Next]_input => MeasureInv'
  <2>. SUFFICES ASSUME MeasureInv, [Next]_input
                PROVE  MeasureInv'
    OBVIOUS
  <2>1. CASE UNCHANGED input
    BY <2>1 DEF MeasureInv, HasTopic, HasMeasure, About
  <2>2. CASE Next
    <3>1. HasTopic' /\ (About("units")' <=> About("units")) /\ DOMAIN input' = DOMAIN input
      BY <2>2, TopicStays, Zenon DEF MeasureInv, HasTopic, About
    <3>2. CASE About("units")
      <4>1. IsMeasure(input.amount, input.unit)'
        BY <1>2, <1>3, <2>2, <3>2, Zenon
      <4>2. {"amount", "unit"} \subseteq DOMAIN input'
        BY <3>1, <3>2 DEF MeasureInv, HasMeasure
      <4>. QED
        BY <3>1, <4>1, <4>2 DEF MeasureInv, HasMeasure
    <3>3. CASE ~About("units")
      BY <3>1, <3>3 DEF MeasureInv, HasMeasure
    <3>. QED
      BY <3>2, <3>3
  <2>. QED
    BY <2>1, <2>2
<1>5. MeasureInv /\ [Next]_input => [Keeps]_input
  <2>. SUFFICES ASSUME MeasureInv, Next, About("units"),
                       CatalogUnit(input.unit).word \in DOMAIN Worth
                PROVE  InSmallest(input.amount, input.unit) = InSmallest(input.amount', input.unit')
    OBVIOUS
  <2>. QED
    BY <1>2, <1>3, Zenon
<1>6. MeasureInv => SynonymsMatch
  <2>. SUFFICES ASSUME MeasureInv, About("units"), NEW written \in Units,
                       ~written.dot, written.word # "ud",
                       CatalogUnit(written).word \in Common,
                       CatalogUnit(written) = CatalogUnit(input.unit)
                PROVE  CompareQuantity(RequestedAs(input.amount, input.unit),
                                       QuotedAs(input.amount, written)) = "matched"
    BY Zenon DEF SynonymsMatch
  <2>1. IsMeasure(input.amount, input.unit)
    BY Zenon DEF MeasureInv, HasMeasure
  <2>2. written.dot = FALSE
    BY MeasuresAssumption DEF WrittenUnit
  <2>. QED
    BY <2>1, <2>2, SynonymsAreMatched, Zenon
<1>7. Spec => [][Keeps]_input
  BY <1>1, <1>4, <1>5, PTL DEF Spec
<1>8. Spec => []SynonymsMatch
  BY <1>1, <1>4, <1>6, PTL DEF Spec
<1>. QED
  BY <1>7, <1>8 DEF MeasuresAgree, AmountIsKept, Keeps
=============================================================================
