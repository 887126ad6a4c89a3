---------------------------- MODULE RateLimitProofs ----------------------------
(***************************************************************************)
(* Proof that the rate limit holds in every window, for any limit and any  *)
(* length of the window.  The bound is on a sum over the ticks of a window,*)
(* so the first part is about sums: that FoldFunction computes one at all, *)
(* that its order does not matter, and how it changes.                     *)
(***************************************************************************)
EXTENDS RateLimit, FiniteSetTheorems, TLAPS

-----------------------------------------------------------------------------
(* Induction, as the existence of a smallest counterexample. *)

LEMMA SmallestNat ==
    ASSUME NEW B, B \subseteq Nat, B # {}
    PROVE  \E n \in B : \A m \in B : n <= m
<1> DEFINE R == OpToRel(<, Nat)
<1>1. IsWellFoundedOn(R, Nat)
  BY NatLessThanWellFounded
<1>2. \A x, y \in Nat : <<x, y>> \in R <=> x < y
  BY DEF OpToRel
<1> HIDE DEF R
<1>3. PICK n \in B : \A m \in B : ~(<<m, n>> \in R)
  BY <1>1, WFMin
<1>4. ASSUME NEW m \in B PROVE n <= m
  <2>1. m \in Nat /\ n \in Nat /\ ~(m < n)
    BY <1>2, <1>3
  <2> QED BY <2>1
<1> QED BY <1>4

LEMMA SmallestSet ==
    ASSUME NEW S, IsFiniteSet(S), NEW B, B \subseteq SUBSET S, B # {}
    PROVE  \E s \in B : \A t \in B : t \subseteq s => t = s
<1> DEFINE R == StrictSubsetOrdering(S)
<1>1. IsWellFoundedOn(R, SUBSET S)
  BY FS_StrictSubsetOrderingWellFounded, FS_FiniteSubsetsOfFinite
<1>2. \A s, t \in SUBSET S : t \subseteq s /\ t # s => <<t, s>> \in R
  BY DEF StrictSubsetOrdering
<1> HIDE DEF R
<1>3. PICK s \in B : \A t \in B : ~(<<t, s>> \in R)
  BY <1>1, WFMin
<1> QED BY <1>2, <1>3

-----------------------------------------------------------------------------
(* Sums. *)

\* One step of the fold over the values of f: g holds the sums of the subsets.
Added(f, g, s) == IF s = {} THEN 0 ELSE LET x == CHOOSE x \in s : TRUE IN f[x] + g[s \ {x}]
Sums(f, g) == g = [s \in SUBSET DOMAIN f |-> Added(f, g, s)]

LEMMA SumsExist ==
    ASSUME NEW S, IsFiniteSet(S), NEW f \in [S -> Nat]
    PROVE  \E g \in [SUBSET S -> Nat] : Sums(f, g)
<1> DEFINE Upto(n, g) == \A s \in SUBSET S : Cardinality(s) <= n => g[s] = Added(f, g, s)
           B == {n \in Nat : ~\E g \in [SUBSET S -> Nat] : Upto(n, g)}
<1>1. \A s \in SUBSET S : IsFiniteSet(s) /\ Cardinality(s) \in Nat /\ Cardinality(s) <= Cardinality(S)
  BY FS_Subset, FS_CardinalityType
<1>2. \A s \in SUBSET S : s # {} => /\ (CHOOSE x \in s : TRUE) \in s
                                    /\ Cardinality(s \ {CHOOSE x \in s : TRUE}) = Cardinality(s) - 1
  BY <1>1, FS_RemoveElement
<1>3. B = {}
  <2> SUFFICES ASSUME B # {} PROVE FALSE
    OBVIOUS
  <2>1. PICK n \in B : \A m \in B : n <= m
    BY SmallestNat
  <2>2. CASE n = 0
    <3> DEFINE g == [s \in SUBSET S |-> 0]
    <3>1. \A s \in SUBSET S : Cardinality(s) <= 0 => s = {}
      BY <1>1, FS_EmptySet
    <3>2. Upto(0, g)
      BY <3>1 DEF Added
    <3> QED BY <2>2, <3>2
  <2>3. CASE n # 0
    <3>1. n - 1 \in Nat /\ n - 1 \notin B
      <4>1. n \in Nat
        OBVIOUS
      <4>2. n - 1 \in B => n <= n - 1
        BY <2>1
      <4> HIDE DEF B
      <4> QED BY <2>3, <4>1, <4>2
    <3>2. PICK g \in [SUBSET S -> Nat] : Upto(n - 1, g)
      BY <3>1
    <3> DEFINE h == [s \in SUBSET S |-> IF Cardinality(s) <= n - 1 THEN g[s] ELSE Added(f, g, s)]
    <3>3. ASSUME NEW s \in SUBSET S PROVE Added(f, g, s) \in Nat
      <4> DEFINE x == CHOOSE x \in s : TRUE
      <4>1. CASE s = {}
        BY <4>1 DEF Added
      <4>2. CASE s # {}
        <5>1. x \in S /\ s \ {x} \in SUBSET S
          BY <1>2, <4>2
        <5>2. Added(f, g, s) = f[x] + g[s \ {x}]
          BY <4>2 DEF Added
        <5> HIDE DEF x
        <5>3. f[x] \in Nat /\ g[s \ {x}] \in Nat
          BY <5>1
        <5> QED BY <5>2, <5>3
      <4> QED BY <4>1, <4>2
    <3>4. h \in [SUBSET S -> Nat]
      BY <3>3
    <3>5. ASSUME NEW s \in SUBSET S, Cardinality(s) <= n PROVE h[s] = Added(f, h, s)
      <4>1. h[s] = Added(f, g, s)
        BY <3>2
      <4>2. s # {} => h[s \ {CHOOSE x \in s : TRUE}] = g[s \ {CHOOSE x \in s : TRUE}]
        <5> SUFFICES ASSUME s # {} PROVE Cardinality(s \ {CHOOSE x \in s : TRUE}) <= n - 1
          OBVIOUS
        <5>1. /\ Cardinality(s \ {CHOOSE x \in s : TRUE}) = Cardinality(s) - 1
              /\ Cardinality(s) \in Nat /\ n \in Nat
          BY <1>1, <1>2
        <5> QED BY <3>5, <5>1
      <4> HIDE DEF h
      <4> QED BY <4>1, <4>2 DEF Added
    <3>6. Upto(n, h)
      BY <3>5
    <3> HIDE DEF h, Upto
    <3> QED BY <3>4, <3>6
  <2> QED BY <2>2, <2>3
<1>4. PICK g \in [SUBSET S -> Nat] : Upto(Cardinality(S), g)
  BY <1>3, FS_CardinalityType
<1>5. \A s \in SUBSET S : g[s] = Added(f, g, s)
  BY <1>1, <1>4
<1> QED BY <1>5 DEF Sums

\* The order of the fold does not matter: any element can be taken first.
TakesApart(S, f, g) == \A t \in SUBSET S : \A y \in t : g[t] = f[y] + g[t \ {y}]

LEMMA SumTakesApart ==
    ASSUME NEW S, IsFiniteSet(S), NEW f \in [S -> Nat], NEW g \in [SUBSET S -> Nat], Sums(f, g)
    PROVE  TakesApart(S, f, g)
<1> DEFINE B == {s \in SUBSET S : \E x \in s : g[s] # f[x] + g[s \ {x}]}
<1> SUFFICES ASSUME B # {} PROVE FALSE
  BY DEF TakesApart
<1>1. PICK s \in B : \A r \in B : r \subseteq s => r = s
  <2>1. B \subseteq SUBSET S
    OBVIOUS
  <2> HIDE DEF B
  <2> QED BY <2>1, SmallestSet
<1>2. PICK x \in s : g[s] # f[x] + g[s \ {x}]
  OBVIOUS
<1> DEFINE c == CHOOSE z \in s : TRUE
<1>3. c \in s /\ s \in SUBSET S
  OBVIOUS
<1>4. g[s] = f[c] + g[s \ {c}]
  BY <1>3 DEF Sums, Added
<1> HIDE DEF c
<1>5. x # c
  BY <1>2, <1>4
<1>6. s \ {c} \notin B /\ s \ {x} \notin B /\ s \ {c} \in SUBSET S /\ s \ {x} \in SUBSET S
  BY <1>1, <1>2, <1>3
<1>7. g[s \ {c}] = f[x] + g[(s \ {c}) \ {x}] /\ g[s \ {x}] = f[c] + g[(s \ {x}) \ {c}]
  BY <1>2, <1>3, <1>5, <1>6
<1>8. (s \ {c}) \ {x} = (s \ {x}) \ {c} /\ (s \ {c}) \ {x} \in SUBSET S
  BY <1>3
<1>9. f[x] \in Nat /\ f[c] \in Nat /\ g[(s \ {c}) \ {x}] \in Nat
  BY <1>3, <1>8
<1>10. \A i, j, k \in Nat : i + (j + k) = j + (i + k)
  OBVIOUS
<1>11. g[s] = f[c] + (f[x] + g[(s \ {c}) \ {x}])
  BY <1>4, <1>7
<1>12. g[s \ {x}] = f[c] + g[(s \ {c}) \ {x}]
  BY <1>7, <1>8
<1>13. g[s] = f[x] + g[s \ {x}]
  BY <1>9, <1>10, <1>11, <1>12
<1> QED BY <1>2, <1>13

\* The fold's own choice of g is one of them.
LEMMA SumsUnique ==
    ASSUME NEW S, IsFiniteSet(S), NEW f \in [S -> Nat], NEW h \in [SUBSET S -> Nat], Sums(f, h),
           NEW g, Sums(f, g)
    PROVE  g = h
<1> DEFINE B == {s \in SUBSET S : g[s] # h[s]}
<1>1. B = {}
  <2> SUFFICES ASSUME B # {} PROVE FALSE
    OBVIOUS
  <2>1. PICK s \in B : \A r \in B : r \subseteq s => r = s
    <3>1. B \subseteq SUBSET S
      OBVIOUS
    <3> HIDE DEF B
    <3> QED BY <3>1, SmallestSet
  <2>2. g[s] = Added(f, g, s) /\ h[s] = Added(f, h, s)
    BY DEF Sums
  <2>3. s # {}
    BY <2>2 DEF Added
  <2>4. g[s \ {CHOOSE x \in s : TRUE}] = h[s \ {CHOOSE x \in s : TRUE}]
    BY <2>1, <2>3
  <2> QED BY <2>2, <2>3, <2>4 DEF Added
<1>2. DOMAIN g = SUBSET S /\ g = [s \in DOMAIN g |-> g[s]]
  BY DEF Sums
<1> QED BY <1>1, <1>2

\* What FoldFunction returns.
LEMMA TotalIsSum ==
    ASSUME NEW S, IsFiniteSet(S), NEW f \in [S -> Nat]
    PROVE  \E g \in [SUBSET S -> Nat] : Sums(f, g) /\ Total(f) = g[S]
<1> DEFINE g == CHOOSE g : g = [s \in SUBSET S |-> Added(f, g, s)]
<1>1. PICK h \in [SUBSET S -> Nat] : Sums(f, h)
  BY SumsExist
<1>2. h = [s \in SUBSET S |-> Added(f, h, s)]
  BY <1>1 DEF Sums
<1>3. g = [s \in SUBSET S |-> Added(f, g, s)]
  BY <1>2
<1>4. Total(f) = g[S]
  BY DEF Total, FoldFunction, FoldFunctionOnSet, MapThenFoldSet, Added
<1> HIDE DEF g
<1>5. Sums(f, g)
  BY <1>3 DEF Sums
<1> QED BY <1>1, <1>4, <1>5, SumsUnique

-----------------------------------------------------------------------------
(* Totals over the ages of a window. *)

LEMMA AgeFinite == IsFiniteSet(Age) /\ 0 \in Age
BY WindowAssumption, FS_Interval DEF Age

LEMMA TotalZero == Total([a \in Age |-> 0]) = 0
<1> DEFINE f == [a \in Age |-> 0]
<1>1. PICK g \in [SUBSET Age -> Nat] : Sums(f, g) /\ Total(f) = g[Age]
  BY AgeFinite, TotalIsSum
<1> DEFINE B == {s \in SUBSET Age : g[s] # 0}
<1>2. B = {}
  <2> SUFFICES ASSUME B # {} PROVE FALSE
    OBVIOUS
  <2>1. PICK s \in B : \A r \in B : r \subseteq s => r = s
    <3>1. B \subseteq SUBSET Age
      OBVIOUS
    <3> HIDE DEF B
    <3> QED BY <3>1, AgeFinite, SmallestSet
  <2> DEFINE x == CHOOSE x \in s : TRUE
  <2>2. s # {}
    BY <1>1 DEF Sums, Added
  <2>3. g[s] = f[x] + g[s \ {x}]
    BY <1>1, <2>2 DEF Sums, Added
  <2>4. x \in s /\ f[x] = 0
    BY <2>2
  <2> HIDE DEF x
  <2>5. g[s \ {x}] = 0
    BY <2>1, <2>4
  <2> HIDE DEF f
  <2>6. g[s] = 0
    BY <2>3, <2>4, <2>5
  <2> QED BY <2>6
<1> QED BY <1>1, <1>2

\* Functions that agree on a set agree in its sum.
Agree(f, f2, t) == \A x \in t : f[x] = f2[x]
AgreeInSum(S, f, f2, g, g2) == \A t \in SUBSET S : Agree(f, f2, t) => g[t] = g2[t]

LEMMA SumsAgree ==
    ASSUME NEW S, IsFiniteSet(S), NEW f \in [S -> Nat], NEW g \in [SUBSET S -> Nat], Sums(f, g),
           NEW f2 \in [S -> Nat], NEW g2 \in [SUBSET S -> Nat], Sums(f2, g2)
    PROVE  AgreeInSum(S, f, f2, g, g2)
<1> SUFFICES ASSUME NEW t \in SUBSET S, Agree(f, f2, t)
             PROVE  g[t] = g2[t]
  BY DEF AgreeInSum
<1> DEFINE B == {s \in SUBSET t : g[s] # g2[s]}
<1> SUFFICES ASSUME B # {} PROVE FALSE
  OBVIOUS
<1>1. PICK s \in B : \A r \in B : r \subseteq s => r = s
  <2>1. B \subseteq SUBSET t /\ IsFiniteSet(t)
    BY FS_Subset
  <2> HIDE DEF B
  <2> QED BY <2>1, SmallestSet
<1> DEFINE x == CHOOSE x \in s : TRUE
<1>2. g[s] = Added(f, g, s) /\ g2[s] = Added(f2, g2, s)
  BY DEF Sums
<1>3. s # {}
  BY <1>2 DEF Added
<1>4. g[s] = f[x] + g[s \ {x}] /\ g2[s] = f2[x] + g2[s \ {x}]
  BY <1>2, <1>3 DEF Added
<1>5. x \in s
  BY <1>3
<1> HIDE DEF x
<1>6. g[s \ {x}] = g2[s \ {x}] /\ f[x] = f2[x]
  BY <1>1, <1>5 DEF Agree
<1>7. g[s] = g2[s]
  BY <1>4, <1>6
<1> QED BY <1>7

LEMMA TotalRecord ==
    ASSUME NEW f \in [Age -> Nat]
    PROVE  Total(Record(f)) = Total(f) + 1
<1>1. Record(f) \in [Age -> Nat]
  BY AgeFinite DEF Record
<1>a. Agree(f, Record(f), Age \ {0})
  BY AgeFinite DEF Record, Agree
<1>2. Record(f)[0] = f[0] + 1
  BY AgeFinite DEF Record
<1>3. PICK g \in [SUBSET Age -> Nat] : Sums(f, g) /\ Total(f) = g[Age]
  BY AgeFinite, TotalIsSum
<1>4. PICK h \in [SUBSET Age -> Nat] : Sums(Record(f), h) /\ Total(Record(f)) = h[Age]
  BY <1>1, AgeFinite, TotalIsSum
<1>5. g[Age] = f[0] + g[Age \ {0}]
  <2>1. TakesApart(Age, f, g)
    BY <1>3, AgeFinite, SumTakesApart
  <2> QED BY <2>1, AgeFinite DEF TakesApart
<1>6. h[Age] = Record(f)[0] + h[Age \ {0}]
  <2>1. TakesApart(Age, Record(f), h)
    BY <1>1, <1>4, AgeFinite, SumTakesApart
  <2> QED BY <2>1, AgeFinite DEF TakesApart
<1>7. g[Age \ {0}] = h[Age \ {0}]
  <2>1. AgreeInSum(Age, f, Record(f), g, h)
    BY <1>1, <1>3, <1>4, AgeFinite, SumsAgree
  <2> QED BY <1>a, <2>1 DEF AgreeInSum
<1>8. f[0] \in Nat /\ g[Age \ {0}] \in Nat
  BY AgeFinite
<1> QED BY <1>2, <1>3, <1>4, <1>5, <1>6, <1>7, <1>8

\* A tick moves every entry on by one and drops the last: h sums the moved ones.
Shifted(g, h) == \A n \in Age : h[0 .. n] = IF n = 0 THEN 0 ELSE g[0 .. n - 1]

LEMMA OlderShifts ==
    ASSUME NEW f \in [Age -> Nat],
           NEW g \in [SUBSET Age -> Nat], Sums(f, g),
           NEW h \in [SUBSET Age -> Nat], Sums(Older(f), h)
    PROVE  Shifted(g, h)
<1> DEFINE B == {m \in Age : h[0 .. m] # IF m = 0 THEN 0 ELSE g[0 .. m - 1]}
<1> SUFFICES ASSUME B # {} PROVE FALSE
  BY DEF Shifted
<1>0. Window \in Nat /\ Older(f) \in [Age -> Nat]
  BY WindowAssumption DEF Older, Age
<1>a. TakesApart(Age, f, g)
  BY AgeFinite, SumTakesApart
<1>b. TakesApart(Age, Older(f), h)
  BY <1>0, AgeFinite, SumTakesApart
<1>1. PICK m \in B : \A k \in B : m <= k
  <2>1. B \subseteq Nat
    BY DEF Age
  <2> HIDE DEF B
  <2> QED BY <2>1, SmallestNat
<1>2. m \in Age /\ m \in 0 .. m /\ 0 .. m \in SUBSET Age
  BY <1>0 DEF Age
<1>3. h[0 .. m] = Older(f)[m] + h[(0 .. m) \ {m}]
  BY <1>2, <1>b DEF TakesApart
<1>4. CASE m = 0
  <2>1. (0 .. m) \ {m} = {} /\ Older(f)[m] = 0
    BY <1>2, <1>4 DEF Older, Age
  <2>2. h[{}] = 0
    BY DEF Sums, Added
  <2>3. h[(0 .. m) \ {m}] = 0
    BY <2>1, <2>2
  <2>4. h[0 .. m] = 0 + 0
    BY <1>3, <2>1, <2>3
  <2> QED BY <1>4, <2>4
<1>5. CASE m # 0
  <2>1. m - 1 \in Age /\ (0 .. m) \ {m} = 0 .. m - 1 /\ 0 .. m - 1 \in SUBSET Age /\ m - 1 \in 0 .. m - 1
    BY <1>0, <1>2, <1>5 DEF Age
  <2>2. m - 1 \notin B
    <3>1. m \in Nat
      BY DEF Age
    <3>2. m - 1 \in B => m <= m - 1
      BY <1>1
    <3> HIDE DEF B
    <3> QED BY <3>1, <3>2
  <2>3. h[0 .. m - 1] = IF m - 1 = 0 THEN 0 ELSE g[0 .. (m - 1) - 1]
    BY <2>1, <2>2
  <2>4. Older(f)[m] = f[m - 1]
    BY <1>2, <1>5 DEF Older
  <2>5. g[0 .. m - 1] = f[m - 1] + g[(0 .. m - 1) \ {m - 1}]
    BY <2>1, <1>a DEF TakesApart
  <2>6. (0 .. m - 1) \ {m - 1} = IF m - 1 = 0 THEN {} ELSE 0 .. (m - 1) - 1
    BY <2>1 DEF Age
  <2>7. g[{}] = 0
    BY DEF Sums, Added
  <2>8. h[0 .. m - 1] = g[(0 .. m - 1) \ {m - 1}]
    BY <2>3, <2>6, <2>7
  <2>9. h[0 .. m] = g[0 .. m - 1]
    BY <1>3, <2>1, <2>4, <2>5, <2>8
  <2> QED BY <1>5, <2>9
<1> QED BY <1>4, <1>5

LEMMA TotalOlder ==
    ASSUME NEW f \in [Age -> Nat]
    PROVE  Total(f) = f[Window - 1] + Total(Older(f))
<1>1. Older(f) \in [Age -> Nat] /\ Window \in Nat \ {0} /\ Window - 1 \in Age /\ Age = 0 .. Window - 1
  BY WindowAssumption DEF Older, Age
<1>2. PICK g \in [SUBSET Age -> Nat] : Sums(f, g) /\ Total(f) = g[Age]
  BY AgeFinite, TotalIsSum
<1>3. PICK h \in [SUBSET Age -> Nat] : Sums(Older(f), h) /\ Total(Older(f)) = h[Age]
  BY <1>1, AgeFinite, TotalIsSum
<1>4. g[Age] = f[Window - 1] + g[Age \ {Window - 1}]
  <2>1. TakesApart(Age, f, g)
    BY <1>2, AgeFinite, SumTakesApart
  <2> QED BY <1>1, <2>1 DEF TakesApart
<1>5. h[Age] = IF Window - 1 = 0 THEN 0 ELSE g[0 .. (Window - 1) - 1]
  <2> DEFINE n == Window - 1
  <2>1. Shifted(g, h)
    BY <1>1, <1>2, <1>3, OlderShifts
  <2> QED BY <1>1, <2>1 DEF Shifted
<1>6. Age \ {Window - 1} = IF Window - 1 = 0 THEN {} ELSE 0 .. (Window - 1) - 1
  BY <1>1
<1>7. g[{}] = 0
  BY <1>2 DEF Sums, Added
<1>8. h[Age] = g[Age \ {Window - 1}]
  BY <1>5, <1>6, <1>7
<1> QED BY <1>2, <1>3, <1>4, <1>8

LEMMA TotalIsNat ==
    ASSUME NEW f \in [Age -> Nat]
    PROVE  Total(f) \in Nat
<1>1. PICK g \in [SUBSET Age -> Nat] : Sums(f, g) /\ Total(f) = g[Age]
  BY AgeFinite, TotalIsSum
<1> QED BY <1>1

-----------------------------------------------------------------------------
(* The limit. *)

TypeInv ==
    /\ count \in Nat /\ ttl \in 0 .. Window
    /\ tried \in [Age -> Nat] /\ passed \in [Age -> Nat]

\* The counter counts at least the requests let through in the window, and a key
\* that is about to expire was not extended by a request since: the ones let
\* through are then at least Window - ttl ticks old.
PassedCounted ==
    /\ Total(passed) <= count
    /\ \A a \in Age : a < Window - ttl => passed[a] = 0

LimitInv == TypeInv /\ PassedCounted /\ WindowBounded

LEMMA TickNothingPassed ==
    ASSUME NEW f \in [Age -> Nat], \A a \in Age : a < Window - 1 => f[a] = 0
    PROVE  Older(f) = [a \in Age |-> 0]
<1>1. ASSUME NEW a \in Age PROVE Older(f)[a] = 0
  <2>1. CASE a = 0
    BY <2>1 DEF Older
  <2>2. CASE a # 0
    <3>1. a - 1 \in Age /\ a - 1 < Window - 1
      BY <2>2, WindowAssumption DEF Age
    <3> QED BY <2>2, <3>1 DEF Older
  <2> QED BY <2>1, <2>2
<1> QED BY <1>1 DEF Older

LEMMA LimitInit == Init => LimitInv
<1> SUFFICES ASSUME Init PROVE LimitInv
  OBVIOUS
<1>1. TypeInv
  BY WindowAssumption DEF Init, TypeInv
<1>2. Total(passed) = 0
  BY TotalZero DEF Init
<1> QED BY <1>1, <1>2, WindowAssumption DEF Init, LimitInv, PassedCounted, WindowBounded

LEMMA LimitStep == LimitInv /\ [Next]_vars => LimitInv'
<1> SUFFICES ASSUME LimitInv, [Next]_vars PROVE LimitInv'
  OBVIOUS
<1>1. /\ count \in Nat /\ ttl \in 0 .. Window /\ Window \in Nat \ {0} /\ MaxRequests \in Nat \ {0}
      /\ tried \in [Age -> Nat] /\ passed \in [Age -> Nat]
      /\ Total(passed) \in Nat /\ Total(passed) <= count /\ Total(passed) <= MaxRequests
  BY WindowAssumption, TotalIsNat DEF LimitInv, TypeInv, PassedCounted, WindowBounded
<1>2. /\ Record(tried) \in [Age -> Nat] /\ Older(tried) \in [Age -> Nat]
      /\ Record(passed) \in [Age -> Nat] /\ Older(passed) \in [Age -> Nat]
  BY <1>1, AgeFinite DEF Record, Older, Age
<1>3. CASE Pass
  <2>1. TypeInv'
    BY <1>1, <1>2, <1>3 DEF Pass, Incr, Expire, TypeInv
  <2>2. Total(passed)' = Total(passed) + 1
    BY <1>1, <1>3, TotalRecord DEF Pass
  <2>3. count' = count + 1 /\ count' <= MaxRequests /\ ttl' = Window
    BY <1>3 DEF Pass, Incr, Expire
  <2>4. PassedCounted'
    BY <1>1, <2>2, <2>3 DEF PassedCounted, Age
  <2>5. WindowBounded'
    BY <1>1, <2>2, <2>3 DEF WindowBounded
  <2> QED BY <2>1, <2>4, <2>5 DEF LimitInv
<1>4. CASE Refuse \/ PipelineFails
  <2>1. /\ count' = count + 1 /\ passed' = passed /\ tried' = Record(tried)
        /\ ttl' = Window \/ ttl' = ttl
    BY <1>4 DEF Refuse, PipelineFails, Incr, Expire
  <2>2. TypeInv'
    BY <1>1, <1>2, <2>1 DEF TypeInv
  <2>3. \A a \in Age : a < Window - ttl' => passed[a] = 0
    BY <1>1, <2>1 DEF LimitInv, PassedCounted, Age
  <2>4. PassedCounted' /\ WindowBounded'
    BY <1>1, <2>1, <2>3 DEF PassedCounted, WindowBounded
  <2> QED BY <2>2, <2>4 DEF LimitInv
<1>5. CASE Tick
  <2>1. /\ ttl' = IF ttl = 0 THEN 0 ELSE ttl - 1
        /\ count' = IF ttl = 1 THEN 0 ELSE count
        /\ tried' = Older(tried) /\ passed' = Older(passed)
    BY <1>5 DEF Tick
  <2>2. TypeInv'
    BY <1>1, <1>2, <2>1 DEF TypeInv
  <2>3. Total(passed') <= Total(passed) /\ Total(passed') \in Nat
    <3>1. Total(passed) = passed[Window - 1] + Total(Older(passed)) /\ Total(Older(passed)) \in Nat
      BY <1>1, <1>2, TotalOlder, TotalIsNat
    <3>2. passed[Window - 1] \in Nat
      BY <1>1 DEF Age
    <3> QED BY <1>1, <2>1, <3>1, <3>2
  <2>4. Total(passed') <= count'
    <3>1. CASE ttl = 1
      <4>1. Older(passed) = [a \in Age |-> 0]
        BY <1>1, <3>1, TickNothingPassed DEF LimitInv, PassedCounted
      <4> QED BY <2>1, <3>1, <4>1, TotalZero
    <3> QED BY <1>1, <2>1, <2>3, <3>1
  <2>5. ASSUME NEW a \in Age, a < Window - ttl' PROVE passed'[a] = 0
    <3>1. CASE a = 0
      BY <2>1, <3>1 DEF Older
    <3>2. CASE a # 0
      <4>1. a - 1 \in Age /\ a - 1 < Window - ttl
        BY <1>1, <2>1, <2>5, <3>2 DEF Age
      <4> QED BY <2>1, <3>2, <4>1 DEF Older, LimitInv, PassedCounted
    <3> QED BY <3>1, <3>2
  <2>6. PassedCounted'
    BY <2>4, <2>5 DEF PassedCounted
  <2>7. WindowBounded'
    BY <1>1, <2>3 DEF WindowBounded
  <2> QED BY <2>2, <2>6, <2>7 DEF LimitInv
<1>6. CASE UNCHANGED vars
  BY <1>6 DEF vars, LimitInv, TypeInv, PassedCounted, WindowBounded
<1> QED BY <1>3, <1>4, <1>5, <1>6 DEF Next

(***************************************************************************)
(* For every limit and every length of the window: in no window are more   *)
(* requests of a client let through on Redis' answer than the limit, with  *)
(* keys that expire and pipelines that break (RateLimit of ratelimit.go).  *)
(***************************************************************************)
THEOREM WindowStaysBounded == Spec => []WindowBounded
<1>1. LimitInv => WindowBounded
  BY DEF LimitInv
<1> QED BY <1>1, LimitInit, LimitStep, PTL DEF Spec
=============================================================================
