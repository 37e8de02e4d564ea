--------------------------- MODULE ArithmeticProofs ---------------------------
(***************************************************************************)
(* Lemmas about the arithmetic of the models.  Sums: the recursion behind   *)
(* the folds of the community modules has a solution over a finite set, and *)
(* its values are where the summands are, in whatever order they are taken. *)
(* Fractions: what Rat returns is the quotient of its arguments in lowest   *)
(* terms; equal fractions are the same, and sums of them are counted in     *)
(* parts of one denominator.                                               *)
(***************************************************************************)
EXTENDS Portfolio, SequencesExt, FiniteSetTheorems, WellFoundedInduction, TLAPS

\* A set of natural numbers that has an element has a least one.
LEMMA LeastNatural ==
  ASSUME NEW T, T \subseteq Nat, T # {}
  PROVE  \E n \in T : \A m \in T : n <= m
<1>1. PICK n \in T : \A m \in T : ~ (<<m, n>> \in OpToRel(<, Nat))
  BY NatLessThanWellFounded, WFMin
<1>2. \A m \in T : ~ (m < n)
  BY <1>1 DEF OpToRel
<1> QED
  BY <1>2

-----------------------------------------------------------------------------
(* The recursion of MapThenFoldSet for a sum.                               *)

\* The element the folds take first.
Picked(s) == CHOOSE x \in s : TRUE

\* it[s] is the sum of the f[x] over the elements x of s, for each s in D.
SumsUp(it, f, D) ==
  it = [s \in D |-> IF s = {} THEN 0 ELSE f[Picked(s)] + it[s \ {Picked(s)}]]

LEMMA SumUnfolds ==
  ASSUME NEW f, NEW S
  PROVE  MapThenSumSet(LAMBDA i : f[i], S) = (CHOOSE it : SumsUp(it, f, SUBSET S))[S]
BY DEF MapThenSumSet, MapThenFoldSet, SumsUp, Picked

LEMMA FoldUnfolds ==
  ASSUME NEW f
  PROVE  FoldSeq(+, 0, f) = (CHOOSE it : SumsUp(it, f, SUBSET (DOMAIN f)))[DOMAIN f]
BY DEF FoldSeq, FoldFunction, FoldFunctionOnSet, MapThenFoldSet, SumsUp, Picked

\* Taking the picked element away leaves a smaller set.
LEMMA PickedAway ==
  ASSUME NEW s, IsFiniteSet(s), s # {}
  PROVE  /\ Picked(s) \in s
         /\ IsFiniteSet(s \ {Picked(s)})
         /\ Cardinality(s) \in Nat \ {0}
         /\ Cardinality(s \ {Picked(s)}) = Cardinality(s) - 1
<1>1. Picked(s) \in s
  BY DEF Picked
<1>2. Cardinality(s) \in Nat /\ Cardinality(s) # 0
  BY FS_CardinalityType, FS_EmptySet
<1> QED
  BY <1>1, <1>2, FS_RemoveElement

\* Over the subsets of a finite set the recursion has a solution: it is
\* built for the sets of at most n elements, n by n.
LEMMA SumExists ==
  ASSUME NEW S, IsFiniteSet(S), NEW f
  PROVE  \E it : SumsUp(it, f, SUBSET S)
<1> DEFINE Small(n) == {s \in SUBSET S : Cardinality(s) <= n}
           Solved(n) == \E it : SumsUp(it, f, Small(n))
           Bad == {n \in Nat : ~Solved(n)}
<1>1. \A s \in SUBSET S : IsFiniteSet(s) /\ Cardinality(s) \in Nat
  BY FS_Subset, FS_CardinalityType
<1>2. Solved(0)
  <2>1. \A s \in Small(0) : s = {}
    BY <1>1, FS_EmptySet
  <2> DEFINE it == [s \in Small(0) |-> 0]
  <2>2. SumsUp(it, f, Small(0))
    BY <2>1 DEF SumsUp
  <2> QED
    BY <2>2
<1>3. ASSUME NEW n \in Nat, Solved(n) PROVE Solved(n + 1)
  <2>1. PICK it : SumsUp(it, f, Small(n))
    BY <1>3
  <2> DEFINE next == [s \in Small(n + 1) |->
                        IF s = {} THEN 0 ELSE f[Picked(s)] + it[s \ {Picked(s)}]]
  <2>2. ASSUME NEW s \in Small(n) PROVE next[s] = it[s]
    <3>1. s \in Small(n + 1)
      BY <1>1
    <3> QED
      BY <2>1, <3>1 DEF SumsUp
  <2>3. ASSUME NEW s \in Small(n + 1), s # {}
        PROVE  s \ {Picked(s)} \in Small(n)
    BY <1>1, <2>3, PickedAway
  <2>4. next = [s \in Small(n + 1) |->
                  IF s = {} THEN 0 ELSE f[Picked(s)] + next[s \ {Picked(s)}]]
    <3> HIDE DEF Small
    <3> QED
      BY <2>2, <2>3
  <2>5. SumsUp(next, f, Small(n + 1))
    <3> HIDE DEF next, Small
    <3> QED
      BY <2>4 DEF SumsUp
  <2> QED
    BY <2>5
<1> HIDE DEF Solved
<1>4. Bad = {}
  <2> SUFFICES ASSUME Bad # {} PROVE FALSE
    OBVIOUS
  <2>1. PICK n \in Bad : \A m \in Bad : n <= m
    BY LeastNatural
  <2>2. n \in Nat /\ ~Solved(n) /\ n # 0
    BY <1>2
  <2>3. n - 1 \in Nat /\ n - 1 \notin Bad /\ (n - 1) + 1 = n
    BY <2>1, <2>2
  <2>4. Solved(n - 1)
    BY <2>3
  <2>5. Solved((n - 1) + 1)
    BY <1>3, <2>3, <2>4
  <2> QED
    BY <2>2, <2>3, <2>5
<1>5. Cardinality(S) \in Nat /\ Solved(Cardinality(S))
  BY <1>4, FS_CardinalityType
<1>6. Small(Cardinality(S)) = SUBSET S
  BY FS_Subset
<1> QED
  BY <1>5, <1>6 DEF Solved

\* The values stay in a set that holds 0 and the summands and is closed
\* under addition.
LEMMA SumStays ==
  ASSUME NEW S, IsFiniteSet(S), NEW V \in SUBSET Int, 0 \in V,
         \A a, b \in V : a + b \in V,
         NEW f, \A x \in S : f[x] \in V,
         NEW it, SumsUp(it, f, SUBSET S)
  PROVE  \A s \in SUBSET S : it[s] \in V
<1> DEFINE Bad == {n \in Nat : \E s \in SUBSET S : Cardinality(s) = n /\ it[s] \notin V}
<1>1. \A s \in SUBSET S : IsFiniteSet(s) /\ Cardinality(s) \in Nat
  BY FS_Subset, FS_CardinalityType
<1>2. \A s \in SUBSET S :
        it[s] = IF s = {} THEN 0 ELSE f[Picked(s)] + it[s \ {Picked(s)}]
  BY DEF SumsUp
<1>3. Bad = {}
  <2> SUFFICES ASSUME Bad # {} PROVE FALSE
    OBVIOUS
  <2>1. PICK n \in Bad : \A m \in Bad : n <= m
    BY LeastNatural
  <2>2. PICK s \in SUBSET S : Cardinality(s) = n /\ it[s] \notin V
    OBVIOUS
  <2>3. s # {}
    BY <1>2, <2>2
  <2> DEFINE rest == s \ {Picked(s)}
  <2>4. /\ Picked(s) \in S /\ rest \in SUBSET S
        /\ Cardinality(rest) \in Nat /\ Cardinality(rest) < n
    BY <1>1, <2>2, <2>3, PickedAway
  <2>5. it[rest] \in V
    BY <2>1, <2>4
  <2>6. it[s] = f[Picked(s)] + it[rest]
    BY <1>2, <2>3
  <2> QED
    BY <2>2, <2>4, <2>5, <2>6
<1> QED
  BY <1>1, <1>3

\* The sum of a sequence of integers is an integer, and a natural number if
\* they are.
LEMMA SequenceSum ==
  ASSUME NEW V \in {Int, Nat}, NEW s \in Seq(V)
  PROVE  FoldSeq(+, 0, s) \in V
<1>1. IsFiniteSet(DOMAIN s)
  BY FS_Interval
<1> DEFINE it == CHOOSE it : SumsUp(it, s, SUBSET (DOMAIN s))
<1>2. SumsUp(it, s, SUBSET (DOMAIN s))
  BY <1>1, SumExists
<1> HIDE DEF it
<1>3. V \in SUBSET Int /\ 0 \in V /\ (\A a, b \in V : a + b \in V)
  OBVIOUS
<1>4. \A x \in DOMAIN s : s[x] \in V
  OBVIOUS
<1>5. it[DOMAIN s] \in V
  BY <1>1, <1>2, <1>3, <1>4, SumStays
<1> QED
  BY <1>5, FoldUnfolds DEF it

-----------------------------------------------------------------------------
(* Maxima and fractions.                                                    *)

LEMMA MaxOfTwo ==
  ASSUME NEW a \in Int, NEW b \in Int
  PROVE  Max({a, b}) = IF a >= b THEN a ELSE b
BY DEF Max

\* A set of integers with an element and an upper bound has a maximum.
LEMMA MaxOfBounded ==
  ASSUME NEW S, S \subseteq Int, S # {}, NEW b \in Int, \A x \in S : x <= b
  PROVE  Max(S) \in S /\ \A x \in S : Max(S) >= x
<1> DEFINE Gaps == {b - x : x \in S}
<1>1. Gaps \subseteq Nat /\ Gaps # {}
  <2>1. \A x \in S : b - x \in Nat
    OBVIOUS
  <2>2. PICK x \in S : TRUE
    OBVIOUS
  <2>3. b - x \in Gaps
    OBVIOUS
  <2> QED
    BY <2>1, <2>3
<1>2. PICK g \in Gaps : \A h \in Gaps : g <= h
  BY <1>1, LeastNatural
<1>3. PICK x \in S : g = b - x
  OBVIOUS
<1>4. \A y \in S : x >= y
  BY <1>2, <1>3
<1> QED
  BY <1>4 DEF Max

\* Dividing by a common divisor is exact.
LEMMA Divides ==
  ASSUME NEW a \in Int, NEW c \in Nat \ {0}, a % c = 0
  PROVE  a \div c \in Int /\ a = c * (a \div c)
OBVIOUS

\* Rat reduces a fraction with a positive denominator by a common divisor.
LEMMA RatReduces ==
  ASSUME NEW n \in Int, NEW d \in Nat \ {0}
  PROVE  /\ Rat(n, d) \in Fraction
         /\ \E g \in Nat \ {0} : n = g * Rat(n, d).n /\ d = g * Rat(n, d).d
<1> DEFINE S == {c \in 1..d : n % c = 0 /\ d % c = 0}
           g == Max(S)
<1>1. 1 \in S
  BY n % 1 = 0, d % 1 = 0
<1>2. g \in S
  BY <1>1, MaxOfBounded
<1>3. Rat(n, d) = [n |-> n \div g, d |-> d \div g]
  BY DEF Rat
<1> HIDE DEF g
<1>4. g \in Nat \ {0} /\ n % g = 0 /\ d % g = 0
  BY <1>2
<1>5. n \div g \in Int /\ n = g * (n \div g) /\ d \div g \in Int /\ d = g * (d \div g)
  BY <1>4, Divides
<1>6. d \div g \in Nat \ {0}
  BY <1>4, <1>5
<1>7. Rat(n, d).n = n \div g /\ Rat(n, d).d = d \div g
  BY <1>3
<1>8. Rat(n, d) \in Fraction
  BY <1>3, <1>5, <1>6 DEF Fraction
<1> HIDE DEF S
<1> QED
  BY <1>4, <1>5, <1>7, <1>8

\* A common divisor preserves sign and order.
LEMMA CommonDivisor ==
  ASSUME NEW a \in Int, NEW b \in Int, NEW g \in Nat \ {0}
  PROVE  /\ g * a <= g * b <=> a <= b
         /\ g * a < g * b <=> a < b
         /\ 0 <= g * a <=> 0 <= a
         /\ g * a = 0 <=> a = 0
OBVIOUS

\* A proper fraction stays one.
LEMMA RatProper ==
  ASSUME NEW n \in Int, NEW d \in Nat \ {0}
  PROVE  /\ 0 <= Rat(n, d).n <=> 0 <= n
         /\ Rat(n, d).n <= Rat(n, d).d <=> n <= d
         /\ Rat(n, d).n = 0 <=> n = 0
         /\ Rat(n, d).n \in Int /\ Rat(n, d).d \in Nat \ {0}
<1> DEFINE r == Rat(n, d)
<1>1. PICK g \in Nat \ {0} : n = g * r.n /\ d = g * r.d
  BY RatReduces
<1>2. r.n \in Int /\ r.d \in Nat \ {0}
  BY RatReduces DEF Fraction
<1> HIDE DEF r
<1>3. /\ g * r.n <= g * r.d <=> r.n <= r.d
      /\ 0 <= g * r.n <=> 0 <= r.n
      /\ g * r.n = 0 <=> r.n = 0
  BY <1>2, CommonDivisor
<1> QED
  BY <1>1, <1>2, <1>3 DEF r

-----------------------------------------------------------------------------
(* Strengths and sizes.                                                     *)

\* A strength between 0 and 1.
ProperStrength(x) == x \in Fraction /\ 0 <= x.n /\ x.n <= x.d

\* Rat of a proper fraction is one.
LEMMA RatIsProper ==
  ASSUME NEW n \in Nat, NEW d \in Nat \ {0}, n <= d
  PROVE  ProperStrength(Rat(n, d))
BY RatReduces, RatProper DEF ProperStrength

LEMMA PositiveProduct ==
  ASSUME NEW a \in Nat \ {0}, NEW b \in Nat \ {0}
  PROVE  a * b \in Nat \ {0}
OBVIOUS

\* floor(n / d) of a positive d is at most n / d.
LEMMA FloorBelow ==
  ASSUME NEW n \in Int, NEW d \in Nat \ {0}
  PROVE  n \div d \in Int /\ d * (n \div d) <= n
OBVIOUS

\* The size is 5% of the equity times the strength: with a strength of at most
\* 1 the order costs at most a twentieth of the equity (Portfolio.cpp:45-52).
LEMMA SizeWithinCap ==
  ASSUME NEW equity \in Nat, NEW x, ProperStrength(x), NEW close \in Nat \ {0}
  PROVE  LET qty == (equity * x.n) \div (20 * x.d * close)
         IN  qty \in Int /\ 20 * qty * close <= equity
<1> DEFINE qty == (equity * x.n) \div (20 * x.d * close)
<1>1. PICK n \in Nat, d \in Nat \ {0} : n = x.n /\ d = x.d /\ n <= d
  BY DEF ProperStrength, Fraction
<1>2. PICK cost \in Nat \ {0} : cost = 20 * close
  OBVIOUS
<1>3. d * cost \in Nat \ {0} /\ 20 * d * close = d * cost
  BY <1>2, PositiveProduct
<1>4. qty = (equity * n) \div (d * cost)
  BY <1>1, <1>3
<1>5. equity * n \in Int
  OBVIOUS
<1>6. qty \in Int /\ (d * cost) * qty <= equity * n
  BY <1>3, <1>4, <1>5, FloorBelow
<1> HIDE DEF qty
<1>7. equity * n <= equity * d
  BY <1>1
<1>8. d * (cost * qty) <= d * equity
  <2>1. (d * cost) * qty = d * (cost * qty) /\ equity * d = d * equity
    BY <1>6
  <2>2. PICK a, b, c \in Int : a = d * (cost * qty) /\ b = equity * n /\ c = d * equity
    BY <1>6
  <2> QED
    BY <1>6, <1>7, <2>1, <2>2
<1>9. cost * qty <= equity
  <2>1. cost * qty \in Int /\ equity \in Int
    BY <1>6
  <2> QED
    BY <1>8, <2>1, CommonDivisor
<1>10. 20 * qty * close = cost * qty
  BY <1>2, <1>6
<1> QED
  BY <1>6, <1>9, <1>10 DEF qty

-----------------------------------------------------------------------------
(* Comparing fractions.                                                     *)

\* Quotients compare as their arguments do, cross-multiplied.
LEMMA RatLess ==
  ASSUME NEW a \in Int, NEW b \in Nat \ {0}, NEW c \in Int, NEW d \in Nat \ {0}
  PROVE  Less(Rat(a, b), Rat(c, d)) <=> a * d < c * b
<1>1. PICK r \in Fraction, s \in Fraction : r = Rat(a, b) /\ s = Rat(c, d)
  BY RatReduces
<1>2. PICK g \in Nat \ {0} : a = g * r.n /\ b = g * r.d
  BY <1>1, RatReduces
<1>3. PICK h \in Nat \ {0} : c = h * s.n /\ d = h * s.d
  BY <1>1, RatReduces
<1>4. PICK rn \in Int, rd \in Int, sn \in Int, sd \in Int :
         rn = r.n /\ rd = r.d /\ sn = s.n /\ sd = s.d
  BY DEF Fraction
<1>5. PICK m \in Nat \ {0} : m = g * h
  BY PositiveProduct
<1>6. a * d = m * (rn * sd) /\ c * b = m * (sn * rd)
  <2>1. (g * rn) * (h * sd) = (g * h) * (rn * sd)
    OBVIOUS
  <2>2. (h * sn) * (g * rd) = (g * h) * (sn * rd)
    OBVIOUS
  <2> QED
    BY <1>2, <1>3, <1>4, <1>5, <2>1, <2>2
<1>7. m * (rn * sd) < m * (sn * rd) <=> rn * sd < sn * rd
  <2>1. rn * sd \in Int /\ sn * rd \in Int
    OBVIOUS
  <2> QED
    BY <2>1, CommonDivisor
<1>8. Less(r, s) <=> rn * sd < sn * rd
  BY <1>4 DEF Less
<1> QED
  BY <1>1, <1>6, <1>7, <1>8

\* Not being less is transitive.
LEMMA NotLessTransitive ==
  ASSUME NEW x \in Fraction, NEW y \in Fraction, NEW z \in Fraction,
         ~Less(x, y), ~Less(y, z)
  PROVE  ~Less(x, z)
<1>1. PICK xn \in Int, yn \in Int, zn \in Int,
           xd \in Nat \ {0}, yd \in Nat \ {0}, zd \in Nat \ {0} :
         xn = x.n /\ yn = y.n /\ zn = z.n /\ xd = x.d /\ yd = y.d /\ zd = z.d
  BY DEF Fraction
<1>2. yn * xd <= xn * yd /\ zn * yd <= yn * zd
  BY <1>1 DEF Less
<1>3. yd * (zn * xd) <= yd * (xn * zd)
  <2>1. PICK a, b, c, d \in Int : a = yn * xd /\ b = xn * yd /\ c = zn * yd /\ d = yn * zd
    OBVIOUS
  <2>2. zd * a <= zd * b /\ xd * c <= xd * d
    BY <1>2, <2>1, CommonDivisor
  <2>3. /\ zd * a = zd * (yn * xd) /\ zd * b = yd * (xn * zd)
        /\ xd * c = yd * (zn * xd) /\ xd * d = zd * (yn * xd)
    BY <2>1
  <2>4. PICK k, l, m \in Int :
           k = zd * (yn * xd) /\ l = yd * (xn * zd) /\ m = yd * (zn * xd)
    OBVIOUS
  <2> QED
    BY <2>2, <2>3, <2>4
<1>4. zn * xd <= xn * zd
  <2>1. zn * xd \in Int /\ xn * zd \in Int
    OBVIOUS
  <2> QED
    BY <1>3, <2>1, CommonDivisor
<1> QED
  BY <1>1, <1>4 DEF Less

\* Nothing of something is nothing.
LEMMA RatZero ==
  ASSUME NEW e \in Nat \ {0}
  PROVE  Rat(0, e) = Zero
<1>1. PICK z \in Int : z = 0
  OBVIOUS
<1> DEFINE S == {c \in 1..e : z % c = 0 /\ e % c = 0}
<1>2. e \in S
  <2>1. 0 % e = 0 /\ e % e = 0
    OBVIOUS
  <2> QED
    BY <1>1, <2>1
<1>3. S \subseteq 1..e
  OBVIOUS
<1>4. Rat(z, e) = [n |-> z \div Max(S), d |-> e \div Max(S)]
  BY DEF Rat
<1> HIDE DEF S
<1>5. Max(S) = e
  <2>1. S \subseteq Int /\ S # {} /\ e \in Int /\ \A x \in S : x <= e
    BY <1>2, <1>3
  <2>2. PICK m \in S : m = Max(S) /\ \A x \in S : m >= x
    BY <2>1, MaxOfBounded
  <2>3. m \in Int /\ m <= e /\ m >= e
    BY <1>2, <2>1, <2>2
  <2> QED
    BY <2>2, <2>3
<1>6. 0 \div e = 0 /\ e \div e = 1
  OBVIOUS
<1> QED
  BY <1>1, <1>4, <1>5, <1>6 DEF Zero

-----------------------------------------------------------------------------
(* Lowest terms are unique.                                                 *)

\* What Rat divides by is the greatest of the common divisors.
LEMMA RatGreatest ==
  ASSUME NEW n \in Int, NEW d \in Nat \ {0}
  PROVE  \E g \in Nat \ {0} :
           /\ n = g * Rat(n, d).n /\ d = g * Rat(n, d).d
           /\ \A c \in 1..d : n % c = 0 /\ d % c = 0 => c <= g
<1> DEFINE S == {c \in 1..d : n % c = 0 /\ d % c = 0}
           g == Max(S)
<1>1. 1 \in S
  BY n % 1 = 0, d % 1 = 0
<1>2. g \in S /\ \A c \in S : g >= c
  BY <1>1, MaxOfBounded
<1>3. Rat(n, d) = [n |-> n \div g, d |-> d \div g]
  BY DEF Rat
<1> HIDE DEF g
<1>4. g \in Nat \ {0} /\ n % g = 0 /\ d % g = 0 /\ \A c \in S : c <= g
  BY <1>2
<1>5. n = g * (n \div g) /\ d = g * (d \div g)
  BY <1>4, Divides
<1>6. Rat(n, d).n = n \div g /\ Rat(n, d).d = d \div g
  BY <1>3
<1> QED
  BY <1>4, <1>5, <1>6

\* A factor of a number divides it.
LEMMA FactorDivides ==
  ASSUME NEW c \in Nat \ {0}, NEW k \in Int
  PROVE  (c * k) % c = 0
<1>1. PICK x \in Int : x = c * k
  OBVIOUS
<1>2. PICK q \in Int, r \in Int : q = x \div c /\ r = x % c /\ x = c * q + r /\ 0 <= r /\ r < c
  BY SMT
<1>3. r = c * (k - q)
  BY <1>1, <1>2
<1>4. PICK e \in Int : e = k - q
  OBVIOUS
<1>5. ~(e >= 1)
  <2> SUFFICES ASSUME e >= 1 PROVE FALSE
    OBVIOUS
  <2>1. c * 1 <= c * e
    BY CommonDivisor
  <2> QED
    BY <1>2, <1>3, <1>4, <2>1
<1>6. ~(e <= -1)
  <2> SUFFICES ASSUME e <= -1 PROVE FALSE
    OBVIOUS
  <2>1. c * e <= c * (-1)
    BY CommonDivisor
  <2> QED
    BY <1>2, <1>3, <1>4, <2>1
<1>7. e = 0
  BY <1>5, <1>6
<1> QED
  BY <1>1, <1>2, <1>3, <1>4, <1>7

\* Among the fractions equal to a / b there is one of which the numerator and
\* the denominator of every other one are a multiple.
LEMMA LeastTerms ==
  ASSUME NEW a \in Int, NEW b \in Nat \ {0}
  PROVE  \E n \in Int, m \in Nat \ {0} :
           \A x \in Int, y \in Nat \ {0} :
             x * b = a * y => \E q \in Nat \ {0} : x = q * n /\ y = q * m
<1> DEFINE T == {e \in Nat \ {0} : \E n \in Int : a * e = n * b}
<1>1. b \in T /\ T \subseteq Nat
  OBVIOUS
<1>2. PICK m \in T : \A e \in T : m <= e
  BY <1>1, LeastNatural
<1>3. PICK n \in Int : a * m = n * b
  OBVIOUS
<1>4. m \in Nat \ {0}
  OBVIOUS
<1> HIDE DEF T
<1>5. ASSUME NEW x \in Int, NEW y \in Nat \ {0}, x * b = a * y
      PROVE  \E q \in Nat \ {0} : x = q * n /\ y = q * m
  <2>1. PICK q \in Nat, r \in Nat : y = m * q + r /\ r < m
    <3>1. y \div m \in Nat /\ y % m \in Nat /\ y = m * (y \div m) + (y % m) /\ y % m < m
      BY <1>4
    <3> QED
      BY <3>1
  <2>2. a * r = (x - q * n) * b
    <3>1. a * y = a * (m * q) + a * r
      BY <1>4, <2>1
    <3>2. a * (m * q) = q * (a * m) /\ q * (n * b) = (q * n) * b
      BY <1>4
    <3>3. a * (m * q) = (q * n) * b
      BY <1>3, <3>2
    <3>4. (x - q * n) * b = x * b - (q * n) * b
      OBVIOUS
    <3>5. PICK u \in Int, v \in Int, w \in Int : u = a * r /\ v = (q * n) * b /\ w = x * b
      OBVIOUS
    <3> QED
      BY <1>5, <3>1, <3>3, <3>4, <3>5
  <2>3. r = 0
    <3> SUFFICES ASSUME r # 0 PROVE FALSE
      OBVIOUS
    <3>1. x - q * n \in Int
      OBVIOUS
    <3>2. r \in T
      BY <2>2, <3>1 DEF T
    <3>3. m <= r
      BY <1>2, <3>2
    <3> QED
      BY <1>4, <2>1, <3>3
  <2>4. y = q * m /\ q # 0
    BY <1>4, <2>1, <2>3
  <2>5. x = q * n
    <3>1. PICK k \in Int : k = x - q * n
      OBVIOUS
    <3>2. k * b = 0
      BY <2>2, <2>3, <3>1
    <3>3. b * k = 0
      BY <3>2
    <3>4. k = 0
      BY <3>3, CommonDivisor
    <3> QED
      BY <3>1, <3>4
  <2> QED
    BY <2>4, <2>5
<1> QED
  BY <1>4, <1>5

\* Equal quotients have the same lowest terms.
LEMMA LowestTerms ==
  ASSUME NEW a \in Int, NEW b \in Nat \ {0}, NEW c \in Int, NEW d \in Nat \ {0},
         a * d = c * b
  PROVE  Rat(a, b) = Rat(c, d)
<1>1. PICK n \in Int, m \in Nat \ {0} :
         \A x \in Int, y \in Nat \ {0} :
           x * b = a * y => \E q \in Nat \ {0} : x = q * n /\ y = q * m
  BY LeastTerms
<1>2. ASSUME NEW x \in Int, NEW y \in Nat \ {0}, x * b = a * y
      PROVE  Rat(x, y) = [n |-> n, d |-> m]
  <2>1. PICK g \in Nat \ {0} :
           /\ x = g * Rat(x, y).n /\ y = g * Rat(x, y).d
           /\ \A e \in 1..y : x % e = 0 /\ y % e = 0 => e <= g
    BY RatGreatest
  <2>2. PICK r \in Fraction : r = Rat(x, y)
    BY RatReduces
  <2>3. PICK rn \in Int, rd \in Nat \ {0} : rn = r.n /\ rd = r.d /\ r = [n |-> rn, d |-> rd]
    BY DEF Fraction
  <2>4. x = g * rn /\ y = g * rd
    BY <2>1, <2>2, <2>3
  <2>5. rn * b = a * rd
    <3>1. PICK u \in Int : u = rn * b - a * rd
      OBVIOUS
    <3>2. g * u = x * b - a * y
      <4>1. g * (rn * b - a * rd) = (g * rn) * b - a * (g * rd)
        OBVIOUS
      <4> QED
        BY <2>4, <3>1, <4>1
    <3>3. g * u = 0
      <4>1. x * b \in Int /\ a * y \in Int
        OBVIOUS
      <4> QED
        BY <1>2, <3>2, <4>1
    <3>4. u = 0
      BY <3>3, CommonDivisor
    <3>5. rn * b \in Int /\ a * rd \in Int
      OBVIOUS
    <3> QED
      BY <3>1, <3>4, <3>5
  <2>6. PICK q \in Nat \ {0} : rn = q * n /\ rd = q * m
    BY <1>1, <2>5
  <2>7. PICK e \in Nat \ {0} : e = g * q
    BY PositiveProduct
  <2>8. x = e * n /\ y = e * m
    <3>1. (g * q) * n = g * (q * n) /\ (g * q) * m = g * (q * m)
      OBVIOUS
    <3> QED
      BY <2>4, <2>6, <2>7, <3>1
  <2>9. e \in 1..y
    <3>1. e * 1 <= e * m
      BY CommonDivisor
    <3> QED
      BY <2>8, <3>1
  <2>10. x % e = 0 /\ y % e = 0
    BY <2>8, FactorDivides
  <2>11. g * q <= g * 1
    <3>1. e <= g
      BY <2>1, <2>9, <2>10
    <3> QED
      BY <2>7, <3>1
  <2>12. q <= 1
    BY <2>11, CommonDivisor
  <2>13. q = 1
    BY <2>12
  <2> QED
    BY <2>2, <2>3, <2>6, <2>13
<1>3. Rat(a, b) = [n |-> n, d |-> m]
  BY <1>2
<1>4. c * b = a * d
  OBVIOUS
<1>5. Rat(c, d) = [n |-> n, d |-> m]
  BY <1>2, <1>4
<1> QED
  BY <1>3, <1>5

-----------------------------------------------------------------------------
(* Fractions over a common denominator.                                     *)

\* x is worth v parts, of which D make a whole.
Worth(x, D, v) == x.n * D = v * x.d

LEMMA SameParts ==
  ASSUME NEW a \in Int, NEW b \in Int, NEW g \in Nat \ {0}
  PROVE  g * a = g * b <=> a = b
OBVIOUS

LEMMA WorthOnce ==
  ASSUME NEW x \in Fraction, NEW D \in Nat \ {0}, NEW v \in Int, NEW w \in Int,
         Worth(x, D, v), Worth(x, D, w)
  PROVE  v = w
<1>1. PICK n \in Int, d \in Nat \ {0} : n = x.n /\ d = x.d
  BY DEF Fraction
<1>2. d * v = d * w
  BY <1>1 DEF Worth
<1> QED
  BY <1>2, SameParts

LEMMA WorthRat ==
  ASSUME NEW a \in Int, NEW b \in Nat \ {0}, NEW D \in Nat \ {0}, NEW v \in Int
  PROVE  Worth(Rat(a, b), D, v) <=> a * D = v * b
<1>1. PICK r \in Fraction, g \in Nat \ {0} : r = Rat(a, b) /\ a = g * r.n /\ b = g * r.d
  BY RatReduces
<1>2. PICK rn \in Int, rd \in Nat \ {0} : rn = r.n /\ rd = r.d
  BY DEF Fraction
<1>3. a * D = g * (rn * D) /\ v * b = g * (v * rd)
  <2>1. (g * rn) * D = g * (rn * D) /\ v * (g * rd) = g * (v * rd)
    OBVIOUS
  <2> QED
    BY <1>1, <1>2, <2>1
<1>4. rn * D \in Int /\ v * rd \in Int
  OBVIOUS
<1>5. g * (rn * D) = g * (v * rd) <=> rn * D = v * rd
  BY <1>4, SameParts
<1> QED
  BY <1>1, <1>2, <1>3, <1>5 DEF Worth

LEMMA WorthWhole ==
  ASSUME NEW k \in Int, NEW D \in Nat \ {0}
  PROVE  [n |-> k, d |-> 1] \in Fraction /\ Worth([n |-> k, d |-> 1], D, k * D)
BY DEF Worth, Fraction

LEMMA WorthZero ==
  ASSUME NEW D \in Nat \ {0}
  PROVE  Zero \in Fraction /\ Worth(Zero, D, 0)
BY DEF Worth, Fraction, Zero

LEMMA WorthPlus ==
  ASSUME NEW x \in Fraction, NEW y \in Fraction, NEW D \in Nat \ {0},
         NEW v \in Int, NEW w \in Int, Worth(x, D, v), Worth(y, D, w)
  PROVE  Plus(x, y) \in Fraction /\ Worth(Plus(x, y), D, v + w)
<1>1. PICK xn \in Int, xd \in Nat \ {0}, yn \in Int, yd \in Nat \ {0} :
         xn = x.n /\ xd = x.d /\ yn = y.n /\ yd = y.d
  BY DEF Fraction
<1>2. xn * D = v * xd /\ yn * D = w * yd
  BY <1>1 DEF Worth
<1>3. PICK a \in Int, b \in Nat \ {0} : a = xn * yd + yn * xd /\ b = xd * yd
  BY PositiveProduct
<1>4. a * D = (v + w) * b
  <2>1. (xn * yd + yn * xd) * D = yd * (xn * D) + xd * (yn * D)
    OBVIOUS
  <2>2. yd * (v * xd) + xd * (w * yd) = (v + w) * (xd * yd)
    OBVIOUS
  <2> QED
    BY <1>2, <1>3, <2>1, <2>2
<1>5. Plus(x, y) = Rat(a, b)
  BY <1>1, <1>3 DEF Plus
<1>6. v + w \in Int
  OBVIOUS
<1>7. Worth(Rat(a, b), D, v + w)
  BY <1>4, <1>6, WorthRat
<1> QED
  BY <1>5, <1>7, RatReduces

\* Reduced fractions of the same worth are the same.
LEMMA SameWorth ==
  ASSUME NEW a \in Int, NEW b \in Nat \ {0}, NEW c \in Int, NEW d \in Nat \ {0},
         NEW D \in Nat \ {0}, NEW v \in Int,
         Worth(Rat(a, b), D, v), Worth(Rat(c, d), D, v)
  PROVE  Rat(a, b) = Rat(c, d)
<1>1. a * D = v * b /\ c * D = v * d
  BY WorthRat
<1>2. D * (a * d) = D * (c * b)
  <2>1. D * (a * d) = d * (a * D) /\ D * (c * b) = b * (c * D) /\ d * (v * b) = b * (v * d)
    OBVIOUS
  <2> QED
    BY <1>1, <2>1
<1>3. a * d = c * b
  <2>1. a * d \in Int /\ c * b \in Int
    OBVIOUS
  <2> QED
    BY <1>2, <2>1, SameParts
<1> QED
  BY <1>3, LowestTerms

\* Finitely many fractions have a common denominator.
LEMMA CommonDenominator ==
  ASSUME NEW F, IsFiniteSet(F), F \subseteq Fraction
  PROVE  \E D \in Nat \ {0} : \A x \in F : \E v \in Int : Worth(x, D, v)
<1> DEFINE Common(s) == \E D \in Nat \ {0} : \A x \in s : \E v \in Int : Worth(x, D, v)
           Bad == {n \in Nat : \E s \in SUBSET F : Cardinality(s) = n /\ ~Common(s)}
<1>1. \A s \in SUBSET F : IsFiniteSet(s) /\ Cardinality(s) \in Nat
  BY FS_Subset, FS_CardinalityType
<1>2. Common({})
  BY 1 \in Nat \ {0}
<1>3. ASSUME NEW s \in SUBSET F, s # {}, Common(s \ {Picked(s)}) PROVE Common(s)
  <2>1. PICK D \in Nat \ {0} : \A x \in s \ {Picked(s)} : \E v \in Int : Worth(x, D, v)
    BY <1>3
  <2>2. Picked(s) \in s
    BY <1>3 DEF Picked
  <2>3. PICK n \in Int, d \in Nat \ {0} : n = Picked(s).n /\ d = Picked(s).d
    BY <2>2 DEF Fraction
  <2>4. PICK E \in Nat \ {0} : E = D * d
    BY PositiveProduct
  <2>5. ASSUME NEW x \in s PROVE \E v \in Int : Worth(x, E, v)
    <3>1. CASE x = Picked(s)
      <4>1. n * (D * d) = (n * D) * d /\ n * D \in Int
        OBVIOUS
      <4> QED
        BY <2>3, <2>4, <3>1, <4>1 DEF Worth
    <3>2. CASE x # Picked(s)
      <4>1. PICK v \in Int : Worth(x, D, v)
        BY <2>1, <3>2
      <4>2. PICK xn \in Int, xd \in Nat \ {0} : xn = x.n /\ xd = x.d
        BY DEF Fraction
      <4>3. xn * (D * d) = (xn * D) * d /\ (v * xd) * d = (v * d) * xd /\ v * d \in Int
        OBVIOUS
      <4> QED
        BY <2>4, <4>1, <4>2, <4>3 DEF Worth
    <3> QED
      BY <3>1, <3>2
  <2> QED
    BY <2>5
<1> HIDE DEF Common
<1>4. Bad = {}
  <2> SUFFICES ASSUME Bad # {} PROVE FALSE
    OBVIOUS
  <2>1. PICK n \in Bad : \A m \in Bad : n <= m
    BY LeastNatural
  <2>2. PICK s \in SUBSET F : Cardinality(s) = n /\ ~Common(s)
    OBVIOUS
  <2>3. s # {}
    BY <1>2, <2>2
  <2> DEFINE rest == s \ {Picked(s)}
  <2>4. rest \in SUBSET F /\ Cardinality(rest) \in Nat /\ Cardinality(rest) < n
    BY <1>1, <2>2, <2>3, PickedAway
  <2>5. Common(rest)
    BY <2>1, <2>4
  <2> QED
    BY <1>3, <2>2, <2>3, <2>5
<1>5. Common(F)
  <2>1. F \in SUBSET F /\ Cardinality(F) \in Nat
    BY <1>1
  <2> QED
    BY <1>4, <2>1
<1> QED
  BY <1>5 DEF Common

-----------------------------------------------------------------------------
(* Sums in any order.                                                       *)

\* The sum of the f[x] over the elements x of S, as the folds compute it.
Total(f, S) == (CHOOSE it : SumsUp(it, f, SUBSET S))[S]

\* Solutions over a set and a part of it agree where the summands do.
LEMMA SumsAgree ==
  ASSUME NEW S, NEW R \in SUBSET S, IsFiniteSet(R), NEW f, NEW g, NEW it, NEW jt,
         SumsUp(it, f, SUBSET S), SumsUp(jt, g, SUBSET R), \A x \in R : f[x] = g[x]
  PROVE  it[R] = jt[R]
<1> DEFINE Bad == {n \in Nat : \E s \in SUBSET R : Cardinality(s) = n /\ it[s] # jt[s]}
<1>1. \A s \in SUBSET R : IsFiniteSet(s) /\ Cardinality(s) \in Nat
  BY FS_Subset, FS_CardinalityType
<1>2. \A s \in SUBSET R :
        /\ it[s] = IF s = {} THEN 0 ELSE f[Picked(s)] + it[s \ {Picked(s)}]
        /\ jt[s] = IF s = {} THEN 0 ELSE g[Picked(s)] + jt[s \ {Picked(s)}]
  BY DEF SumsUp
<1>3. Bad = {}
  <2> SUFFICES ASSUME Bad # {} PROVE FALSE
    OBVIOUS
  <2>1. PICK n \in Bad : \A m \in Bad : n <= m
    BY LeastNatural
  <2>2. PICK s \in SUBSET R : Cardinality(s) = n /\ it[s] # jt[s]
    OBVIOUS
  <2>3. s # {}
    BY <1>2, <2>2
  <2> DEFINE rest == s \ {Picked(s)}
  <2>4. /\ Picked(s) \in R /\ rest \in SUBSET R
        /\ Cardinality(rest) \in Nat /\ Cardinality(rest) < n
    BY <1>1, <2>2, <2>3, PickedAway
  <2>5. it[rest] = jt[rest]
    BY <2>1, <2>4
  <2> QED
    BY <1>2, <2>2, <2>3, <2>4, <2>5
<1>4. R \in SUBSET R /\ Cardinality(R) \in Nat
  BY <1>1
<1> QED
  BY <1>3, <1>4

LEMMA SumsNest ==
  ASSUME NEW S, NEW R \in SUBSET S, IsFiniteSet(R), NEW f, NEW it, NEW jt,
         SumsUp(it, f, SUBSET S), SumsUp(jt, f, SUBSET R)
  PROVE  it[R] = jt[R]
BY SumsAgree

LEMMA TotalSolves ==
  ASSUME NEW S, IsFiniteSet(S), NEW f
  PROVE  \E it : SumsUp(it, f, SUBSET S) /\ Total(f, S) = it[S]
<1> DEFINE it == CHOOSE it : SumsUp(it, f, SUBSET S)
<1>1. SumsUp(it, f, SUBSET S)
  BY SumExists
<1>2. Total(f, S) = it[S]
  BY DEF Total
<1> HIDE DEF it
<1> QED
  BY <1>1, <1>2

LEMMA TotalSame ==
  ASSUME NEW S, IsFiniteSet(S), NEW f, NEW g, \A x \in S : f[x] = g[x]
  PROVE  Total(f, S) = Total(g, S)
<1>1. PICK it : SumsUp(it, f, SUBSET S) /\ Total(f, S) = it[S]
  BY TotalSolves
<1>2. PICK jt : SumsUp(jt, g, SUBSET S) /\ Total(g, S) = jt[S]
  BY TotalSolves
<1>3. it[S] = jt[S]
  BY <1>1, <1>2, SumsAgree
<1> QED
  BY <1>1, <1>2, <1>3

LEMMA TotalPicks ==
  ASSUME NEW S, IsFiniteSet(S), NEW f
  PROVE  /\ S = {} => Total(f, S) = 0
         /\ S # {} => Total(f, S) = f[Picked(S)] + Total(f, S \ {Picked(S)})
<1>1. PICK it : SumsUp(it, f, SUBSET S) /\ Total(f, S) = it[S]
  BY TotalSolves
<1>2. it[S] = IF S = {} THEN 0 ELSE f[Picked(S)] + it[S \ {Picked(S)}]
  BY <1>1 DEF SumsUp
<1>3. PICK R \in SUBSET S : R = S \ {Picked(S)}
  OBVIOUS
<1>4. IsFiniteSet(R)
  BY FS_Subset
<1>5. PICK jt : SumsUp(jt, f, SUBSET R) /\ Total(f, R) = jt[R]
  BY <1>4, TotalSolves
<1>6. it[R] = jt[R]
  BY <1>1, <1>4, <1>5, SumsNest
<1> QED
  BY <1>1, <1>2, <1>3, <1>5, <1>6

\* A sum of integers is an integer, and a natural number if they are.
LEMMA TotalIn ==
  ASSUME NEW V \in {Int, Nat}, NEW S, IsFiniteSet(S), NEW f, \A x \in S : f[x] \in V
  PROVE  Total(f, S) \in V
<1>1. PICK it : SumsUp(it, f, SUBSET S) /\ Total(f, S) = it[S]
  BY TotalSolves
<1>2. V \in SUBSET Int /\ 0 \in V /\ (\A a, b \in V : a + b \in V)
  OBVIOUS
<1>3. \A s \in SUBSET S : it[s] \in V
  BY <1>1, <1>2, SumStays
<1> QED
  BY <1>1, <1>3

LEMMA TotalInt ==
  ASSUME NEW S, IsFiniteSet(S), NEW f, \A x \in S : f[x] \in Int
  PROVE  Total(f, S) \in Int
BY TotalIn

\* Any element may be taken first.
LEMMA TotalTakes ==
  ASSUME NEW S, IsFiniteSet(S), NEW f, \A x \in S : f[x] \in Int, NEW x \in S
  PROVE  Total(f, S) = f[x] + Total(f, S \ {x})
<1> DEFINE Splits(s) == \A y \in s : Total(f, s) = f[y] + Total(f, s \ {y})
           Bad == {n \in Nat : \E s \in SUBSET S : Cardinality(s) = n /\ ~Splits(s)}
<1>1. \A s \in SUBSET S : IsFiniteSet(s) /\ Cardinality(s) \in Nat /\ Total(f, s) \in Int
  BY FS_Subset, FS_CardinalityType, TotalInt
<1>2. ASSUME NEW s \in SUBSET S, s # {}, Splits(s \ {Picked(s)}),
             \A y \in s : Splits(s \ {y})
      PROVE  Splits(s)
  <2> SUFFICES ASSUME NEW y \in s PROVE Total(f, s) = f[y] + Total(f, s \ {y})
    OBVIOUS
  <2> DEFINE z == Picked(s)
             both == (s \ {y}) \ {z}
  <2>1. z \in s
    BY <1>2 DEF Picked
  <2>2. Total(f, s) = f[z] + Total(f, s \ {z})
    BY <1>1, <1>2, TotalPicks
  <2>3. CASE y = z
    BY <2>2, <2>3
  <2>4. CASE y # z
    <3>1. Total(f, s \ {z}) = f[y] + Total(f, (s \ {z}) \ {y})
      BY <1>2, <2>4
    <3>2. Total(f, s \ {y}) = f[z] + Total(f, both)
      BY <1>2, <2>1, <2>4
    <3>3. (s \ {z}) \ {y} = both
      OBVIOUS
    <3>4. both \in SUBSET S
      OBVIOUS
    <3>5. PICK a \in Int, b \in Int, t \in Int : a = f[y] /\ b = f[z] /\ t = Total(f, both)
      BY <1>1, <2>1, <3>4
    <3>6. Total(f, s \ {z}) = a + t
      BY <3>1, <3>3, <3>5
    <3>7. Total(f, s \ {y}) = b + t
      BY <3>2, <3>5
    <3>8. Total(f, s) = b + (a + t)
      BY <2>2, <3>5, <3>6
    <3>9. b + (a + t) = a + (b + t)
      OBVIOUS
    <3> QED
      BY <3>5, <3>7, <3>8, <3>9
  <2> QED
    BY <2>3, <2>4
<1> HIDE DEF Splits
<1>3. Bad = {}
  <2> SUFFICES ASSUME Bad # {} PROVE FALSE
    OBVIOUS
  <2>1. PICK n \in Bad : \A m \in Bad : n <= m
    BY LeastNatural
  <2>2. PICK s \in SUBSET S : Cardinality(s) = n /\ ~Splits(s)
    OBVIOUS
  <2>3. s # {}
    BY <2>2 DEF Splits
  <2>4. ASSUME NEW y \in s PROVE Splits(s \ {y})
    <3>1. s \ {y} \in SUBSET S /\ Cardinality(s \ {y}) \in Nat
      BY <1>1
    <3>2. Cardinality(s \ {y}) = Cardinality(s) - 1
      BY <1>1, FS_RemoveElement
    <3>3. Cardinality(s \ {y}) < n
      BY <2>2, <3>1, <3>2
    <3> QED
      BY <2>1, <3>1, <3>3
  <2>5. Picked(s) \in s
    BY <2>3 DEF Picked
  <2> QED
    BY <1>2, <2>2, <2>3, <2>4, <2>5
<1>4. S \in SUBSET S /\ Cardinality(S) \in Nat
  BY <1>1
<1>5. Splits(S)
  BY <1>3, <1>4
<1> QED
  BY <1>5 DEF Splits

\* A property that the empty set has, and that a set has if it holds without
\* some element of it, holds of a finite set: stated for the sets it is of.
LEMMA FiniteInduction ==
  ASSUME NEW S, IsFiniteSet(S), NEW Good, {} \in Good,
         \A s \in SUBSET S : s # {} /\ s \ {Picked(s)} \in Good => s \in Good
  PROVE  S \in Good
<1> DEFINE Bad == {n \in Nat : \E s \in SUBSET S : Cardinality(s) = n /\ s \notin Good}
<1>1. \A s \in SUBSET S : IsFiniteSet(s) /\ Cardinality(s) \in Nat
  BY FS_Subset, FS_CardinalityType
<1>2. Bad = {}
  <2> SUFFICES ASSUME Bad # {} PROVE FALSE
    OBVIOUS
  <2>1. PICK n \in Bad : \A m \in Bad : n <= m
    BY LeastNatural
  <2>2. PICK s \in SUBSET S : Cardinality(s) = n /\ s \notin Good
    OBVIOUS
  <2>3. s # {}
    BY <2>2
  <2>4. /\ s \ {Picked(s)} \in SUBSET S /\ Cardinality(s \ {Picked(s)}) \in Nat
        /\ Cardinality(s \ {Picked(s)}) < n
    BY <1>1, <2>2, <2>3, PickedAway
  <2>5. s \ {Picked(s)} \in Good
    BY <2>1, <2>4
  <2> QED
    BY <2>2, <2>3, <2>5
<1>3. S \in SUBSET S /\ Cardinality(S) \in Nat
  BY <1>1
<1> QED
  BY <1>2, <1>3

\* f and g agree on S except at x, which goes from old to now.
Moves(f, g, S, x, old, now) ==
  /\ \A y \in S : f[y] \in Int /\ (y # x => g[y] = f[y])
  /\ old = IF x \in S THEN f[x] ELSE 0
  /\ now = g[x]

\* A sum grows by what one of its summands grows by, or by one new summand.
LEMMA TotalMoves ==
  ASSUME NEW S, IsFiniteSet(S), NEW x, NEW f, NEW g, NEW old \in Int, NEW now \in Int,
         Moves(f, g, S, x, old, now)
  PROVE  /\ Total(f, S) \in Int
         /\ Total(g, S \cup {x}) = Total(f, S) - old + now
<1> DEFINE T == S \cup {x}
           R == S \ {x}
<1>1. IsFiniteSet(T) /\ IsFiniteSet(R) /\ T \ {x} = R
  BY FS_AddElement, FS_Subset
<1>2. (\A y \in T : g[y] \in Int) /\ (\A y \in R : f[y] \in Int /\ f[y] = g[y]) /\ x \in T
  BY DEF Moves
<1> HIDE DEF T, R
<1>3. Total(f, R) \in Int /\ Total(f, S) \in Int
  BY <1>1, <1>2, TotalInt DEF Moves
<1>4. Total(g, T) = now + Total(g, R)
  BY <1>1, <1>2, TotalTakes DEF Moves
<1>5. Total(f, R) = Total(g, R)
  BY <1>1, <1>2, TotalSame
<1>6. Total(f, S) = old + Total(f, R)
  <2>1. CASE x \in S
    BY <2>1, TotalTakes DEF R, Moves
  <2>2. CASE x \notin S
    <3>1. R = S
      BY <2>2 DEF R
    <3> QED
      BY <1>3, <2>2, <3>1 DEF Moves
  <2> QED
    BY <2>1, <2>2
<1> QED
  BY <1>3, <1>4, <1>5, <1>6 DEF T

\* Nothings add up to nothing.
LEMMA TotalNothing ==
  ASSUME NEW S, IsFiniteSet(S), NEW f, \A x \in S : f[x] = 0
  PROVE  Total(f, S) = 0
<1> DEFINE Good == {s \in SUBSET S : Total(f, s) = 0}
<1>1. \A s \in SUBSET S : IsFiniteSet(s)
  BY FS_Subset
<1>2. {} \in Good
  BY <1>1, TotalPicks
<1>3. ASSUME NEW s \in SUBSET S, s # {}, s \ {Picked(s)} \in Good PROVE s \in Good
  <2>1. Picked(s) \in s
    BY <1>3 DEF Picked
  <2>2. Total(f, s) = f[Picked(s)] + Total(f, s \ {Picked(s)})
    BY <1>1, <1>3, TotalPicks
  <2> QED
    BY <1>3, <2>1, <2>2
<1>4. S \in Good
  <2> HIDE DEF Good
  <2> QED
    BY <1>2, <1>3, FiniteInduction
<1> QED
  BY <1>4

\* Of the elements of S only those of A and of B count, and none in both.
Counts(f, S, A, B) ==
  A \cap B = {} /\ \A x \in S : f[x] \in Int /\ (x \in A \/ x \in B \/ f[x] = 0)

\* A sum is that of two parts if nothing else counts.
LEMMA TotalSplits ==
  ASSUME NEW S, IsFiniteSet(S), NEW f, NEW A, NEW B, Counts(f, S, A, B)
  PROVE  Total(f, S) = Total(f, S \cap A) + Total(f, S \cap B)
<1> DEFINE Good == {s \in SUBSET S : Total(f, s) = Total(f, s \cap A) + Total(f, s \cap B)}
<1> USE DEF Counts
<1>1. \A s \in SUBSET S : IsFiniteSet(s) /\ Total(f, s) \in Int
  BY FS_Subset, TotalInt
<1>2. {} \in Good
  <2>1. Total(f, {}) = 0
    BY <1>1, TotalPicks
  <2> QED
    BY <2>1
<1>3. ASSUME NEW s \in SUBSET S, s # {}, s \ {Picked(s)} \in Good PROVE s \in Good
  <2>1. PICK z \in s : z = Picked(s)
    BY <1>3 DEF Picked
  <2>2. PICK r \in SUBSET S : r = s \ {z}
    OBVIOUS
  <2>3. Total(f, s) = f[z] + Total(f, r)
    BY <1>1, <2>2, TotalTakes
  <2>4. PICK ra \in SUBSET S, rb \in SUBSET S, sa \in SUBSET S, sb \in SUBSET S :
           ra = r \cap A /\ rb = r \cap B /\ sa = s \cap A /\ sb = s \cap B
    OBVIOUS
  <2>5. Total(f, r) = Total(f, ra) + Total(f, rb)
    BY <1>3, <2>1, <2>2, <2>4
  <2>6. PICK v \in Int, t \in Int, ta \in Int, tb \in Int :
           v = f[z] /\ t = Total(f, r) /\ ta = Total(f, ra) /\ tb = Total(f, rb)
    BY <1>1
  <2>7. z \in A => Total(f, sa) = v + ta
    <3> SUFFICES ASSUME z \in A PROVE Total(f, sa) = v + ta
      OBVIOUS
    <3>1. z \in sa /\ sa \ {z} = ra /\ \A x \in sa : f[x] \in Int
      BY <2>2, <2>4
    <3> QED
      BY <1>1, <2>6, <3>1, TotalTakes
  <2>8. z \in B => Total(f, sb) = v + tb
    <3> SUFFICES ASSUME z \in B PROVE Total(f, sb) = v + tb
      OBVIOUS
    <3>1. z \in sb /\ sb \ {z} = rb /\ \A x \in sb : f[x] \in Int
      BY <2>2, <2>4
    <3> QED
      BY <1>1, <2>6, <3>1, TotalTakes
  <2>9. (z \notin A => sa = ra) /\ (z \notin B => sb = rb)
    BY <2>2, <2>4
  <2>10. Total(f, s) = Total(f, sa) + Total(f, sb)
    BY <2>3, <2>5, <2>6, <2>7, <2>8, <2>9
  <2> QED
    BY <2>4, <2>10
<1>4. S \in Good
  <2> HIDE DEF Good
  <2> QED
    BY <1>2, <1>3, FiniteInduction
<1> QED
  BY <1>4

-----------------------------------------------------------------------------
(* Sums of fractions.                                                       *)

\* x whole ones of a fraction are worth x times as much.
LEMMA WorthTimes ==
  ASSUME NEW k \in Int, NEW x \in Fraction, NEW D \in Nat \ {0}, NEW v \in Int, Worth(x, D, v)
  PROVE  /\ Rat(k * x.n, 1 * x.d) \in Fraction
         /\ Worth(Rat(k * x.n, 1 * x.d), D, k * v)
<1>1. PICK n \in Int, d \in Nat \ {0} : n = x.n /\ d = x.d
  BY DEF Fraction
<1>2. PICK a \in Int : a = k * n
  OBVIOUS
<1>3. a * D = (k * v) * d
  <2>1. (k * n) * D = k * (n * D) /\ k * (v * d) = (k * v) * d
    OBVIOUS
  <2> QED
    BY <1>1, <1>2, <2>1 DEF Worth
<1>4. Rat(k * x.n, 1 * x.d) = Rat(a, d)
  BY <1>1, <1>2
<1>5. k * v \in Int
  OBVIOUS
<1> QED
  BY <1>3, <1>4, <1>5, WorthRat, RatReduces

\* it[s] is the sum of the fractions F[x] over the elements x of s.
PlusUp(it, F, D) ==
  it = [s \in D |-> IF s = {} THEN Zero ELSE Plus(F[Picked(s)], it[s \ {Picked(s)}])]

LEMMA PlusExists ==
  ASSUME NEW S, IsFiniteSet(S), NEW F
  PROVE  \E it : PlusUp(it, F, SUBSET S)
<1> DEFINE Small(n) == {s \in SUBSET S : Cardinality(s) <= n}
           Solved(n) == \E it : PlusUp(it, F, Small(n))
           Bad == {n \in Nat : ~Solved(n)}
<1>1. \A s \in SUBSET S : IsFiniteSet(s) /\ Cardinality(s) \in Nat
  BY FS_Subset, FS_CardinalityType
<1>2. Solved(0)
  <2>1. \A s \in Small(0) : s = {}
    BY <1>1, FS_EmptySet
  <2> DEFINE it == [s \in Small(0) |-> Zero]
  <2>2. PlusUp(it, F, Small(0))
    BY <2>1 DEF PlusUp
  <2> QED
    BY <2>2
<1>3. ASSUME NEW n \in Nat, Solved(n) PROVE Solved(n + 1)
  <2>1. PICK it : PlusUp(it, F, Small(n))
    BY <1>3
  <2> DEFINE next == [s \in Small(n + 1) |->
                        IF s = {} THEN Zero ELSE Plus(F[Picked(s)], it[s \ {Picked(s)}])]
  <2>2. ASSUME NEW s \in Small(n) PROVE next[s] = it[s]
    <3>1. s \in Small(n + 1)
      BY <1>1
    <3> QED
      BY <2>1, <3>1 DEF PlusUp
  <2>3. ASSUME NEW s \in Small(n + 1), s # {}
        PROVE  s \ {Picked(s)} \in Small(n)
    BY <1>1, <2>3, PickedAway
  <2>4. next = [s \in Small(n + 1) |->
                  IF s = {} THEN Zero ELSE Plus(F[Picked(s)], next[s \ {Picked(s)}])]
    <3> HIDE DEF Small
    <3> QED
      BY <2>2, <2>3
  <2>5. PlusUp(next, F, Small(n + 1))
    <3> HIDE DEF next, Small
    <3> QED
      BY <2>4 DEF PlusUp
  <2> QED
    BY <2>5
<1> HIDE DEF Solved
<1>4. Bad = {}
  <2> SUFFICES ASSUME Bad # {} PROVE FALSE
    OBVIOUS
  <2>1. PICK n \in Bad : \A m \in Bad : n <= m
    BY LeastNatural
  <2>2. n \in Nat /\ ~Solved(n) /\ n # 0
    BY <1>2
  <2>3. n - 1 \in Nat /\ n - 1 \notin Bad /\ (n - 1) + 1 = n
    BY <2>1, <2>2
  <2>4. Solved(n - 1)
    BY <2>3
  <2>5. Solved((n - 1) + 1)
    BY <1>3, <2>3, <2>4
  <2> QED
    BY <2>2, <2>3, <2>5
<1>5. Cardinality(S) \in Nat /\ Solved(Cardinality(S))
  BY <1>4, FS_CardinalityType
<1>6. Small(Cardinality(S)) = SUBSET S
  BY FS_Subset
<1> QED
  BY <1>5, <1>6 DEF Solved

\* The sum of the fractions F[x] over S, as the folds compute it.
Sigma(F, S) == (CHOOSE it : PlusUp(it, F, SUBSET S))[S]

\* What the summands are worth adds up to what the sum is worth.
LEMMA WorthSigma ==
  ASSUME NEW S, IsFiniteSet(S), NEW F, NEW D \in Nat \ {0}, NEW v,
         \A x \in S : F[x] \in Fraction /\ v[x] \in Int /\ Worth(F[x], D, v[x])
  PROVE  /\ Sigma(F, S) \in Fraction /\ Total(v, S) \in Int
         /\ Worth(Sigma(F, S), D, Total(v, S))
<1> DEFINE it == CHOOSE it : PlusUp(it, F, SUBSET S)
<1>1. PlusUp(it, F, SUBSET S)
  BY PlusExists
<1>2. Sigma(F, S) = it[S]
  BY DEF Sigma
<1> HIDE DEF it
<1>3. \A s \in SUBSET S :
        it[s] = IF s = {} THEN Zero ELSE Plus(F[Picked(s)], it[s \ {Picked(s)}])
  BY <1>1 DEF PlusUp
<1> DEFINE Good == {s \in SUBSET S : it[s] \in Fraction /\ Worth(it[s], D, Total(v, s))}
<1>4. \A s \in SUBSET S : IsFiniteSet(s) /\ Total(v, s) \in Int
  BY FS_Subset, TotalInt
<1>5. {} \in Good
  <2>1. it[{}] = Zero /\ Total(v, {}) = 0
    BY <1>3, <1>4, TotalPicks
  <2> QED
    BY <2>1, WorthZero
<1>6. ASSUME NEW s \in SUBSET S, s # {}, s \ {Picked(s)} \in Good PROVE s \in Good
  <2>1. PICK z \in s, r \in SUBSET S : z = Picked(s) /\ r = s \ {z}
    BY <1>6 DEF Picked
  <2>2. it[s] = Plus(F[z], it[r]) /\ Total(v, s) = v[z] + Total(v, r)
    BY <1>3, <1>4, <1>6, <2>1, TotalPicks
  <2>3. it[r] \in Fraction /\ Worth(it[r], D, Total(v, r))
    BY <1>6, <2>1
  <2>4. F[z] \in Fraction /\ v[z] \in Int /\ Worth(F[z], D, v[z]) /\ Total(v, r) \in Int
    BY <1>4
  <2>5. Plus(F[z], it[r]) \in Fraction /\ Worth(Plus(F[z], it[r]), D, v[z] + Total(v, r))
    BY <2>3, <2>4, WorthPlus
  <2> QED
    BY <2>2, <2>5
<1>7. S \in Good
  <2> HIDE DEF Good
  <2> QED
    BY <1>5, <1>6, FiniteInduction
<1> QED
  BY <1>2, <1>4, <1>7

\* Changing every sign changes that of the sum.
LEMMA TotalNegates ==
  ASSUME NEW S, IsFiniteSet(S), NEW f, NEW g, \A x \in S : f[x] \in Int /\ g[x] = -f[x]
  PROVE  Total(f, S) \in Int /\ Total(g, S) = -Total(f, S)
<1> DEFINE Good == {s \in SUBSET S : Total(g, s) = -Total(f, s)}
<1>1. \A s \in SUBSET S : IsFiniteSet(s) /\ Total(f, s) \in Int
  BY FS_Subset, TotalInt
<1>2. {} \in Good
  <2>1. Total(f, {}) = 0 /\ Total(g, {}) = 0
    BY <1>1, TotalPicks
  <2> QED
    BY <2>1
<1>3. ASSUME NEW s \in SUBSET S, s # {}, s \ {Picked(s)} \in Good PROVE s \in Good
  <2>1. PICK z \in s, r \in SUBSET S : z = Picked(s) /\ r = s \ {z}
    BY <1>3 DEF Picked
  <2>2. Total(f, s) = f[z] + Total(f, r) /\ Total(g, s) = g[z] + Total(g, r)
    BY <1>1, <1>3, <2>1, TotalPicks
  <2>3. Total(g, r) = -Total(f, r)
    BY <1>3, <2>1
  <2>4. PICK v \in Int, t \in Int : v = f[z] /\ t = Total(f, r)
    BY <1>1
  <2>5. Total(g, s) = -(v + t) /\ Total(f, s) = v + t
    BY <2>2, <2>3, <2>4
  <2> QED
    BY <2>5
<1>4. S \in Good
  <2> HIDE DEF Good
  <2> QED
    BY <1>2, <1>3, FiniteInduction
<1> QED
  BY <1>1, <1>4
=============================================================================
