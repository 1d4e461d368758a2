----------------------------- MODULE KiProofs -----------------------------
(***************************************************************************)
(* Words and quotients, and what harvest_ki can mint, for every word size. *)
(***************************************************************************)
EXTENDS Ki, TLAPS

\* A quotient and a remainder, as natural numbers.
LEMMA Division ==
  ASSUME NEW z \in Nat, NEW d \in Nat \ {0}
  PROVE  /\ z \div d \in Nat /\ z % d \in 0..d-1
         /\ z = d * (z \div d) + (z % d)
  BY SMT

LEMMA ProductNat ==
  ASSUME NEW x \in Nat, NEW y \in Nat
  PROVE  x * y \in Nat
  BY SMT

LEMMA ProductMonotone ==
  ASSUME NEW x \in Nat, NEW y \in Nat, NEW d \in Nat, x <= y
  PROVE  d * x <= d * y
<1>1. PICK e \in Nat : y = x + e
  <2>1. y - x \in Nat /\ y = x + (y - x)
    OBVIOUS
  <2> QED BY <2>1
<1>2. d * y = d * x + d * e
  BY <1>1, SMT
<1>3. d * e \in Nat /\ d * x \in Nat
  BY ProductNat
<1> QED BY <1>2, <1>3

\* A quotient is at most what it was divided from, and not more than its factor.
LEMMA QuotientBounded ==
  ASSUME NEW z \in Nat, NEW d \in Nat \ {0}, NEW r \in Nat, z <= d * r
  PROVE  z \div d <= r
<1> DEFINE q == z \div d
<1>1. q \in Nat /\ z = d * q + (z % d) /\ z % d \in Nat
  BY Division DEF q
<1> HIDE DEF q
<1>2. SUFFICES ASSUME r + 1 <= q PROVE FALSE
  BY <1>1
<1>3. d * (r + 1) <= d * q
  BY <1>1, <1>2, ProductMonotone
<1>4. d * (r + 1) = d * r + d /\ d * r \in Nat /\ d * q \in Nat
  BY <1>1, ProductNat, SMT
<1> QED BY <1>1, <1>3, <1>4

LEMMA MultiplyFits ==
  ASSUME NEW x \in Nat, NEW y \in Nat
  PROVE  /\ Multiply(x, y) \in Nat
         /\ Multiply(x, y) \in 0..MaxU64
         /\ Multiply(x, y) <= x * y
<1> USE MaxU64Assumption
<1>1. x * y \in Nat
  BY ProductNat
<1>2. CASE MultiplyOverflows(x, y)
  <2>1. (x * y) % (MaxU64 + 1) \in 0..MaxU64
    BY <1>1, Division, MaxU64Assumption
  <2>2. (x * y) % (MaxU64 + 1) <= x * y
    <3> DEFINE q == (x * y) \div (MaxU64 + 1)
    <3>1. q \in Nat /\ x * y = (MaxU64 + 1) * q + ((x * y) % (MaxU64 + 1))
      BY <1>1, Division, MaxU64 + 1 \in Nat \ {0}
    <3>2. (MaxU64 + 1) * q \in Nat
      BY <3>1, ProductNat, MaxU64 + 1 \in Nat
    <3> QED BY <1>1, <2>1, <3>1, <3>2
  <2> QED BY <1>2, <2>1, <2>2 DEF Multiply
<1>3. CASE ~MultiplyOverflows(x, y)
  <2>1. Multiply(x, y) = x * y
    BY <1>3 DEF Multiply
  <2>2. x * y <= MaxU64
    <3>1. CASE y = 0
      BY <3>1, SMT
    <3>2. CASE y # 0
      <4>1. x <= MaxU64 \div y
        BY <1>3, <3>2, Division DEF MultiplyOverflows
      <4>2. y * x <= y * (MaxU64 \div y)
        BY <3>2, <4>1, Division, ProductMonotone
      <4>3. y * (MaxU64 \div y) <= MaxU64
        <5>1. MaxU64 = y * (MaxU64 \div y) + (MaxU64 % y) /\ MaxU64 % y \in Nat /\ MaxU64 \div y \in Nat
          BY <3>2, Division
        <5>2. y * (MaxU64 \div y) \in Nat
          BY <5>1, ProductNat
        <5> QED BY <5>1, <5>2
      <4>4. y * x = x * y /\ y * (MaxU64 \div y) \in Nat
        BY <3>2, Division, ProductNat, SMT
      <4> QED BY <1>1, <4>2, <4>3, <4>4
    <3> QED BY <3>1, <3>2
  <2> QED BY <1>1, <2>1, <2>2
<1> QED BY <1>2, <1>3

\* A difference is a number, wrapped around or not.
LEMMA SubtractNat ==
  ASSUME NEW x \in Nat, NEW y \in Nat
  PROVE  Subtract(x, y) \in Nat
<1>1. MaxU64 + 1 \in Nat \ {0} /\ x - y \in Int
  BY MaxU64Assumption
<1>2. (x - y) % (MaxU64 + 1) \in Nat
  BY <1>1, SMT
<1> QED BY <1>2 DEF Subtract

\* The difference of two words that wrapped around.
LEMMA SubtractWraps ==
  ASSUME NEW x \in Nat, NEW y \in 0..MaxU64, x < y
  PROVE  Subtract(x, y) = MaxU64 - (y - x - 1)
<1> DEFINE w == MaxU64 + 1
           q == (x - y) \div w
           r == (x - y) % w
<1>1. w \in Nat \ {0} /\ x - y \in Int /\ -w <= x - y /\ x - y < 0
  BY MaxU64Assumption
<1>2. q \in Int /\ r \in 0..w-1 /\ x - y = w * q + r
  BY <1>1, SMT
<1>3. Subtract(x, y) = r /\ w = MaxU64 + 1
  BY DEF Subtract
<1> HIDE DEF w, q, r
<1>4. q < 0
  <2> SUFFICES ASSUME q \in Nat PROVE FALSE
    BY <1>2
  <2>1. w * q \in Nat
    BY <1>1, ProductNat
  <2> QED BY <1>1, <1>2, <2>1
<1>5. q > -2
  <2> SUFFICES ASSUME -q - 2 \in Nat PROVE FALSE
    BY <1>2
  <2>1. w * (-q - 2) \in Nat
    BY <1>1, ProductNat
  <2>2. w * (-q - 2) = -(w * q) - 2 * w
    BY <1>1, <1>2, SMT
  <2> QED BY <1>1, <1>2, <2>1, <2>2
<1>6. q = -1
  BY <1>2, <1>4, <1>5
<1>7. w * (-1) = -w
  BY <1>1, SMT
<1> QED BY <1>1, <1>2, <1>3, <1>6, <1>7, MaxU64Assumption

\* What is harvested for some earned Ki is a number of tokens.
LEMMA HarvestNat ==
  ASSUME NEW lamports \in Int, NEW factor \in Nat, EarnedKi(lamports, factor) > 0
  PROVE  Harvested(lamports, factor) \in Nat
<1> DEFINE x == EarnedKi(lamports, factor)
           f == SquareOver(x)
           g == Subtract(Multiply(x, KiLimit), Multiply(f, f)) \div KiDivisor
<1> USE MaxU64Assumption, KiAssumption
<1>1. x \in Nat
  <2>1. lamports * factor \in Int
    BY SMT
  <2>2. Multiply(lamports, factor) \in Int
    <3>1. (lamports * factor) % (MaxU64 + 1) \in Int
      BY <2>1, SMT
    <3> QED BY <2>1, <3>1 DEF Multiply
  <2> HIDE DEF x
  <2>3. Multiply(lamports, factor) \div LamportsPerSol \in Int
    BY <2>2, SMT
  <2> QED BY <2>3 DEF EarnedKi, x
<1> HIDE DEF x
<1>2. Multiply(x, x) \in Nat /\ Multiply(x, KiLimit) \in Nat
  BY <1>1, MultiplyFits
<1>3. f \in Nat
  BY <1>2, Division DEF SquareOver
<1> HIDE DEF f
<1>4. Multiply(f, f) \in Nat
  BY <1>3, MultiplyFits
<1>5. Subtract(Multiply(x, KiLimit), Multiply(f, f)) \in Nat
  BY <1>2, <1>4, SubtractNat
<1>6. g \in Nat
  BY <1>5, Division
<1> HIDE DEF g
<1>7. Multiply(g, 10) \in Nat
  BY <1>6, MultiplyFits
<1>8. Harvested(lamports, factor) \in {0, Multiply(g, 10)}
  BY DEF Harvested, ReducedKi, g, f, x
<1> QED BY <1>7, <1>8

\* The flag of checked_multiply is about the product.
LEMMA MultiplyFlag ==
  ASSUME NEW x \in Nat, NEW y \in Nat
  PROVE  MultiplyOverflows(x, y) <=> x * y > MaxU64
<1>1. CASE y = 0
  BY <1>1, MaxU64Assumption, SMT DEF MultiplyOverflows
<1>2. CASE y # 0
  <2> DEFINE q == MaxU64 \div y
  <2>1. q \in Nat /\ MaxU64 % y \in 0..y-1 /\ MaxU64 = y * q + (MaxU64 % y)
    BY <1>2, MaxU64Assumption, Division
  <2> HIDE DEF q
  <2>2. /\ y * q \in Nat /\ y * x \in Nat /\ y * x = x * y
        /\ y * (q + 1) = y * q + y /\ MaxU64 \in Nat
    BY <2>1, MaxU64Assumption, ProductNat, SMT
  <2>3. ASSUME x > q PROVE x * y > MaxU64
    <3>1. y * (q + 1) <= y * x
      BY <2>1, <2>3, q + 1 <= x, ProductMonotone
    <3> QED BY <2>1, <2>2, <3>1
  <2>4. ASSUME x <= q PROVE ~(x * y > MaxU64)
    <3>1. y * x <= y * q
      BY <2>1, <2>4, ProductMonotone
    <3> QED BY <2>1, <2>2, <3>1
  <2>5. MultiplyOverflows(x, y) <=> x > q
    BY <1>2 DEF MultiplyOverflows, q
  <2> QED BY <2>1, <2>3, <2>4, <2>5
<1> QED BY <1>1, <1>2

\* A product that is a word is not flagged.
LEMMA ProductNotFlagged ==
  ASSUME NEW x \in Nat, NEW y \in Nat, x * y <= MaxU64
  PROVE  ~MultiplyOverflows(x, y)
  BY MultiplyFlag, ProductNat, MaxU64Assumption

\* A product that fits is the product.
LEMMA MultiplyExact ==
  ASSUME NEW x \in Nat, NEW y \in Nat, x * y <= MaxU64
  PROVE  Multiply(x, y) = x * y
  BY ProductNotFlagged DEF Multiply

\* Up to KiLimit, the square over KiLimit is not more than what is squared.
LEMMA SquareFits ==
  ASSUME NEW x \in Nat, x <= KiLimit, x * KiLimit <= MaxU64
  PROVE  /\ SquareOver(x) = (x * x) \div KiLimit
         /\ SquareOver(x) \in Nat /\ SquareOver(x) <= x
         /\ SquareOver(x) * SquareOver(x) \in Nat
         /\ SquareOver(x) * SquareOver(x) <= x * KiLimit
         /\ x * KiLimit \in Nat
<1>0. KiLimit \in Nat \ {0} /\ MaxU64 \in Nat
  BY KiAssumption, MaxU64Assumption
<1>1. x * x \in Nat /\ x * KiLimit \in Nat /\ x * x <= x * KiLimit
  BY <1>0, ProductNat, ProductMonotone
<1>2. Multiply(x, x) = x * x
  BY <1>0, <1>1, MultiplyExact
<1> DEFINE q == (x * x) \div KiLimit
<1>3. x * x <= KiLimit * x
  <2>1. x * KiLimit = KiLimit * x
    BY <1>0, SMT
  <2> QED BY <1>1, <2>1
<1>4. q \in Nat /\ q <= x
  <2>1. q \in Nat
    BY <1>0, <1>1, Division
  <2> QED BY <1>0, <1>1, <1>3, <2>1, QuotientBounded
<1>5. SquareOver(x) = q
  BY <1>2 DEF SquareOver
<1> HIDE DEF q
<1>6. q * q \in Nat /\ q * q <= x * KiLimit
  <2>1. q * q <= q * x /\ x * q <= x * KiLimit /\ q * x \in Nat /\ q * q \in Nat
    BY <1>0, <1>4, ProductMonotone, ProductNat
  <2>2. q * x = x * q
    BY <1>4, SMT
  <2> QED BY <1>1, <2>1, <2>2
<1> QED
  BY <1>1, <1>4, <1>5, <1>6 DEF q

(***************************************************************************)
(* A difference that wrapped around earns so many Ki that their square     *)
(* overflows: harvest_ki mints nothing for it.  Supply bounds what was     *)
(* subtracted.                                                             *)
(***************************************************************************)
LEMMA WrappedHarvestIsZero ==
  ASSUME NEW lamports \in Nat, NEW factor \in Nat, NEW Supply \in 0..MaxU64,
         lamports >= MaxU64 - Supply,
         ((MaxU64 - Supply) \div LamportsPerSol) * ((MaxU64 - Supply) \div LamportsPerSol) > MaxU64,
         EarnedKi(lamports, factor) > 0
  PROVE  Harvested(lamports, factor) = 0
<1> SUFFICES ASSUME ~MultiplyOverflows(lamports, factor)
             PROVE  HarvestOverflows(lamports, factor)
  BY DEF Harvested, HarvestOverflows
<1> DEFINE bound == MaxU64 - Supply
           e     == bound \div LamportsPerSol
           n     == lamports * factor
           x     == n \div LamportsPerSol
<1>1. /\ bound \in Nat /\ lamports >= bound /\ n \in Nat
      /\ LamportsPerSol \in Nat \ {0} /\ MaxU64 \in Nat
  BY MaxU64Assumption, KiAssumption, ProductNat
<1>2. EarnedKi(lamports, factor) = x
  BY DEF EarnedKi, Multiply
<1>3. n >= bound
  <2>1. CASE factor = 0
    <3>1. n = 0
      BY <2>1, SMT
    <3>2. 0 \div LamportsPerSol = 0
      BY <1>1, SMT
    <3> QED BY <1>2, <3>1, <3>2
  <2>2. CASE factor # 0
    <3>1. lamports * 1 <= lamports * factor
      BY <2>2, ProductMonotone
    <3> QED BY <1>1, <3>1
  <2> QED BY <2>1, <2>2
<1>4. e * e > MaxU64
  OBVIOUS
<1>5. e \in Nat /\ x \in Nat
  BY <1>1, Division
<1>6. e <= x
  <2> HIDE DEF bound, n
  <2> DEFINE r == n % LamportsPerSol
             t == bound % LamportsPerSol
  <2>1. r \in 0..LamportsPerSol-1 /\ n = LamportsPerSol * x + r
        /\ t \in 0..LamportsPerSol-1 /\ bound = LamportsPerSol * e + t
    BY <1>1, Division
  <2> HIDE DEF e, x, r, t
  <2> SUFFICES ASSUME x + 1 <= e PROVE FALSE
    BY <1>5
  <2>2. LamportsPerSol * (x + 1) <= LamportsPerSol * e
    BY <1>1, <1>5, ProductMonotone
  <2>3. /\ LamportsPerSol * (x + 1) = LamportsPerSol * x + LamportsPerSol
        /\ LamportsPerSol * x \in Nat /\ LamportsPerSol * e \in Nat
    BY <1>1, <1>5, ProductNat, SMT
  <2> QED BY <1>1, <1>3, <2>1, <2>2, <2>3
<1> HIDE DEF e, x
<1>7. x * x > MaxU64
  <2>1. e * e <= e * x /\ x * e <= x * x /\ e * x = x * e
    BY <1>5, <1>6, ProductMonotone, SMT
  <2>2. e * e \in Nat /\ e * x \in Nat /\ x * x \in Nat
    BY <1>5, ProductNat
  <2> QED BY <1>1, <1>4, <2>1, <2>2
<1>8. MultiplyOverflows(x, x)
  BY <1>5, <1>7, MultiplyFlag
<1> QED
  BY <1>2, <1>8 DEF HarvestOverflows

(***************************************************************************)
(* Up to KiLimit Ki, a harvest is not more than what was earned: in        *)
(* tokens, ten times the factor for each SOL.                              *)
(***************************************************************************)
LEMMA HarvestIsEarned ==
  ASSUME NEW lamports \in Nat, NEW factor \in Nat,
         lamports * factor <= KiLimit * LamportsPerSol,
         KiLimit * KiLimit <= MaxU64, KiLimit <= KiDivisor
  PROVE  Harvested(lamports, factor) * LamportsPerSol <= 10 * factor * lamports
<1> DEFINE n == Multiply(lamports, factor)
           x == n \div LamportsPerSol
           q == SquareOver(x)
           d == x * KiLimit - q * q
           g == d \div KiDivisor
<1>0. /\ LamportsPerSol \in Nat \ {0} /\ KiLimit \in Nat \ {0} /\ KiDivisor \in Nat \ {0}
      /\ MaxU64 \in Nat
  BY KiAssumption, MaxU64Assumption
<1>1. /\ n \in Nat /\ n <= lamports * factor /\ lamports * factor \in Nat
      /\ lamports * factor <= LamportsPerSol * KiLimit
  <2>1. KiLimit * LamportsPerSol = LamportsPerSol * KiLimit
    BY <1>0, SMT
  <2> QED BY <2>1, MultiplyFits, ProductNat
<1>2. EarnedKi(lamports, factor) = x
  BY DEF EarnedKi
<1> HIDE DEF n
<1>3. x \in Nat /\ x <= KiLimit
  <2>1. n <= LamportsPerSol * KiLimit /\ LamportsPerSol * KiLimit \in Nat
    BY <1>0, <1>1, ProductNat
  <2> QED BY <1>0, <1>1, <2>1, Division, QuotientBounded
<1>4. LamportsPerSol * x <= n /\ LamportsPerSol * x \in Nat
  <2> DEFINE r == n % LamportsPerSol
  <2>1. r \in 0..LamportsPerSol-1 /\ n = LamportsPerSol * x + r
    BY <1>0, <1>1, Division
  <2> HIDE DEF x, r
  <2>2. LamportsPerSol * x \in Nat
    BY <1>0, <1>3, ProductNat
  <2> QED BY <1>1, <2>1, <2>2
<1> HIDE DEF x
<1>5. x * KiLimit <= MaxU64
  <2>1. KiLimit * x <= KiLimit * KiLimit /\ KiLimit * x = x * KiLimit
        /\ KiLimit * x \in Nat /\ KiLimit * KiLimit \in Nat
    BY <1>0, <1>3, ProductMonotone, ProductNat, SMT
  <2> QED BY <1>0, <2>1
<1>6. q \in Nat /\ q * q \in Nat /\ q * q <= x * KiLimit /\ x * KiLimit \in Nat
  BY <1>3, <1>5, SquareFits
<1>7. Multiply(x, KiLimit) = x * KiLimit /\ Multiply(q, q) = q * q
  <2> HIDE DEF q
  <2>1. q * q <= MaxU64
    BY <1>0, <1>5, <1>6
  <2> QED BY <1>0, <1>3, <1>5, <1>6, <2>1, MultiplyExact
<1>8. d \in Nat /\ d <= x * KiLimit /\ Subtract(Multiply(x, KiLimit), Multiply(q, q)) = d
  <2> HIDE DEF q
  <2> QED BY <1>6, <1>7 DEF Subtract
<1> HIDE DEF q, d
<1>9. g \in Nat /\ g <= x
  <2>1. x * KiLimit <= x * KiDivisor /\ x * KiDivisor = KiDivisor * x
        /\ KiDivisor * x \in Nat
    BY <1>0, <1>3, ProductMonotone, ProductNat, SMT
  <2>2. d <= KiDivisor * x
    BY <1>6, <1>8, <2>1
  <2> QED BY <1>0, <1>3, <1>8, <2>2, Division, QuotientBounded
<1>10. ReducedKi(x) = Multiply(g, 10)
  BY <1>8 DEF ReducedKi, q, g
<1> HIDE DEF g
<1>11. Multiply(g, 10) \in Nat /\ Multiply(g, 10) <= 10 * x
  <2>1. Multiply(g, 10) \in Nat /\ Multiply(g, 10) <= g * 10
    BY <1>9, MultiplyFits
  <2> QED BY <1>3, <1>9, <2>1
<1> DEFINE tokens == Harvested(lamports, factor)
<1>12. tokens \in Nat /\ tokens <= 10 * x
  BY <1>2, <1>3, <1>10, <1>11 DEF Harvested
<1> HIDE DEF tokens
<1>13. tokens * LamportsPerSol <= 10 * (LamportsPerSol * x)
  <2>1. LamportsPerSol * tokens <= LamportsPerSol * (10 * x)
    BY <1>0, <1>3, <1>12, ProductMonotone
  <2>2. /\ LamportsPerSol * tokens = tokens * LamportsPerSol
        /\ LamportsPerSol * (10 * x) = 10 * (LamportsPerSol * x)
    BY <1>0, <1>3, <1>12, SMT
  <2> QED BY <2>1, <2>2
<1>14. 10 * factor * lamports = 10 * (lamports * factor)
  BY SMT
<1>15. tokens * LamportsPerSol \in Nat
  BY <1>0, <1>12, ProductNat
<1> DEFINE product == lamports * factor
<1> HIDE DEF product
<1>16. 10 * (LamportsPerSol * x) <= 10 * product
  BY <1>1, <1>4 DEF product
<1>17. tokens * LamportsPerSol <= 10 * product
  <2>1. product \in Nat
    BY <1>1 DEF product
  <2> QED BY <1>4, <1>13, <1>15, <1>16, <2>1
<1> QED
  BY <1>14, <1>17 DEF tokens, product
=============================================================================
