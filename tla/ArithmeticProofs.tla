-------------------------- MODULE ArithmeticProofs --------------------------
(***************************************************************************)
(* Theorems about the formulas of the program: checked_multiply for words  *)
(* of any even width, and the price and Ki curves for amounts of any size. *)
(***************************************************************************)
EXTENDS MCArithmetic, AmountsProofs, KiProofs

(***************************************************************************)
(* Division with remainder, and its uniqueness.                            *)
(***************************************************************************)
LEMMA Halves ==
  ASSUME NEW z \in Nat, NEW d \in Nat \ {0}
  PROVE  /\ z \div d \in Nat /\ z % d \in Nat /\ z % d < d
         /\ z = (z \div d) * d + (z % d)
BY SMT

LEMMA UniqueQuotient ==
  ASSUME NEW q \in Nat, NEW r \in Nat, NEW d \in Nat \ {0}, NEW z \in Nat,
         z = q * d + r, r < d
  PROVE  z \div d = q /\ z % d = r
<1> DEFINE k == z \div d
           s == z % d
<1>1. k \in Nat /\ s \in Nat /\ s < d /\ z = k * d + s
  BY Halves
<1> HIDE DEF k, s
<1>2. ~(k < q)
  <2> SUFFICES ASSUME k < q PROVE FALSE
    OBVIOUS
  <2>1. (k + 1) * d <= q * d
    BY <1>1, SMT
  <2>2. (k + 1) * d = k * d + d
    BY <1>1, SMT
  <2> QED BY <1>1, <2>1, <2>2, SMT
<1>3. ~(q < k)
  <2> SUFFICES ASSUME q < k PROVE FALSE
    OBVIOUS
  <2>1. (q + 1) * d <= k * d
    BY <1>1, SMT
  <2>2. (q + 1) * d = q * d + d
    BY SMT
  <2> QED BY <1>1, <2>1, <2>2, SMT
<1>4. k = q
  BY <1>1, <1>2, <1>3, SMT
<1>5. s = r
  BY <1>1, <1>4, SMT
<1> QED BY <1>4, <1>5 DEF k, s

(***************************************************************************)
(* The test of CheckedMath is about the product.                           *)
(***************************************************************************)
LEMMA OverflowIsOfProduct ==
  ASSUME NEW x \in Nat, NEW y \in Nat, NEW w \in Nat \ {0}
  PROVE  (y # 0 /\ x > (w - 1) \div y) <=> x * y >= w
<1>1. CASE y = 0
  BY <1>1, SMT
<1>2. CASE y # 0
  <2> DEFINE q == (w - 1) \div y
             r == (w - 1) % y
  <2>1. q \in Nat /\ r \in Nat /\ r < y /\ w - 1 = q * y + r
    BY <1>2, Halves
  <2> HIDE DEF q, r
  <2>2. ASSUME x > q PROVE x * y >= w
    <3>1. x * y >= (q + 1) * y
      BY <2>1, <2>2, SMT
    <3>2. (q + 1) * y = q * y + y
      BY <2>1, SMT
    <3> QED BY <2>1, <3>1, <3>2, SMT
  <2>3. ASSUME ~(x > q) PROVE ~(x * y >= w)
    <3>1. x * y <= q * y
      BY <2>1, <2>3, SMT
    <3> QED BY <2>1, <3>1, SMT
  <2> QED BY <1>2, <2>2, <2>3 DEF q
<1> QED BY <1>1, <1>2

(***************************************************************************)
(* A product of two digits.                                                *)
(***************************************************************************)
LEMMA DigitProduct ==
  ASSUME NEW h \in Nat \ {0}, NEW a \in Nat, NEW b \in Nat, a < h, b < h
  PROVE  a * b \in Nat /\ a * b <= (h - 1) * (h - 1)
<1>1. a * b <= (h - 1) * b
  BY SMT
<1>2. (h - 1) * b <= (h - 1) * (h - 1)
  BY SMT
<1> QED BY <1>1, <1>2, SMT

(***************************************************************************)
(* The schoolbook algorithm, with a number for each of its intermediate    *)
(* results: x1, x0 and y1, y0 are the halves of the operands.              *)
(***************************************************************************)
LEMMA SchoolbookIdentity ==
  ASSUME NEW h \in Nat, NEW x1 \in Nat, NEW x0 \in Nat, NEW y1 \in Nat, NEW y0 \in Nat,
         NEW p01h \in Nat, NEW p01l \in Nat, NEW p00h \in Nat, NEW p00l \in Nat,
         NEW middleh \in Nat, NEW middlel \in Nat,
         x0 * y1 = p01h * h + p01l,
         x0 * y0 = p00h * h + p00l,
         x1 * y0 + p00h + p01l = middleh * h + middlel
  PROVE  (x1 * h + x0) * (y1 * h + y0)
           = (x1 * y1 + middleh + p01h) * (h * h) + (middlel * h + p00l)
<1>1. (x1 * h + x0) * (y1 * h + y0)
        = (x1 * y1) * (h * h) + (x1 * y0) * h + (x0 * y1) * h + x0 * y0
  BY SMT
<1>2. (x0 * y1) * h = p01h * (h * h) + p01l * h
  BY SMT
<1>3. (x1 * y0 + p00h + p01l) * h = middleh * (h * h) + middlel * h
  BY SMT
<1>4. (x1 * y0 + p00h + p01l) * h = (x1 * y0) * h + p00h * h + p01l * h
  BY SMT
<1>5. (x1 * y1 + middleh + p01h) * (h * h)
        = (x1 * y1) * (h * h) + middleh * (h * h) + p01h * (h * h)
  BY SMT
<1> QED BY <1>1, <1>2, <1>3, <1>4, <1>5, SMT

(***************************************************************************)
(* checked_multiply: for operands of a word, the flag is set exactly if    *)
(* the product does not fit, and otherwise the product is returned.  None  *)
(* of the intermediate sums wraps around: middle is at most the greatest   *)
(* word, and the sum tested is the upper word of the product.              *)
(***************************************************************************)
THEOREM MultiplyIsExact ==
  ASSUME NEW x \in 0 .. Word - 1, NEW y \in 0 .. Word - 1
  PROVE  ProductOrOverflow(x, y)
<1> DEFINE h       == Half
           x1      == High(x)
           x0      == Low(x)
           y1      == High(y)
           y0      == Low(y)
           p01h    == High(x0 * y1)
           p01l    == Low(x0 * y1)
           p00h    == High(x0 * y0)
           p00l    == Low(x0 * y0)
           sum     == x1 * y0 + p00h + p01l
           middleh == High(sum)
           middlel == Low(sum)
           top     == x1 * y1 + middleh + p01h
<1>h. h \in Nat \ {0} /\ h > 1 /\ h * h \in Nat \ {0} /\ Word = h * h
  BY HalfAssumption, SMT DEF Word
<1>w. x \in Nat /\ y \in Nat /\ x < h * h /\ y < h * h
  BY <1>h, SMT
<1>1. /\ x1 \in Nat /\ x0 \in Nat /\ x0 < h /\ x = x1 * h + x0
      /\ y1 \in Nat /\ y0 \in Nat /\ y0 < h /\ y = y1 * h + y0
  BY <1>h, <1>w, Halves DEF High, Low
<1> HIDE DEF x1, x0, y1, y0
<1>2. x1 < h /\ y1 < h
  <2>1. x1 * h < h * h /\ y1 * h < h * h
    BY <1>h, <1>w, <1>1, SMT
  <2>2. ASSUME x1 >= h PROVE FALSE
    BY <1>h, <1>1, <2>1, <2>2, SMT
  <2>3. ASSUME y1 >= h PROVE FALSE
    BY <1>h, <1>1, <2>1, <2>3, SMT
  <2> QED BY <1>h, <1>1, <2>2, <2>3, SMT
<1>3. /\ x0 * y1 \in Nat /\ x0 * y0 \in Nat /\ x1 * y0 \in Nat /\ x1 * y1 \in Nat
      /\ x0 * y0 <= (h - 1) * (h - 1)
      /\ x1 * y0 <= (h - 1) * (h - 1)
  BY <1>h, <1>1, <1>2, DigitProduct
<1>4. /\ p01h \in Nat /\ p01l \in Nat /\ p01l < h /\ x0 * y1 = p01h * h + p01l
      /\ p00h \in Nat /\ p00l \in Nat /\ p00l < h /\ x0 * y0 = p00h * h + p00l
  BY <1>h, <1>3, Halves DEF High, Low
<1> HIDE DEF p01h, p01l, p00h, p00l
<1>5. p00h < h
  <2>1. (h - 1) * (h - 1) < h * h
    BY <1>h, SMT
  <2>2. p00h * h < h * h
    BY <1>h, <1>3, <1>4, <2>1, SMT
  <2>3. ASSUME p00h >= h PROVE FALSE
    BY <1>h, <1>4, <2>2, <2>3, SMT
  <2> QED BY <1>h, <1>4, <2>3, SMT
<1>6. sum \in Nat /\ sum < h * h
  <2>1. (h - 1) * (h - 1) + (h - 1) + (h - 1) = h * h - 1
    BY <1>h, SMT
  <2> QED BY <1>h, <1>3, <1>4, <1>5, <2>1, SMT
<1>7. Middle(x, y) = sum
  <2>1. sum % (h * h) = sum
    <3> HIDE DEF sum
    <3>1. sum = 0 * (h * h) + sum
      BY <1>h, <1>6, SMT
    <3> QED BY <1>h, <1>6, <3>1, UniqueQuotient
  <2> QED BY <1>h, <2>1 DEF Middle, x1, x0, y1, y0, p00h, p01l
<1>8. middleh \in Nat /\ middlel \in Nat /\ middlel < h /\ sum = middleh * h + middlel
  <2> HIDE DEF sum
  <2> QED BY <1>h, <1>6, Halves DEF High, Low
<1> HIDE DEF middleh, middlel
<1>9. x * y = top * (h * h) + (middlel * h + p00l)
  BY <1>h, <1>1, <1>4, <1>8, SchoolbookIdentity
<1>10. middlel * h + p00l \in Nat /\ middlel * h + p00l < h * h
  <2>1. (middlel + 1) * h <= h * h
    BY <1>h, <1>8, SMT
  <2>2. (middlel + 1) * h = middlel * h + h
    BY <1>h, <1>8, SMT
  <2> QED BY <1>h, <1>4, <1>8, <2>1, <2>2, SMT
<1>11. top \in Nat
  BY <1>3, <1>4, <1>8, SMT
<1> DEFINE w    == h * h
           rest == middlel * h + p00l
<1>12. /\ w \in Nat \ {0} /\ x < w /\ y < w /\ rest \in Nat /\ rest < w
       /\ x * y = top * w + rest
  BY <1>h, <1>w, <1>9, <1>10
<1>13. (top # 0) <=> x * y >= w
  <2> HIDE DEF w, rest, top
  <2>1. CASE top = 0
    BY <1>12, <2>1, SMT
  <2>2. CASE top # 0
    <3>1. top * w >= w
      BY <1>11, <1>12, <2>2, SMT
    <3> QED BY <1>11, <1>12, <2>2, <3>1, SMT
  <2> QED BY <2>1, <2>2
<1>14. top % Word = top
  <2> HIDE DEF w, rest, top
  <2>1. x * y <= w * y
    BY <1>12, <1>w, SMT
  <2>2. w * y <= w * (w - 1)
    BY <1>12, <1>w, SMT
  <2>3. top * w < w * w
    BY <1>11, <1>12, <1>w, <2>1, <2>2, SMT
  <2>4. ASSUME top >= w PROVE FALSE
    BY <1>11, <1>12, <2>3, <2>4, SMT
  <2>5. top < w /\ top = 0 * w + top
    BY <1>11, <1>12, <2>4, SMT
  <2>6. top % w = top
    BY <1>11, <1>12, <2>5, UniqueQuotient
  <2> QED BY <2>6, <1>h DEF w
<1>15. SchoolbookOverflows(x, y) <=> top # 0
  <2>1. SchoolbookOverflows(x, y) <=> top % Word # 0
    BY <1>7 DEF SchoolbookOverflows, top, middleh, p01h, x1, x0, y1, y0
  <2> QED BY <1>14, <2>1
<1>16. SchoolbookOverflows(x, y) <=> Checked!MultiplyOverflows(x, y)
  <2>1. Checked!MultiplyOverflows(x, y) <=> x * y >= w
    <3> HIDE DEF w
    <3>1. (y # 0 /\ x > (w - 1) \div y) <=> x * y >= w
      BY <1>12, <1>w, OverflowIsOfProduct
    <3> QED BY <3>1, <1>h DEF Checked!MultiplyOverflows, w
  <2> QED BY <1>13, <1>15, <2>1
<1>17. SchoolbookMultiply(x, y) = rest
  <2>1. sum * h = middleh * w + middlel * h
    BY <1>8, <1>h, SMT
  <2>2. middlel * h \in Nat /\ middlel * h < w /\ sum * h \in Nat
    BY <1>4, <1>6, <1>8, <1>h, <1>10, SMT
  <2>3. (sum * h) % w = middlel * h
    <3> DEFINE upper == middlel * h
               shifted == sum * h
    <3> HIDE DEF w, upper, shifted
    <3>1. /\ upper \in Nat /\ upper < w /\ shifted \in Nat
          /\ shifted = middleh * w + upper
      BY <2>1, <2>2 DEF upper, shifted
    <3>2. middleh \in Nat /\ w \in Nat \ {0}
      BY <1>8, <1>12
    <3>3. shifted % w = upper
      BY <3>1, <3>2, UniqueQuotient
    <3> QED BY <3>3 DEF upper, shifted
  <2>4. SchoolbookMultiply(x, y) = ((sum * h) % w) + p00l
    BY <1>7, <1>h DEF SchoolbookMultiply, p00l, x0, y0
  <2> QED BY <2>3, <2>4
<1>18. ~SchoolbookOverflows(x, y) => SchoolbookMultiply(x, y) = x * y
  <2> SUFFICES ASSUME top = 0 PROVE rest = x * y
    BY <1>15, <1>17
  <2> HIDE DEF w, rest, top
  <2> QED BY <1>12, SMT
<1> QED BY <1>16, <1>18 DEF ProductOrOverflow

-----------------------------------------------------------------------------
(***************************************************************************)
(* checked_multiply, for every pair that the run enumerates.               *)
(***************************************************************************)

OperandsInv == first \in 0 .. Word - 1 /\ second \in 0 .. Word - 1

LEMMA OperandsInvHolds == ArithmeticSpec => []OperandsInv
<1> USE HalfAssumption
<1>1. Word \in Nat \ {0}
  BY SMT DEF Word
<1>2. ArithmeticInit => OperandsInv
  BY <1>1 DEF ArithmeticInit, OperandsInv
<1>3. OperandsInv /\ [ArithmeticNext]_<<curve, operands>> => OperandsInv'
  BY <1>1 DEF OperandsInv, ArithmeticNext, NextOperand, operands, curve, Word
<1> QED
  BY <1>2, <1>3, PTL DEF ArithmeticSpec

(***************************************************************************)
(* For words of any even width, checked_multiply does what it promises for *)
(* every pair of operands: the run enumerates the pairs of one small word. *)
(***************************************************************************)
THEOREM ProductsOrFlags == ArithmeticSpec => []ProductOrFlag
<1>1. OperandsInv => ProductOrFlag
  BY MultiplyIsExact DEF OperandsInv, ProductOrFlag
<1> QED
  BY <1>1, OperandsInvHolds, PTL

-----------------------------------------------------------------------------
(***************************************************************************)
(* The price curve.                                                        *)
(***************************************************************************)

\* The numerator and the denominator of the curve.
Numerator(delta, seconds, total)   == delta * 101 - (((100 * delta * seconds) \div total) + delta)
Denominator(seconds, total)        == ((10100 * seconds) \div total) + 101

\* A larger amount has a larger quotient, and a larger divisor a smaller one.
LEMMA QuotientMonotone ==
  ASSUME NEW x \in Nat, NEW y \in Nat, NEW d \in Nat \ {0}, NEW e \in Nat \ {0},
         x <= y, e <= d
  PROVE  x \div d <= y \div e
<1> DEFINE r == y \div e
<1>1. r \in Nat /\ y % e \in 0..e-1 /\ y = e * r + (y % e)
  BY Division
<1> HIDE DEF r
<1>2. (e * (r + 1)) <= d * (r + 1)
  <2>1. (r + 1) * e <= (r + 1) * d
    BY <1>1, ProductMonotone
  <2>2. (r + 1) * e = e * (r + 1) /\ (r + 1) * d = d * (r + 1)
    BY <1>1, SMT
  <2> QED BY <2>1, <2>2
<1>3. e * (r + 1) = e * r + e /\ e * r \in Nat /\ d * (r + 1) \in Nat
  BY <1>1, ProductNat, SMT
<1>4. x < d * (r + 1)
  BY <1>1, <1>2, <1>3
<1> DEFINE q == x \div d
<1>5. q \in Nat /\ x % d \in 0..d-1 /\ x = d * q + (x % d)
  BY Division
<1> HIDE DEF q
<1>6. SUFFICES ASSUME r + 1 <= q PROVE FALSE
  BY <1>1, <1>5 DEF q, r
<1>7. d * (r + 1) <= d * q /\ d * q \in Nat
  BY <1>1, <1>5, <1>6, ProductMonotone, ProductNat
<1> QED BY <1>3, <1>4, <1>5, <1>7

\* What remains of the difference of the prices is a part of it.
LEMMA CurveParts ==
  ASSUME NEW delta \in Nat, NEW total \in Nat, NEW s \in Nat, s < total
  PROVE  /\ Numerator(delta, s, total) \in Nat
         /\ Numerator(delta, s, total) <= 100 * delta
         /\ Denominator(s, total) \in Nat
         /\ Denominator(s, total) >= 101
         /\ Denominator(s, total) <= 10201
<1> DEFINE k  == 100 * delta
           qs == (k * s) \div total
           bs == (10100 * s) \div total
<1>1. k \in Nat /\ 10100 \in Nat
  BY SMT
<1> HIDE DEF k
<1>2. qs \in Nat /\ qs <= k /\ bs \in Nat /\ bs <= 10100
  BY <1>1, PartOf
<1>3. Numerator(delta, s, total) = delta * 101 - (qs + delta) /\ Denominator(s, total) = bs + 101
  BY DEF Numerator, Denominator, k
<1> HIDE DEF qs, bs
<1>4. delta * 101 - delta = k /\ k = 100 * delta
  BY SMT DEF k
<1> QED
  BY <1>1, <1>2, <1>3, <1>4

\* The numerator does not rise, and the denominator does not fall, with the seconds.
LEMMA CurveFalls ==
  ASSUME NEW delta \in Nat, NEW total \in Nat, NEW s \in Nat, NEW t \in Nat,
         s <= t, t < total
  PROVE  /\ Numerator(delta, t, total) <= Numerator(delta, s, total)
         /\ Denominator(s, total) <= Denominator(t, total)
<1> DEFINE k  == 100 * delta
           qs == (k * s) \div total
           qt == (k * t) \div total
           bs == (10100 * s) \div total
           bt == (10100 * t) \div total
<1>1. k \in Nat /\ 10100 \in Nat /\ total \in Nat \ {0} /\ s < total
  BY SMT
<1> HIDE DEF k
<1>2. /\ k * s \in Nat /\ k * t \in Nat /\ k * s <= k * t
      /\ 10100 * s \in Nat /\ 10100 * t \in Nat /\ 10100 * s <= 10100 * t
  BY <1>1, ProductNat, ProductMonotone
<1>3. qs <= qt /\ bs <= bt
  BY <1>1, <1>2, QuotientMonotone
<1>4. qs \in Nat /\ qt \in Nat /\ bs \in Nat /\ bt \in Nat
  BY <1>1, <1>2, Division
<1>5. /\ Numerator(delta, t, total) = delta * 101 - (qt + delta)
      /\ Numerator(delta, s, total) = delta * 101 - (qs + delta)
      /\ Denominator(s, total) = bs + 101 /\ Denominator(t, total) = bt + 101
  BY DEF Numerator, Denominator, k
<1> HIDE DEF qs, qt, bs, bt
<1> QED
  BY <1>3, <1>4, <1>5

\* CurveLeft is their quotient.
Remaining(delta, seconds, total) ==
  Numerator(delta, seconds, total) \div Denominator(seconds, total)

LEMMA RemainingFalls ==
  ASSUME NEW delta \in Nat, NEW total \in Nat, NEW s \in Nat, NEW t \in Nat,
         s <= t, t < total
  PROVE  /\ Remaining(delta, t, total) \in Nat /\ Remaining(delta, s, total) \in Nat
         /\ Remaining(delta, t, total) <= Remaining(delta, s, total)
         /\ Remaining(delta, s, total) <= delta
<1> DEFINE ns == Numerator(delta, s, total)
           nt == Numerator(delta, t, total)
           ds == Denominator(s, total)
           dt == Denominator(t, total)
<1>1. /\ nt \in Nat /\ ns \in Nat /\ nt <= ns /\ ns <= 100 * delta
      /\ ds \in Nat \ {0} /\ dt \in Nat \ {0} /\ ds <= dt /\ ds >= 101
  <2>1. nt <= ns /\ ds <= dt
    BY CurveFalls
  <2>2. /\ ns \in Nat /\ ns <= 100 * delta /\ ds \in Nat /\ ds >= 101
        /\ nt \in Nat /\ dt \in Nat /\ dt >= 101
    <3>1. s < total
      OBVIOUS
    <3>2. ns \in Nat /\ ns <= 100 * delta
      BY <3>1, CurveParts
    <3>3. ds \in Nat /\ ds >= 101
      BY <3>1, CurveParts
    <3>4. nt \in Nat
      BY CurveParts
    <3>5. dt \in Nat /\ dt >= 101
      BY CurveParts
    <3> QED BY <3>2, <3>3, <3>4, <3>5
  <2> HIDE DEF ns, nt, ds, dt
  <2> QED BY <2>1, <2>2
<1> HIDE DEF ns, nt, ds, dt
<1>2. ns \div ds \in Nat /\ nt \div dt \in Nat
  BY <1>1, Division
<1>3. nt \div dt <= ns \div ds
  BY <1>1, QuotientMonotone
<1>4. ns \div ds <= delta
  <2>1. delta * 101 <= delta * ds
    BY <1>1, ProductMonotone
  <2>2. delta * ds = ds * delta /\ 100 * delta <= delta * 101
    BY <1>1, SMT
  <2>3. ds * delta \in Nat /\ delta * 101 \in Nat /\ 100 * delta \in Nat
    BY <1>1, ProductNat, SMT
  <2>4. ns <= ds * delta
    BY <1>1, <2>1, <2>2, <2>3
  <2> QED BY <1>1, <2>4, QuotientBounded
<1> QED
  BY <1>2, <1>3, <1>4 DEF Remaining, ns, nt, ds, dt

\* The first four steps of compute_price that may overflow; the others never do.
CurveOverflows(total, delta, seconds) ==
  \/ MultiplyOverflows(100 * delta, seconds)
  \/ AddOverflows((100 * delta * seconds) \div total, delta)
  \/ MultiplyOverflows(10100, seconds)
  \/ AddOverflows((10100 * seconds) \div total, 101)

\* During the sale, the price is what is left above the minimum price, or, if
\* the computation overflows, the end price.
LEMMA PriceDuringSale ==
  ASSUME NEW total \in Nat, NEW start \in Nat, start <= MaxU64, NEW minimum \in Nat,
         minimum <= start, NEW seconds \in Nat, seconds < total
  PROVE  /\ (start - minimum) \div 1000 \in Nat /\ minimum \div 1000 \in Nat
         /\ Remaining((start - minimum) \div 1000, seconds, total) \in Nat
         /\ minimum < 1000 * (minimum \div 1000) + 1000
         /\ 1000 * (minimum \div 1000) <= minimum
         /\ (minimum \div 1000 + Remaining((start - minimum) \div 1000, seconds, total)) * 1000
              <= start
         /\ PriceOverflows(total, (start - minimum) \div 1000, minimum \div 1000, seconds)
              = CurveOverflows(total, (start - minimum) \div 1000, seconds)
         /\ ComputePrice(total, start, minimum, seconds) =
              IF CurveOverflows(total, (start - minimum) \div 1000, seconds)
              THEN minimum \div 1000
              ELSE (minimum \div 1000 + Remaining((start - minimum) \div 1000, seconds, total))
                     * 1000
<1> USE MaxU64Assumption
<1> DEFINE delta == (start - minimum) \div 1000
           end   == minimum \div 1000
           rest  == Remaining(delta, seconds, total)
           flag  == PriceOverflows(total, delta, end, seconds)
<1>1. total \in Nat \ {0} /\ start - minimum \in Nat /\ MaxU64 \in Nat
  OBVIOUS
<1>2. delta \in Nat /\ end \in Nat
  BY <1>1, SMT
<1>3. /\ minimum < 1000 * end + 1000 /\ 1000 * end <= minimum
      /\ 1000 * delta <= start - minimum
  BY <1>1, SMT
<1>4. rest \in Nat /\ rest <= delta
  <2> HIDE DEF delta, rest
  <2> QED BY <1>1, <1>2, RemainingFalls DEF rest
<1>5. rest = CurveLeft(total, delta, seconds)
  BY DEF Remaining, Numerator, Denominator, CurveLeft
<1>6. /\ (end + rest) * 1000 <= start /\ (end + rest) * 1000 <= MaxU64
      /\ end + rest \in Nat /\ end + rest <= MaxU64
  <2> HIDE DEF end, rest, delta
  <2> QED BY <1>1, <1>2, <1>3, <1>4
<1>7. ~AddOverflows(end, rest) /\ ~MultiplyOverflows(end + rest, 1000)
  <2> HIDE DEF end, rest
  <2> QED BY <1>1, <1>2, <1>4, <1>6, ProductNotFlagged DEF AddOverflows
<1>8. flag = CurveOverflows(total, delta, seconds)
  <2> HIDE DEF delta, end, rest
  <2> QED BY <1>5, <1>7 DEF PriceOverflows, CurveOverflows, flag
<1>9. ComputePrice(total, start, minimum, seconds) = IF flag THEN end ELSE (end + rest) * 1000
  <2>1. ComputePrice(total, start, minimum, seconds) =
          IF seconds >= total THEN minimum
          ELSE IF flag THEN end ELSE (end + CurveLeft(total, delta, seconds)) * 1000
    BY DEF ComputePrice
  <2> HIDE DEF delta, end, rest, flag
  <2> QED BY <1>1, <1>5, <2>1
<1>10. ComputePrice(total, start, minimum, seconds) =
         IF CurveOverflows(total, delta, seconds) THEN end ELSE (end + rest) * 1000
  <2> HIDE DEF delta, end, rest, flag
  <2> QED BY <1>8, <1>9
<1> QED
  <2> HIDE DEF delta, end, rest, flag
  <2>1. /\ delta \in Nat /\ end \in Nat /\ rest \in Nat
        /\ minimum < 1000 * end + 1000 /\ 1000 * end <= minimum
        /\ (end + rest) * 1000 <= start
    BY <1>2, <1>3, <1>4, <1>6
  <2>2. ComputePrice(total, start, minimum, seconds) =
          IF CurveOverflows(total, delta, seconds) THEN end ELSE (end + rest) * 1000
    BY <1>10
  <2>3. PriceOverflows(total, delta, end, seconds) = CurveOverflows(total, delta, seconds)
    BY <1>8 DEF flag
  <2> QED BY <2>1, <2>2, <2>3 DEF delta, end, rest

\* A larger amount has a larger quotient by the same divisor.
LEMMA SameDivisor ==
  ASSUME NEW x \in Nat, NEW y \in Nat, NEW d \in Nat \ {0}, x <= y
  PROVE  x \div d <= y \div d
<1>1. d <= d
  OBVIOUS
<1> QED BY <1>1, QuotientMonotone

\* Once the computation overflows, it does at every later second of the sale.
LEMMA OverflowStays ==
  ASSUME NEW total \in Nat \ {0}, NEW delta \in Nat,
         NEW s \in Nat, NEW t \in Nat, s <= t, t < total,
         CurveOverflows(total, delta, s)
  PROVE  CurveOverflows(total, delta, t)
<1> USE MaxU64Assumption
<1> DEFINE k  == 100 * delta
           ks == k * s
           kt == k * t
           bs == 10100 * s
           bt == 10100 * t
<1>1. \/ MultiplyOverflows(k, s) \/ AddOverflows(ks \div total, delta)
      \/ MultiplyOverflows(10100, s) \/ AddOverflows(bs \div total, 101)
  BY DEF CurveOverflows
<1>2. (\/ MultiplyOverflows(k, t) \/ AddOverflows(kt \div total, delta)
       \/ MultiplyOverflows(10100, t) \/ AddOverflows(bt \div total, 101))
        => CurveOverflows(total, delta, t)
  BY DEF CurveOverflows
<1>3. k \in Nat /\ MaxU64 \in Nat /\ 10100 \in Nat
  BY SMT
<1> HIDE DEF k
<1>4. ks \in Nat /\ kt \in Nat /\ ks <= kt /\ bs \in Nat /\ bt \in Nat /\ bs <= bt
  BY <1>3, ProductNat, ProductMonotone
<1>5. MultiplyOverflows(k, s) => MultiplyOverflows(k, t)
  BY <1>3, <1>4, MultiplyFlag
<1>6. MultiplyOverflows(10100, s) => MultiplyOverflows(10100, t)
  BY <1>3, <1>4, MultiplyFlag
<1> HIDE DEF ks, kt, bs, bt
<1>7. ks \div total <= kt \div total /\ bs \div total <= bt \div total
  BY <1>4, SameDivisor
<1> DEFINE qs == ks \div total
           qt == kt \div total
           rs == bs \div total
           rt == bt \div total
<1>8. qs \in Nat /\ qt \in Nat /\ rs \in Nat /\ rt \in Nat /\ qs <= qt /\ rs <= rt
  BY <1>4, <1>7, Division
<1>9. /\ AddOverflows(qs, delta) => AddOverflows(qt, delta)
      /\ AddOverflows(rs, 101) => AddOverflows(rt, 101)
  <2> HIDE DEF qs, qt, rs, rt
  <2> QED BY <1>3, <1>8 DEF AddOverflows
<1> QED
  BY <1>1, <1>2, <1>5, <1>6, <1>9

\* The price is the one of the second, and the curve is that of a configuration.
CurveInv ==
  /\ duration \in Nat /\ elapsed \in Nat
  /\ start_price \in Nat /\ minimum_price \in Nat /\ minimum_price <= start_price
  /\ price = PriceAt(elapsed)
  /\ elapsed < duration =>
       duration \in Durations /\ start_price \in PricesSet /\ minimum_price \in PricesSet

LEMMA CurveInvHolds == ArithmeticSpec => []CurveInv
<1>1. ArithmeticInit => CurveInv
  <2>1. ASSUME Init PROVE CurveInv
    BY <2>1, PriceCurveAssumption DEF Init, CurveInv
  <2>2. ASSUME duration = 0, start_price = 0, minimum_price = 0, elapsed = 1, price = 0
        PROVE  CurveInv
    <3>1. ComputePrice(0, 0, 0, 1) = 0
      BY DEF ComputePrice
    <3> QED BY <2>2, <3>1 DEF CurveInv, PriceAt
  <2> QED BY <2>1, <2>2 DEF ArithmeticInit
<1>2. CurveInv /\ [ArithmeticNext]_<<curve, operands>> => CurveInv'
  <2> SUFFICES ASSUME CurveInv, [ArithmeticNext]_<<curve, operands>> PROVE CurveInv'
    OBVIOUS
  <2>1. CASE UNCHANGED curve
    BY <2>1 DEF CurveInv, curve, PriceAt
  <2>2. CASE Tick
    <3>1. elapsed' = elapsed + 1 /\ price' = PriceAt(elapsed + 1)
          /\ UNCHANGED <<duration, start_price, minimum_price>>
      BY <2>2 DEF Tick
    <3>2. PriceAt(elapsed)' = PriceAt(elapsed + 1)
      BY <3>1 DEF PriceAt
    <3> QED BY <3>1, <3>2 DEF CurveInv
  <2> QED BY <2>1, <2>2 DEF ArithmeticNext, NextOperand, curve
<1> QED
  BY <1>1, <1>2, PTL DEF ArithmeticSpec

\* The curve of the current state, and what the price is on it.
LEMMA CurveOfSale ==
  ASSUME CurveInv, elapsed < duration
  PROVE  /\ duration \in Nat \ {0} /\ elapsed \in Nat
         /\ start_price \in Nat /\ start_price <= MaxU64
         /\ minimum_price \in Nat /\ minimum_price <= start_price
         /\ price = ComputePrice(duration, start_price, minimum_price, elapsed)
  BY PriceCurveAssumption, MaxU64Assumption DEF CurveInv, PriceAt

LEMMA PriceOfSale ==
  ASSUME CurveInv, elapsed < duration
  PROVE  LET delta == (start_price - minimum_price) \div 1000
             end   == minimum_price \div 1000
         IN  /\ delta \in Nat /\ end \in Nat
             /\ price = IF CurveOverflows(duration, delta, elapsed) THEN end
                        ELSE (end + Remaining(delta, elapsed, duration)) * 1000
  BY CurveOfSale, PriceDuringSale

LEMMA OverflowsOnCurve ==
  ASSUME CurveInv, elapsed < duration
  PROVE  Overflows = CurveOverflows(duration, (start_price - minimum_price) \div 1000, elapsed)
<1>1. PriceOverflows(duration, (start_price - minimum_price) \div 1000, minimum_price \div 1000,
                     elapsed)
        = CurveOverflows(duration, (start_price - minimum_price) \div 1000, elapsed)
  BY CurveOfSale, PriceDuringSale
<1> QED BY <1>1 DEF Overflows

\* The price at any second is between the two prices, but for the rounding.
LEMMA PriceBetween ==
  ASSUME CurveInv
  PROVE  PriceInRange
<1>1. CASE elapsed >= duration
  <2>1. price = minimum_price
    BY <1>1 DEF CurveInv, PriceAt, ComputePrice
  <2> QED BY <2>1 DEF CurveInv, PriceInRange
<1>2. CASE elapsed < duration
  <2> DEFINE delta == (start_price - minimum_price) \div 1000
             end   == minimum_price \div 1000
             rest  == Remaining(delta, elapsed, duration)
             flag  == CurveOverflows(duration, delta, elapsed)
  <2>1. /\ minimum_price \in Nat /\ start_price \in Nat
        /\ end \in Nat /\ rest \in Nat
        /\ minimum_price < 1000 * end + 1000 /\ 1000 * end <= minimum_price
        /\ (end + rest) * 1000 <= start_price
        /\ price = IF flag THEN end ELSE (end + rest) * 1000
    BY <1>2, CurveOfSale, PriceDuringSale
  <2>2. Overflows = flag
    BY <1>2, OverflowsOnCurve
  <2>3. CASE flag
    <3>1. price = end
      BY <2>1, <2>3
    <3>2. price <= start_price
      <4> HIDE DEF end, rest, delta, flag
      <4> QED BY <2>1, <3>1
    <3> QED BY <2>2, <2>3, <3>1, <3>2 DEF PriceInRange
  <2>4. CASE ~flag
    <3> HIDE DEF end, rest, delta, flag
    <3> QED BY <2>1, <2>4 DEF PriceInRange
  <2> QED BY <2>3, <2>4
<1> QED
  BY <1>1, <1>2 DEF CurveInv

(***************************************************************************)
(* For prices of a word and sales of any length: compute_price never asks  *)
(* more than the start price, nor less than the minimum price by more than *)
(* 999 lamports, except where it overflows; there the price is a           *)
(* thousandth of the minimum price.                                        *)
(***************************************************************************)
THEOREM PricesStayInRange == ArithmeticSpec => []PriceInRange
<1>1. CurveInv => PriceInRange
  BY PriceBetween
<1> QED
  BY <1>1, CurveInvHolds, PTL

\* What a tick does to the price.
LEMMA PriceFalls ==
  ASSUME CurveInv, CurveInv', Tick
  PROVE  /\ elapsed' < duration => price' <= price
         /\ \/ price' <= price
            \/ price' = minimum_price /\ (price' < price + 1000 \/ Overflows)
<1>1. elapsed' = elapsed + 1 /\ UNCHANGED <<duration, start_price, minimum_price>>
  BY DEF Tick
<1>2. /\ duration \in Nat /\ elapsed \in Nat /\ start_price \in Nat /\ minimum_price \in Nat
      /\ minimum_price <= start_price /\ price = PriceAt(elapsed) /\ price' = PriceAt(elapsed + 1)
  BY DEF CurveInv, Tick
<1>3. CASE elapsed + 1 >= duration
  <2>1. price' = minimum_price
    BY <1>2, <1>3 DEF PriceAt, ComputePrice
  <2>2. price > minimum_price - 1000 \/ Overflows
    BY PriceBetween DEF PriceInRange
  <2>3. price \in Nat
    <3>1. CASE elapsed >= duration
      BY <1>2, <3>1 DEF PriceAt, ComputePrice
    <3>2. CASE elapsed < duration
      <4> DEFINE delta == (start_price - minimum_price) \div 1000
                 end   == minimum_price \div 1000
                 rest  == Remaining(delta, elapsed, duration)
                 flag  == CurveOverflows(duration, delta, elapsed)
      <4>1. end \in Nat /\ rest \in Nat /\ price = IF flag THEN end ELSE (end + rest) * 1000
        BY <3>2, CurveOfSale, PriceDuringSale
      <4> HIDE DEF end, rest, delta, flag
      <4> QED BY <4>1
    <3> QED BY <1>2, <3>1, <3>2
  <2> QED BY <1>1, <1>2, <1>3, <2>1, <2>2, <2>3
<1>4. CASE elapsed + 1 < duration
  <2> DEFINE delta == (start_price - minimum_price) \div 1000
             end   == minimum_price \div 1000
             now   == Remaining(delta, elapsed, duration)
             next  == Remaining(delta, elapsed + 1, duration)
             flag  == CurveOverflows(duration, delta, elapsed)
             later == CurveOverflows(duration, delta, elapsed + 1)
  <2>1. /\ elapsed < duration /\ elapsed + 1 \in Nat /\ elapsed <= elapsed + 1
        /\ duration \in Nat \ {0} /\ start_price <= MaxU64
    BY <1>2, <1>4, CurveOfSale
  <2>2. /\ delta \in Nat /\ end \in Nat
        /\ price = IF flag THEN end ELSE (end + now) * 1000
    BY <2>1, PriceOfSale
  <2>3. ComputePrice(duration, start_price, minimum_price, elapsed + 1) =
          IF later THEN end ELSE (end + next) * 1000
    BY <1>2, <1>4, <2>1, PriceDuringSale
  <2>4. price' = IF later THEN end ELSE (end + next) * 1000
    BY <1>2, <2>3 DEF PriceAt
  <2> HIDE DEF delta, end
  <2>5. next \in Nat /\ now \in Nat /\ next <= now
    BY <1>2, <1>4, <2>1, <2>2, RemainingFalls
  <2>6. flag => later
    BY <1>2, <1>4, <2>1, <2>2, OverflowStays
  <2> HIDE DEF now, next, flag, later
  <2> QED BY <2>2, <2>4, <2>5, <2>6
<1> QED
  BY <1>2, <1>3, <1>4

(***************************************************************************)
(* For prices of a word and sales of any length: the price never rises     *)
(* while the sale lasts.  At its end it rises to the minimum price at      *)
(* most, by 999 lamports unless the computation overflowed (entry.h).      *)
(***************************************************************************)
THEOREM PricesDecay == ArithmeticSpec => PriceDecays
<1> DEFINE Decay == /\ elapsed' < duration => price' <= price
                    /\ \/ price' <= price
                       \/ price' = minimum_price /\ (price' < price + 1000 \/ Overflows)
<1>1. CurveInv /\ CurveInv' /\ [ArithmeticNext]_<<curve, operands>> => [Decay]_curve
  <2> SUFFICES ASSUME CurveInv, CurveInv', [ArithmeticNext]_<<curve, operands>>
               PROVE  Decay \/ UNCHANGED curve
    OBVIOUS
  <2>1. CASE Tick
    BY <2>1, PriceFalls
  <2> QED BY <2>1 DEF ArithmeticNext, NextOperand, curve
<1> QED
  BY <1>1, CurveInvHolds, PTL DEF ArithmeticSpec, PriceDecays

-----------------------------------------------------------------------------
(***************************************************************************)
(* Harvests.                                                               *)
(***************************************************************************)

\* Up to KiLimit, nothing wraps around.
LEMMA ReducedExact ==
  ASSUME NEW x \in Nat, x <= KiLimit, x * KiLimit <= MaxU64, 10 <= KiDivisor
  PROVE  /\ x * KiLimit - SquareOver(x) * SquareOver(x) \in Nat
         /\ ReducedKi(x) = ((x * KiLimit - SquareOver(x) * SquareOver(x)) \div KiDivisor) * 10
<1>0. KiLimit \in Nat \ {0} /\ KiDivisor \in Nat \ {0} /\ MaxU64 \in Nat
  BY KiAssumption, MaxU64Assumption
<1> DEFINE q == SquareOver(x)
           n == x * KiLimit
           m == q * q
<1>1. q \in Nat /\ m \in Nat /\ n \in Nat /\ m <= n /\ n <= MaxU64
  BY SquareFits
<1>2. Multiply(x, KiLimit) = n
  BY <1>0, MultiplyExact
<1>3. Multiply(q, q) = m
  <2> HIDE DEF q, n
  <2>1. q * q <= MaxU64
    BY <1>0, <1>1 DEF m
  <2> QED BY <1>1, <2>1, MultiplyExact DEF m
<1>4. Subtract(Multiply(x, KiLimit), Multiply(q, q)) = n - m
  BY <1>1, <1>2, <1>3 DEF Subtract
<1> DEFINE g == (n - m) \div KiDivisor
<1> HIDE DEF n, m, q
<1>5. n - m \in Nat /\ n - m <= MaxU64
  BY <1>0, <1>1
<1>6. g \in Nat /\ g * 10 <= n - m
  <2> DEFINE d == n - m
             r == d % KiDivisor
  <2>1. d \in Nat /\ g = d \div KiDivisor
    BY <1>5
  <2> HIDE DEF d, g
  <2>2. g \in Nat /\ r \in 0..KiDivisor-1 /\ d = KiDivisor * g + r
    BY <1>0, <2>1, Division
  <2> HIDE DEF r
  <2>3. g * 10 <= g * KiDivisor /\ g * KiDivisor = KiDivisor * g /\ KiDivisor * g \in Nat
    BY <1>0, <2>2, ProductMonotone, ProductNat, SMT
  <2>4. g * 10 <= d
    BY <2>1, <2>2, <2>3
  <2> QED BY <2>2, <2>4 DEF d
<1> HIDE DEF g
<1>7. Multiply(g, 10) = g * 10
  <2>1. g * 10 <= MaxU64
    BY <1>0, <1>5, <1>6
  <2> QED BY <1>6, <2>1, MultiplyExact
<1>8. ReducedKi(x) = Multiply(g, 10)
  BY <1>4 DEF ReducedKi, q, g
<1> QED
  BY <1>5, <1>7, <1>8 DEF g, n, m, q

\* Quotients of parts are at most the quotient of the sum, and one less at most.
LEMMA QuotientOfSum ==
  ASSUME NEW a \in Nat, NEW b \in Nat, NEW d \in Nat \ {0}
  PROVE  /\ a \div d + b \div d <= (a + b) \div d
         /\ (a + b) \div d <= a \div d + b \div d + 1
<1> DEFINE p == a \div d
           q == b \div d
           s == (a + b) \div d
<1>1. /\ p \in Nat /\ a % d \in 0..d-1 /\ a = d * p + (a % d)
      /\ q \in Nat /\ b % d \in 0..d-1 /\ b = d * q + (b % d)
  BY Division
<1>2. s \in Nat /\ (a + b) % d \in 0..d-1 /\ a + b = d * s + ((a + b) % d)
  BY a + b \in Nat, Division
<1> HIDE DEF p, q, s
<1>3. d * (p + q) = d * p + d * q /\ d * (p + q + 2) = d * p + d * q + 2 * d
      /\ d * p \in Nat /\ d * q \in Nat /\ d * s \in Nat /\ d * (s + 1) = d * s + d
  BY <1>1, <1>2, ProductNat, SMT
<1>4. ASSUME s + 1 <= p + q PROVE FALSE
  <2>1. d * (s + 1) <= d * (p + q)
    BY <1>1, <1>2, <1>4, ProductMonotone
  <2> QED BY <1>1, <1>2, <1>3, <2>1
<1>5. ASSUME p + q + 2 <= s PROVE FALSE
  <2>1. d * (p + q + 2) <= d * s
    BY <1>1, <1>2, <1>5, ProductMonotone
  <2> QED BY <1>1, <1>2, <1>3, <2>1
<1> QED
  BY <1>1, <1>2, <1>4, <1>5 DEF p, q, s

(***************************************************************************)
(* Whoever harvests Ki in two parts gets at least as many tokens, but for  *)
(* the rounding of one Ki, as who harvests it all at once.  This is for    *)
(* harvests up to KiLimit whose product with KiLimit is a word: in the     *)
(* program, where KiLimit is 106666, all harvests of at most 106666 Ki.    *)
(***************************************************************************)
THEOREM HarvestInParts ==
  ASSUME NEW x \in Nat, NEW y \in Nat,
         x + y <= KiLimit, (x + y) * KiLimit <= MaxU64, 10 <= KiDivisor
  PROVE  ReducedKi(x) + ReducedKi(y) + 10 >= ReducedKi(x + y)
<1>0. KiLimit \in Nat \ {0} /\ KiDivisor \in Nat \ {0} /\ MaxU64 \in Nat
  BY KiAssumption, MaxU64Assumption
<1> DEFINE z  == x + y
           qx == SquareOver(x)
           qy == SquareOver(y)
           qz == SquareOver(z)
           nx == x * KiLimit - qx * qx
           ny == y * KiLimit - qy * qy
           nz == z * KiLimit - qz * qz
<1>1. z \in Nat /\ x <= KiLimit /\ y <= KiLimit /\ z <= KiLimit
  BY <1>0
<1>2. /\ z * KiLimit = x * KiLimit + y * KiLimit
      /\ x * KiLimit \in Nat /\ y * KiLimit \in Nat
      /\ x * KiLimit <= MaxU64 /\ y * KiLimit <= MaxU64 /\ z * KiLimit <= MaxU64
  <2>1. z * KiLimit = x * KiLimit + y * KiLimit
    BY <1>0, SMT
  <2>2. x * KiLimit \in Nat /\ y * KiLimit \in Nat
    BY <1>0, ProductNat
  <2> QED BY <1>0, <2>1, <2>2
<1> HIDE DEF z
<1>3. /\ qx \in Nat /\ qx = (x * x) \div KiLimit /\ qx * qx \in Nat
      /\ qy \in Nat /\ qy = (y * y) \div KiLimit /\ qy * qy \in Nat
      /\ qz \in Nat /\ qz = (z * z) \div KiLimit /\ qz * qz \in Nat
  BY <1>1, <1>2, SquareFits
<1>4. qx + qy <= qz
  <2> DEFINE sx == x * x
             sy == y * y
  <2>1. sx \in Nat /\ sy \in Nat /\ sx + sy \in Nat /\ z * z \in Nat /\ sx + sy <= z * z
    <3>1. sx \in Nat /\ sy \in Nat /\ x * y \in Nat
      BY ProductNat
    <3>2. z * z = x * x + y * y + 2 * (x * y)
      BY SMT DEF z
    <3> QED BY <3>1, <3>2
  <2> HIDE DEF sx, sy
  <2>2. sx \div KiLimit + sy \div KiLimit <= (sx + sy) \div KiLimit
    BY <1>0, <2>1, QuotientOfSum
  <2>3. (sx + sy) \div KiLimit <= (z * z) \div KiLimit
    BY <1>0, <2>1, QuotientMonotone
  <2>4. (sx + sy) \div KiLimit \in Nat
    BY <1>0, <2>1, Division
  <2> HIDE DEF qx, qy, qz
  <2>5. qx = sx \div KiLimit /\ qy = sy \div KiLimit
    BY <1>3 DEF sx, sy
  <2> QED BY <1>3, <2>2, <2>3, <2>4, <2>5
<1> HIDE DEF qx, qy, qz
<1>5. qx * qx + qy * qy <= qz * qz
  <2>1. /\ (qx + qy) * (qx + qy) = qx * qx + qy * qy + 2 * (qx * qy)
        /\ qx * qy \in Nat /\ (qx + qy) * (qx + qy) \in Nat
    BY <1>3, ProductNat, SMT
  <2>2. qx + qy \in Nat
    BY <1>3
  <2> DEFINE w == qx + qy
  <2>3. w * w <= w * qz /\ qz * w <= qz * qz /\ w * qz = qz * w /\ w * qz \in Nat /\ w * w \in Nat
    <3> HIDE DEF w
    <3>1. w \in Nat /\ w <= qz
      BY <1>3, <1>4, <2>2 DEF w
    <3> QED BY <1>3, <3>1, ProductMonotone, ProductNat, SMT
  <2>4. w * w <= qz * qz
    <3> HIDE DEF w
    <3> QED BY <1>3, <2>3
  <2> QED BY <1>3, <2>1, <2>4
<1>6. /\ nx \in Nat /\ ReducedKi(x) = (nx \div KiDivisor) * 10
      /\ ny \in Nat /\ ReducedKi(y) = (ny \div KiDivisor) * 10
      /\ nz \in Nat /\ ReducedKi(z) = (nz \div KiDivisor) * 10
  BY <1>1, <1>2, ReducedExact DEF qx, qy, qz
<1>7. nz <= nx + ny
  BY <1>2, <1>3, <1>5
<1> HIDE DEF nx, ny, nz
<1>8. nz \div KiDivisor <= (nx \div KiDivisor) + (ny \div KiDivisor) + 1
  <2>1. nz \div KiDivisor <= (nx + ny) \div KiDivisor
    <3> DEFINE n == nx + ny
    <3>1. n \in Nat /\ nz <= n /\ nz \in Nat
      BY <1>6, <1>7
    <3> HIDE DEF n
    <3>2. nz \div KiDivisor <= n \div KiDivisor
      BY <1>0, <3>1, KiDivisor <= KiDivisor, QuotientMonotone
    <3> QED BY <3>2 DEF n
  <2>2. (nx + ny) \div KiDivisor <= (nx \div KiDivisor) + (ny \div KiDivisor) + 1
    BY <1>0, <1>6, QuotientOfSum
  <2>3. nz \div KiDivisor \in Nat /\ (nx + ny) \div KiDivisor \in Nat
        /\ nx \div KiDivisor \in Nat /\ ny \div KiDivisor \in Nat
    BY <1>0, <1>6, nx + ny \in Nat, Division
  <2> QED BY <2>1, <2>2, <2>3
<1>9. nx \div KiDivisor \in Nat /\ ny \div KiDivisor \in Nat /\ nz \div KiDivisor \in Nat
  BY <1>0, <1>6, Division
<1>10. ReducedKi(x) + ReducedKi(y) + 10 >= ReducedKi(z)
  BY <1>6, <1>8, <1>9
<1> QED
  BY <1>10 DEF z

(***************************************************************************)
(* The pairs of harvests of the run are among them.                        *)
(***************************************************************************)
THEOREM LargeHarvestsAreDiscouraged ==
  ASSUME 10 <= KiDivisor,
         2 * (KiStep * (Word - 1)) <= KiLimit,
         (2 * (KiStep * (Word - 1))) * KiLimit <= MaxU64
  PROVE  ArithmeticSpec => []LargeHarvestsDiscouraged
<1>1. ASSUME OperandsInv PROVE LargeHarvestsDiscouraged
  <2> DEFINE w == Word - 1
             x == KiStep * first
             y == KiStep * second
             b == 2 * (KiStep * w)
  <2>0. /\ KiStep \in Nat /\ w \in Nat /\ KiLimit \in Nat /\ MaxU64 \in Nat
        /\ first \in Nat /\ second \in Nat /\ first <= w /\ second <= w
    <3>1. Word \in Nat \ {0}
      BY HalfAssumption, SMT DEF Word
    <3> QED BY <1>1, <3>1, KiStepAssumption, KiAssumption, MaxU64Assumption DEF OperandsInv
  <2>1. b <= KiLimit /\ b * KiLimit <= MaxU64
    OBVIOUS
  <2> HIDE DEF w
  <2>2. /\ x \in Nat /\ y \in Nat /\ KiStep * w \in Nat
        /\ x <= KiStep * w /\ y <= KiStep * w
    BY <2>0, ProductNat, ProductMonotone
  <2>3. KiStep * (first + second) = x + y
    BY <2>0, SMT
  <2> DEFINE k == KiStep * w
  <2> HIDE DEF x, y, k
  <2>4. x + y \in Nat /\ x + y <= b /\ b \in Nat
    BY <2>2 DEF k
  <2> HIDE DEF b
  <2>5. (x + y) * KiLimit <= MaxU64
    <3>1. KiLimit * (x + y) <= KiLimit * b
      BY <2>0, <2>4, ProductMonotone
    <3>2. KiLimit * (x + y) = (x + y) * KiLimit /\ KiLimit * b = b * KiLimit
          /\ (x + y) * KiLimit \in Nat /\ b * KiLimit \in Nat
      BY <2>0, <2>4, ProductNat, SMT
    <3> QED BY <2>0, <2>1, <3>1, <3>2
  <2>6. ReducedKi(x) + ReducedKi(y) + 10 >= ReducedKi(x + y)
    <3>1. x + y <= KiLimit
      BY <2>0, <2>1, <2>4
    <3> QED BY <2>2, <2>5, <3>1, HarvestInParts
  <2> QED
    BY <2>3, <2>6 DEF LargeHarvestsDiscouraged, x, y
<1> QED
  BY <1>1, OperandsInvHolds, PTL
=============================================================================
