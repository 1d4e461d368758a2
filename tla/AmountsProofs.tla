---------------------------- MODULE AmountsProofs ---------------------------
(***************************************************************************)
(* What SumTo computes, for every number of summands, and the prices that  *)
(* the curves of user_buy.c and user_bid.c can give, for every word size   *)
(* and whether or not the computation overflows.                           *)
(*                                                                         *)
(* The induction on sums is over a set of naturals (SetInduction), which   *)
(* is proved from the well-foundedness of < on Nat.                        *)
(***************************************************************************)
EXTENDS Prices, Sums, WellFoundedInduction, TLAPS

NatLess == {p \in Nat \X Nat : p[1] < p[2]}

\* No infinite descending chain of naturals.
LEMMA NatLessWellFounded == IsWellFoundedOn(NatLess, Nat)
<1>1. NatLess = OpToRel(<, Nat)
  BY DEF NatLess, OpToRel
<1> QED
  BY <1>1, NatLessThanWellFounded

\* A set of naturals that holds 0 and is closed under successor is Nat.
LEMMA SetInduction ==
  ASSUME NEW S \in SUBSET Nat, 0 \in S, \A n \in S : n + 1 \in S
  PROVE  S = Nat
<1> SUFFICES ASSUME Nat \ S # {} PROVE FALSE
  OBVIOUS
<1>1. PICK x \in Nat \ S : \A y \in Nat \ S : ~ (<<y, x>> \in NatLess)
  BY NatLessWellFounded, WFMin
<1>2. x # 0
  OBVIOUS
<1>3. x - 1 \in Nat
  BY <1>2
<1>4. <<x - 1, x>> \in NatLess
  BY <1>3 DEF NatLess
<1>5. x - 1 \in S
  BY <1>1, <1>3, <1>4
<1>6. (x - 1) + 1 = x
  BY <1>3
<1>7. (x - 1) + 1 \in S
  BY <1>5
<1> QED
  BY <1>6, <1>7

-----------------------------------------------------------------------------

\* g holds the partial sums of f up to n.
PartialSums(g, f, n) ==
  g = [i \in 0..n |-> IF i = 0 THEN 0 ELSE g[i-1] + f[i-1]]

\* The partial sums of natural amounts exist and are natural.
LEMMA PartialSumsExist ==
  ASSUME NEW N \in Nat, NEW f \in [0..(N-1) -> Nat]
  PROVE  \E g \in [0..N -> Nat] : PartialSums(g, f, N)
<1> DEFINE S == {n \in Nat : n <= N => \E g \in [0..n -> Nat] : PartialSums(g, f, n)}
<1>1. 0 \in S
  <2>1. [i \in 0..0 |-> 0] \in [0..0 -> Nat]
    OBVIOUS
  <2>2. PartialSums([i \in 0..0 |-> 0], f, 0)
    BY DEF PartialSums
  <2> QED
    BY <2>1, <2>2
<1>2. ASSUME NEW n \in S PROVE n + 1 \in S
  <2> SUFFICES ASSUME n + 1 <= N
               PROVE  \E g \in [0..(n+1) -> Nat] : PartialSums(g, f, n+1)
    OBVIOUS
  <2>0. n \in Nat /\ n <= N /\ n \in 0..(N-1)
    OBVIOUS
  <2>1. PICK g \in [0..n -> Nat] : PartialSums(g, f, n)
    BY <2>0
  <2> DEFINE h == [i \in 0..(n+1) |-> IF i = n + 1 THEN g[n] + f[n] ELSE g[i]]
  <2>2. h \in [0..(n+1) -> Nat]
    BY <2>0
  <2>3. ASSUME NEW i \in 0..(n+1)
        PROVE  h[i] = IF i = 0 THEN 0 ELSE h[i-1] + f[i-1]
    <3>1. CASE i = n + 1
      BY <2>0, <3>1
    <3>2. CASE i # n + 1
      <4>1. i \in 0..n /\ h[i] = g[i]
        BY <2>0, <3>2
      <4>2. g[i] = IF i = 0 THEN 0 ELSE g[i-1] + f[i-1]
        BY <2>1, <4>1 DEF PartialSums
      <4>3. i # 0 => h[i-1] = g[i-1]
        BY <2>0, <4>1
      <4> QED
        BY <4>1, <4>2, <4>3
    <3> QED
      BY <3>1, <3>2
  <2>4. PartialSums(h, f, n + 1)
    BY <2>3 DEF PartialSums
  <2> QED
    BY <2>2, <2>4
<1> HIDE DEF S
<1>3. S = Nat
  BY <1>1, <1>2, SetInduction DEF S
<1>4. N \in S
  BY <1>3
<1> QED
  BY <1>4 DEF S

\* The partial sums are unique, whatever their domain of values.
LEMMA PartialSumsUnique ==
  ASSUME NEW N \in Nat, NEW f, NEW g, NEW h,
         PartialSums(g, f, N), PartialSums(h, f, N)
  PROVE  g = h
<1> DEFINE S == {n \in Nat : n <= N => g[n] = h[n]}
<1>1. 0 \in S
  BY DEF PartialSums
<1>2. ASSUME NEW n \in S PROVE n + 1 \in S
  <2> SUFFICES ASSUME n + 1 <= N
               PROVE  g[n+1] = h[n+1]
    OBVIOUS
  <2>1. n \in Nat /\ n <= N /\ n + 1 \in 0..N /\ n + 1 # 0 /\ (n + 1) - 1 = n
    OBVIOUS
  <2>2. g[n] = h[n]
    BY <2>1
  <2>3. g[n+1] = g[n] + f[n]
    BY <2>1 DEF PartialSums
  <2>4. h[n+1] = h[n] + f[n]
    BY <2>1 DEF PartialSums
  <2> QED
    BY <2>2, <2>3, <2>4
<1> HIDE DEF S
<1>3. S = Nat
  BY <1>1, <1>2, SetInduction DEF S
<1>4. \A n \in 0..N : g[n] = h[n]
  BY <1>3 DEF S
<1> QED
  BY <1>4 DEF PartialSums

\* SumTo(f, N) is the last of the partial sums.
LEMMA SumToIsPartialSum ==
  ASSUME NEW N \in Nat, NEW f, NEW h, PartialSums(h, f, N)
  PROVE  SumTo(f, N) = h[N]
<1> DEFINE total == CHOOSE g : PartialSums(g, f, N)
<1>1. PartialSums(total, f, N)
  OBVIOUS
<1>2. SumTo(f, N) = total[N]
  BY DEF SumTo, PartialSums
<1> HIDE DEF total
<1>3. total = h
  BY <1>1, PartialSumsUnique
<1> QED
  BY <1>2, <1>3

\* The total of natural amounts is natural.
LEMMA SumToNat ==
  ASSUME NEW N \in Nat, NEW f \in [0..(N-1) -> Nat]
  PROVE  SumTo(f, N) \in Nat
<1>1. PICK h \in [0..N -> Nat] : PartialSums(h, f, N)
  BY PartialSumsExist
<1>2. SumTo(f, N) = h[N]
  BY <1>1, SumToIsPartialSum
<1> QED
  BY <1>2

\* The sum of two families of amounts is the sum of their totals.
LEMMA SumToAdd ==
  ASSUME NEW N \in Nat,
         NEW f \in [0..(N-1) -> Nat], NEW g \in [0..(N-1) -> Nat],
         NEW h \in [0..(N-1) -> Nat],
         \A i \in 0..(N-1) : f[i] = g[i] + h[i]
  PROVE  SumTo(f, N) = SumTo(g, N) + SumTo(h, N)
<1>1. PICK pg \in [0..N -> Nat] : PartialSums(pg, g, N)
  BY PartialSumsExist
<1>2. PICK ph \in [0..N -> Nat] : PartialSums(ph, h, N)
  BY PartialSumsExist
<1> DEFINE pf == [i \in 0..N |-> pg[i] + ph[i]]
<1>3. ASSUME NEW i \in 0..N
      PROVE  pf[i] = IF i = 0 THEN 0 ELSE pf[i-1] + f[i-1]
  <2>1. pg[i] = IF i = 0 THEN 0 ELSE pg[i-1] + g[i-1]
    BY <1>1 DEF PartialSums
  <2>2. ph[i] = IF i = 0 THEN 0 ELSE ph[i-1] + h[i-1]
    BY <1>2 DEF PartialSums
  <2>3. CASE i = 0
    BY <2>1, <2>2, <2>3
  <2>4. CASE i # 0
    <3>1. i - 1 \in 0..(N-1) /\ i - 1 \in 0..N
      BY <2>4
    <3>2. f[i-1] = g[i-1] + h[i-1]
      BY <3>1
    <3>3. /\ pg[i-1] \in Nat /\ ph[i-1] \in Nat
          /\ g[i-1] \in Nat /\ h[i-1] \in Nat
      BY <3>1
    <3>4. pf[i-1] = pg[i-1] + ph[i-1] /\ pf[i] = pg[i] + ph[i]
      BY <3>1
    <3>5. pg[i] = pg[i-1] + g[i-1] /\ ph[i] = ph[i-1] + h[i-1]
      BY <2>1, <2>2, <2>4
    <3> HIDE DEF pf
    <3>6. \A a, b, c, d \in Nat : (a + b) + (c + d) = (a + c) + (b + d)
      OBVIOUS
    <3>7. (pg[i-1] + g[i-1]) + (ph[i-1] + h[i-1])
            = (pg[i-1] + ph[i-1]) + (g[i-1] + h[i-1])
      BY <3>3, <3>6
    <3>8. pf[i] = pf[i-1] + f[i-1]
      BY <3>2, <3>4, <3>5, <3>7
    <3> QED
      BY <2>4, <3>8
  <2> QED
    BY <2>3, <2>4
<1>4. PartialSums(pf, f, N)
  BY <1>3 DEF PartialSums
<1>5. SumTo(f, N) = pf[N]
  BY <1>4, SumToIsPartialSum
<1>6. SumTo(g, N) = pg[N] /\ SumTo(h, N) = ph[N]
  BY <1>1, <1>2, SumToIsPartialSum
<1> QED
  BY <1>5, <1>6

\* When only the amount at k differs from 0, it is the total.
LEMMA SumToSingle ==
  ASSUME NEW N \in Nat, NEW k \in 0..(N-1), NEW v \in Nat
  PROVE  SumTo([i \in 0..(N-1) |-> IF i = k THEN v ELSE 0], N) = v
<1> DEFINE f == [i \in 0..(N-1) |-> IF i = k THEN v ELSE 0]
           p == [i \in 0..N |-> IF i > k THEN v ELSE 0]
<1>1. ASSUME NEW i \in 0..N
      PROVE  p[i] = IF i = 0 THEN 0 ELSE p[i-1] + f[i-1]
  OBVIOUS
<1>2. PartialSums(p, f, N)
  BY <1>1 DEF PartialSums
<1>3. SumTo(f, N) = p[N]
  BY <1>2, SumToIsPartialSum
<1> QED
  BY <1>3

\* The total of no amounts at all.
LEMMA SumToZero ==
  ASSUME NEW N \in Nat, NEW f, \A i \in 0..(N-1) : f[i] = 0
  PROVE  SumTo(f, N) = 0
<1> DEFINE p == [i \in 0..N |-> 0]
<1>1. ASSUME NEW i \in 0..N
      PROVE  p[i] = IF i = 0 THEN 0 ELSE p[i-1] + f[i-1]
  OBVIOUS
<1>2. PartialSums(p, f, N)
  BY <1>1 DEF PartialSums
<1> QED
  BY <1>2, SumToIsPartialSum

\* When only the amount at k changes, the total changes by as much.
LEMMA SumToUpdate ==
  ASSUME NEW N \in Nat, NEW k \in 0..(N-1),
         NEW f \in [0..(N-1) -> Nat], NEW g \in [0..(N-1) -> Nat],
         \A i \in 0..(N-1) : i # k => f[i] = g[i]
  PROVE  SumTo(f, N) + g[k] = SumTo(g, N) + f[k]
<1> DEFINE rest == [i \in 0..(N-1) |-> IF i = k THEN 0 ELSE f[i]]
           fk   == [i \in 0..(N-1) |-> IF i = k THEN f[k] ELSE 0]
           gk   == [i \in 0..(N-1) |-> IF i = k THEN g[k] ELSE 0]
<1>1. /\ rest \in [0..(N-1) -> Nat] /\ fk \in [0..(N-1) -> Nat] /\ gk \in [0..(N-1) -> Nat]
      /\ f[k] \in Nat /\ g[k] \in Nat
  OBVIOUS
<1>2. \A i \in 0..(N-1) : f[i] = rest[i] + fk[i] /\ g[i] = rest[i] + gk[i]
  OBVIOUS
<1>3. SumTo(fk, N) = f[k] /\ SumTo(gk, N) = g[k]
  BY <1>1, SumToSingle
<1> HIDE DEF rest, fk, gk
<1>4. SumTo(f, N) = SumTo(rest, N) + SumTo(fk, N)
  BY <1>1, <1>2, SumToAdd
<1>5. SumTo(g, N) = SumTo(rest, N) + SumTo(gk, N)
  BY <1>1, <1>2, SumToAdd
<1>6. SumTo(rest, N) \in Nat
  BY <1>1, SumToNat
<1> QED
  BY <1>1, <1>3, <1>4, <1>5, <1>6

\* Amounts that are smaller, one by one, have a smaller total.
LEMMA SumToMonotone ==
  ASSUME NEW N \in Nat, NEW f \in [0..(N-1) -> Nat], NEW g \in [0..(N-1) -> Nat],
         \A i \in 0..(N-1) : f[i] <= g[i]
  PROVE  SumTo(f, N) <= SumTo(g, N)
<1> DEFINE d == [i \in 0..(N-1) |-> g[i] - f[i]]
<1>1. d \in [0..(N-1) -> Nat] /\ \A i \in 0..(N-1) : g[i] = f[i] + d[i]
  OBVIOUS
<1> HIDE DEF d
<1>2. SumTo(g, N) = SumTo(f, N) + SumTo(d, N)
  BY <1>1, SumToAdd
<1> QED
  BY <1>1, <1>2, SumToNat

-----------------------------------------------------------------------------
(***************************************************************************)
(* A part of an amount, taken by a multiplication and then a division, is  *)
(* not more than the amount.                                               *)
(***************************************************************************)
LEMMA PartOf ==
  ASSUME NEW a \in Nat, NEW s \in Nat, NEW T \in Nat, s < T
  PROVE  (a * s) \div T \in Nat /\ (a * s) \div T <= a
<1>1. a * s \in Nat /\ T > 0
  BY SMT
<1> DEFINE q == (a * s) \div T
<1>2. q \in Nat /\ q * T <= a * s
  BY <1>1, SMT
<1>3. a * s <= a * T
  BY SMT
<1>4. q * T <= a * T
  BY <1>2, <1>3, <1>1, SMT
<1>5. q <= a
  <2> HIDE DEF q
  <2> QED BY <1>2, <1>4, <1>1, SMT
<1> QED BY <1>2, <1>5

(***************************************************************************)
(* The price is never zero, which would make a sale invisible: an entry is *)
(* purchased if its purchase price is not 0 (util_entry.c).  It is enough  *)
(* that the end price is at least 1000 lamports, since the computation is  *)
(* in thousands and an overflow yields a thousandth of the end price.      *)
(***************************************************************************)
THEOREM PriceIsPositive ==
  ASSUME NEW total_seconds \in Nat, NEW start_price \in Nat, NEW end_price \in Nat,
         NEW seconds_elapsed \in Nat,
         end_price >= 1000,
         total_seconds > 0 => start_price >= end_price
  PROVE  ComputePrice(total_seconds, start_price, end_price, seconds_elapsed) \in Nat \ {0}
<1> DEFINE delta == (start_price - end_price) \div 1000
           end   == end_price \div 1000
           ab    == ((100 * delta * seconds_elapsed) \div total_seconds) + delta
           bc    == ((10100 * seconds_elapsed) \div total_seconds) + 101
           curve == (delta * 101 - ab) \div bc
<1>1. CASE seconds_elapsed >= total_seconds
  BY <1>1, SMT DEF ComputePrice
<1>2. CASE seconds_elapsed < total_seconds
  <2>1. end \in Nat /\ end >= 1
    BY SMT
  <2>2. delta \in Nat
    BY <1>2, SMT
  <2>3. 100 * delta \in Nat
    BY <2>2, SMT
  <2>4. /\ ((100 * delta) * seconds_elapsed) \div total_seconds \in Nat
        /\ ((100 * delta) * seconds_elapsed) \div total_seconds <= 100 * delta
    <3> HIDE DEF delta
    <3> QED BY <1>2, <2>3, PartOf
  <2>5. (10100 * seconds_elapsed) \div total_seconds \in Nat
    BY <1>2, PartOf
  <2>6. delta * 101 - ab \in Nat
    <3> HIDE DEF delta
    <3> QED BY <2>2, <2>4, SMT
  <2>7. bc \in Nat /\ bc > 0
    BY <2>5, SMT
  <2>8. curve \in Nat
    <3> HIDE DEF ab, bc
    <3> QED BY <2>2, <2>6, <2>7, SMT
  <2>9. end + curve \in Nat /\ end + curve >= 1
    <3> HIDE DEF end, curve
    <3> QED BY <2>1, <2>8, SMT
  <2>10. (end + curve) * 1000 \in Nat \ {0}
    <3> HIDE DEF end, curve
    <3> QED BY <2>1, <2>8, SMT
  <2>11. \/ ComputePrice(total_seconds, start_price, end_price, seconds_elapsed) = end
         \/ ComputePrice(total_seconds, start_price, end_price, seconds_elapsed)
              = (end + curve) * 1000
    BY <1>2 DEF ComputePrice, CurveLeft
  <2> QED
    <3> HIDE DEF end, curve
    <3> QED BY <2>1, <2>10, <2>11, SMT
<1> QED BY <1>1, <1>2, SMT

-----------------------------------------------------------------------------
(***************************************************************************)
(* A factor of 1.01 is enough to raise an amount of 100, although the      *)
(* product is rounded down.                                                *)
(***************************************************************************)
LEMMA OnePercentMore ==
  ASSUME NEW p \in Nat, NEW factor \in Nat, p >= 100, factor >= 101000
  PROVE  (p * factor) \div 100000 \in Nat /\ (p * factor) \div 100000 > p
<1>1. p * factor \in Nat
  BY SMT
<1>2. p * factor >= p * 101000
  BY SMT
<1>3. p * factor >= (p + 1) * 100000
  BY <1>1, <1>2, SMT
<1> DEFINE product == p * factor
<1>4. product \in Nat /\ product >= (p + 1) * 100000
  BY <1>1, <1>3
<1> HIDE DEF product
<1>5. product \div 100000 \in Nat /\ product \div 100000 > p
  BY <1>4, SMT
<1> QED BY <1>5 DEF product

(***************************************************************************)
(* The factor of the curve: its divisor is never zero, and it is at least  *)
(* 1.01 (in units of 1/100000) at any moment of an auction.                *)
(***************************************************************************)
LEMMA FactorOfCurve ==
  ASSUME NEW b \in Nat, NEW a \in Nat, a < b
  PROVE  /\ ((1000 * b) \div ((b + (b \div 100)) - a)) + 101000 \in Nat
         /\ ((1000 * b) \div ((b + (b \div 100)) - a)) + 101000 >= 101000
<1> DEFINE divisor == (b + (b \div 100)) - a
<1>1. b \div 100 \in Nat
  BY SMT
<1>2. divisor \in Nat /\ divisor > 0
  BY <1>1, SMT
<1> HIDE DEF divisor
<1>3. (1000 * b) \div divisor \in Nat
  BY <1>2, SMT
<1>4. /\ ((1000 * b) \div divisor) + 101000 \in Nat
      /\ ((1000 * b) \div divisor) + 101000 >= 101000
  BY <1>3, SMT
<1> QED BY <1>4 DEF divisor

(***************************************************************************)
(* compute_minimum_bid: whatever the highest bid and the time, the least   *)
(* bid that is accepted is more than the highest bid, and at least the     *)
(* price of the entry; only when nothing is more than the highest bid it   *)
(* is 0.  It holds on the curve and on both fallbacks for overflows.  (An  *)
(* entry costs at least the rent of a bid account: admin_create_block.)    *)
(***************************************************************************)
THEOREM MinimumBidBeatsHighest ==
  ASSUME NEW auction_duration \in Nat \ {0}, NEW initial_minimum_bid \in Nat,
         NEW current_max_bid \in Nat, NEW seconds_elapsed \in Nat,
         initial_minimum_bid >= 100,
         ComputeMinimumBid(auction_duration, initial_minimum_bid, current_max_bid,
                           seconds_elapsed) # 0,
         current_max_bid <= MaxU64
  PROVE  LET minimum == ComputeMinimumBid(auction_duration, initial_minimum_bid,
                                          current_max_bid, seconds_elapsed)
         IN  /\ minimum \in Nat
             /\ minimum > current_max_bid
             /\ minimum >= initial_minimum_bid
<1> DEFINE minimum == ComputeMinimumBid(auction_duration, initial_minimum_bid,
                                        current_max_bid, seconds_elapsed)
           a       == IF seconds_elapsed >= auction_duration THEN auction_duration - 1
                                                             ELSE seconds_elapsed
           b       == auction_duration
           p       == current_max_bid
           factor  == ((1000 * b) \div ((b + (b \div 100)) - a)) + 101000
           eighth  == p \div 8
<1>1. a \in Nat /\ a < b
  BY SMT
<1>2. factor \in Nat /\ factor >= 101000
  <2> HIDE DEF a
  <2> QED BY <1>1, FactorOfCurve
<1>3. minimum = IF p = MaxU64 THEN 0
                ELSE IF p < initial_minimum_bid THEN initial_minimum_bid
                ELSE IF ~MultiplyOverflows(p, factor) THEN (p * factor) \div 100000
                ELSE IF ~AddOverflows(p, eighth) THEN p + eighth
                ELSE MaxU64
  BY DEF ComputeMinimumBid
<1>4. minimum # 0
  OBVIOUS
<1> HIDE DEF minimum, a, factor
<1>5. CASE p < initial_minimum_bid
  BY <1>3, <1>4, <1>5, SMT DEF minimum
<1>6. CASE p >= initial_minimum_bid
  <2>1. p >= 100 /\ p < MaxU64 /\ MaxU64 \in Nat
    BY <1>3, <1>4, <1>6, MaxU64Assumption, SMT
  <2>2. (p * factor) \div 100000 \in Nat /\ (p * factor) \div 100000 > p
    BY <1>2, <2>1, OnePercentMore
  <2>3. p + eighth \in Nat /\ p + eighth > p
    BY <2>1, SMT
  <2>4. \/ minimum = (p * factor) \div 100000
        \/ minimum = p + eighth
        \/ minimum = MaxU64
    <3> HIDE DEF eighth
    <3> QED BY <1>3, <1>6, <2>1, SMT
  <2>5. minimum \in Nat /\ minimum > p
    <3> DEFINE raised == (p * factor) \div 100000
               more == p + eighth
    <3> HIDE DEF raised, more
    <3>1. raised \in Nat /\ raised > p /\ more \in Nat /\ more > p
      BY <2>2, <2>3 DEF raised, more
    <3>2. minimum = raised \/ minimum = more \/ minimum = MaxU64
      BY <2>4 DEF raised, more
    <3> QED BY <2>1, <3>1, <3>2, SMT
  <2> QED BY <1>6, <2>5, SMT DEF minimum
<1> QED BY <1>5, <1>6, SMT
=============================================================================
