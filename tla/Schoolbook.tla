----------------------------- MODULE Schoolbook -----------------------------
(***************************************************************************)
(* checked_multiply of util_math.c as it is computed: from the halves of   *)
(* the operands, with sums that wrap around.  Half is 2^32 in the program; *)
(* the word is Half * Half.  Module Prices uses what the function promises *)
(* (CheckedMath); this module shows that it is the same.                   *)
(***************************************************************************)
EXTENDS Integers

CONSTANT Half

ASSUME HalfAssumption == Half \in Nat \ {0, 1}

Word == Half * Half

Low(z)  == z % Half       \* (uint32_t) z
High(z) == z \div Half    \* z >> 32

\* Mutant: the carry out of the low halves is forgotten.
MiddleNoCarry(x, y) == (High(x) * Low(y) + Low(Low(x) * High(y))) % Word

Middle(x, y) ==
  (High(x) * Low(y) + High(Low(x) * Low(y)) + Low(Low(x) * High(y))) % Word

\* The condition under which *overflowed is set.
SchoolbookOverflows(x, y) ==
  (High(x) * High(y) + High(Middle(x, y)) + High(Low(x) * High(y))) % Word # 0

SchoolbookMultiply(x, y) ==
  ((Middle(x, y) * Half) % Word) + Low(Low(x) * Low(y))

Checked == INSTANCE CheckedMath WITH MaxU64 <- Word - 1

\* What checked_multiply promises of one pair of operands: the flag is set
\* exactly if the product does not fit, or else the product is returned.
ProductOrOverflow(x, y) ==
  /\ SchoolbookOverflows(x, y) <=> Checked!MultiplyOverflows(x, y)
  /\ ~SchoolbookOverflows(x, y) => SchoolbookMultiply(x, y) = x * y
=============================================================================
