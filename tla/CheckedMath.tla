---------------------------- MODULE CheckedMath ----------------------------
(***************************************************************************)
(* The 64-bit arithmetic of src/program/util/util_math.c.  Every formula   *)
(* of the program that could exceed a uint64_t goes through checked_add    *)
(* and checked_multiply, whose [overflowed] flag is sticky: it is only     *)
(* ever set, and the callers look at it once, at the end.                  *)
(*                                                                         *)
(* MaxU64 is UINT64_MAX.  It is a constant so that TLC can use a smaller   *)
(* word; the tests below never compute a number larger than MaxU64, so     *)
(* they can be evaluated with MaxU64 at the limit of TLC's own integers.   *)
(***************************************************************************)
EXTENDS Integers

CONSTANT MaxU64

ASSUME MaxU64Assumption == MaxU64 \in Nat \ {0}

\* What checked_add(x, y) leaves in its flag.
AddOverflows(x, y) == x > MaxU64 - y

\* What checked_multiply(x, y) leaves in its flag.
MultiplyOverflows(x, y) == y # 0 /\ x > MaxU64 \div y

\* What they return, and what an unchecked subtraction does: all wrap around.
Add(x, y)      == IF AddOverflows(x, y) THEN x - (MaxU64 - y) - 1 ELSE x + y
Multiply(x, y) == IF MultiplyOverflows(x, y) THEN (x * y) % (MaxU64 + 1) ELSE x * y
Subtract(x, y) == IF x >= y THEN x - y ELSE (x - y) % (MaxU64 + 1)
=============================================================================
