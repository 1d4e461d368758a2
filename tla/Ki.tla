--------------------------------- MODULE Ki ---------------------------------
(***************************************************************************)
(* How much Ki a harvest mints and a new level burns, as the program       *)
(* computes it: in 64 bits, with the sticky overflow flag of CheckedMath   *)
(* where the code has it, and wrapping around where it does not.           *)
(* Tokens are counted in tenths of a Ki, as they are on the chain.         *)
(***************************************************************************)
EXTENDS CheckedMath

CONSTANTS
  LamportsPerSol,  \* LAMPORTS_PER_SOL
  KiLimit,         \* 106666 in harvest_ki
  KiDivisor,       \* 1066666 in harvest_ki
  KiFactor,        \* ki_factor of each level: Ki per SOL of rewards
  Level1Ki,        \* level_1_ki of the entry's metadata
  MaxLevel         \* 8

ASSUME KiAssumption ==
  /\ LamportsPerSol \in Nat \ {0} /\ KiLimit \in Nat \ {0} /\ KiDivisor \in Nat \ {0}
  /\ MaxLevel \in Nat /\ KiFactor \in [0..MaxLevel -> Nat] /\ Level1Ki \in Nat

\* The Ki earned with a number of lamports, in whole Ki.
EarnedKi(lamports, factor) == Multiply(lamports, factor) \div LamportsPerSol

\* x^2 / 106666
SquareOver(x) == Multiply(x, x) \div KiLimit

\* Mutant: the square is added instead of subtracted.
IncreasedKi(x) ==
  Multiply(Add(Multiply(x, KiLimit), Multiply(SquareOver(x), SquareOver(x))) \div KiDivisor, 10)

\* Large harvests are reduced, and Ki become tokens.  The products of x and
\* 106666, and the difference, are computed without a flag.
ReducedKi(x) ==
  Multiply(Subtract(Multiply(x, KiLimit), Multiply(SquareOver(x), SquareOver(x)))
             \div KiDivisor, 10)

\* The flag, from the first product to the last.
HarvestOverflows(lamports, factor) ==
  LET x == EarnedKi(lamports, factor)
  IN  \/ MultiplyOverflows(lamports, factor)
      \/ MultiplyOverflows(x, x)
      \/ MultiplyOverflows(SquareOver(x), SquareOver(x))
      \/ MultiplyOverflows(Subtract(Multiply(x, KiLimit), Multiply(SquareOver(x), SquareOver(x)))
                             \div KiDivisor, 10)

\* Mutant: the flag is not looked at.
HarvestedUnflagged(lamports, factor) == ReducedKi(EarnedKi(lamports, factor))

\* The tokens that harvest_ki mints.
Harvested(lamports, factor) ==
  IF HarvestOverflows(lamports, factor) THEN 0 ELSE ReducedKi(EarnedKi(lamports, factor))

\* The tokens that user_level_up burns at a level: half as much again for each
\* level, or the largest number if one of the sums overflowed.
KiToBurn(level) ==
  LET burn[n \in 0..level] ==
        IF n = 0 THEN Multiply(Level1Ki, 10) ELSE Add(burn[n-1], burn[n-1] \div 2)
  IN  IF \/ MultiplyOverflows(Level1Ki, 10)
         \/ \E n \in 1..level : AddOverflows(burn[n-1], burn[n-1] \div 2)
      THEN MaxU64 ELSE burn[level]
=============================================================================
