---------------------------- MODULE MCBlockSale ----------------------------
(***************************************************************************)
(* Small instances of the sale of a block.                                 *)
(***************************************************************************)
EXTENDS BlockSaleProperties, TLC

Configured(total, mysteries, phase, reveal, whitelisted) ==
  [total_entry_count |-> total, total_mystery_count |-> mysteries,
   mystery_phase_duration |-> phase, mystery_start_price_lamports |-> 3000,
   reveal_period_duration |-> reveal, minimum_price_lamports |-> 1000,
   has_auction |-> FALSE, duration |-> 2, final_start_price_lamports |-> 2000,
   whitelist_duration |-> whitelisted]

\* Two entries, of which none, one or both can be sold as mysteries, to buyers on
\* the whitelist for as many seconds.
ListedConfigurations == {Configured(2, n, 1, 1, n) : n \in 0..2}

\* The same without a whitelist phase.
SaleConfigurations == {Configured(2, n, 1, 1, 0) : n \in 0..2}

\* Two entries, the whitelist is in force for longer or shorter than the mystery phase.
WhitelistConfigurations == {Configured(2, 2, 2, 1, d) : d \in {1, 3}}

\* A configuration that admin_create_block refuses is offered too.
LivenessConfigurations ==
  {Configured(2, n, 2, 1, 0) : n \in 1..2} \cup {Configured(0, 0, 0, 0, 0)}

\* The refund is due later than the end of the mystery phase.
GraceConfigurations == {Configured(2, 2, 1, 3, 0)}

\* The authority account already holds something when the sale starts.
Lamports == [a \in Accounts |-> IF a \in Users THEN 4000 ELSE IF a = Authority THEN 500 ELSE 0]

UserSymmetry == Permutations(Users)
=============================================================================
