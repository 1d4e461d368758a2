---------------------------- MODULE EntryStates ----------------------------
(***************************************************************************)
(* The state of an entry, as the program derives it.                       *)
(*                                                                         *)
(* Nothing in an account says which state an entry is in: every handler    *)
(* recomputes it from the fields of the entry, the fields of its block and *)
(* the clock (get_entry_state of util_entry.c).  A state can therefore     *)
(* change with no instruction at all, when the clock moves, and the state  *)
(* of one entry changes when another entry of the block is bought.         *)
(***************************************************************************)
EXTENDS Integers

CONSTANT Zeroes   \* 32 bytes of zeroes: no commitment, no stake account, no bid

\* The states that get_entry_state returns when it is given the block.
States == {"PreRevealUnowned", "PreRevealOwned", "WaitingForRevealUnowned",
           "WaitingForRevealOwned", "InAuction", "WaitingToBeClaimed", "Unowned",
           "Owned", "OwnedAndStaked"}

-----------------------------------------------------------------------------
(***************************************************************************)
(* The block's part, util_block.c.                                         *)
(***************************************************************************)
IsBlockComplete(block) ==
  block.added_entries_count = block.config.total_entry_count

\* Mutant: the mystery phase ends with its duration only.
RevealableByTimeOnly(block, now) ==
  now > block.block_start_timestamp + block.config.mystery_phase_duration

\* Mutant: the mystery phase ends with the last sale only.
RevealableBySalesOnly(block, now) ==
  block.mysteries_sold_count = block.config.total_mystery_count

IsCompleteBlockRevealable(block, now) ==
  \/ block.mysteries_sold_count = block.config.total_mystery_count
  \/ now > block.block_start_timestamp + block.config.mystery_phase_duration

-----------------------------------------------------------------------------
(***************************************************************************)
(* The entry's part, util_entry.c.                                         *)
(***************************************************************************)
IsRevealed(entry) == entry.reveal_sha256 = Zeroes

IsPurchased(entry) == entry.purchase_price_lamports # 0

\* The state of a revealed entry does not depend on its block.
RevealedState(entry, now) ==
  IF IsPurchased(entry)
  THEN IF entry.stake_account = Zeroes THEN "Owned" ELSE "OwnedAndStaked"
  ELSE IF ~entry.has_auction THEN "Unowned"
  ELSE IF entry.reveal_timestamp + entry.duration > now THEN "InAuction"
  ELSE IF entry.highest_bid_lamports # 0 THEN "WaitingToBeClaimed"
  ELSE "Unowned"

UnrevealedState(block, entry, now) ==
  IF IsCompleteBlockRevealable(block, now)
  THEN IF IsPurchased(entry) THEN "WaitingForRevealOwned" ELSE "WaitingForRevealUnowned"
  ELSE IF IsPurchased(entry) THEN "PreRevealOwned" ELSE "PreRevealUnowned"

\* get_entry_state(block, entry, clock)
GetEntryState(block, entry, now) ==
  IF IsRevealed(entry) THEN RevealedState(entry, now) ELSE UnrevealedState(block, entry, now)

\* get_entry_state(0, entry, clock): without the block, the states before the
\* reveal are not told apart.
GetEntryStateAlone(entry, now) ==
  IF IsRevealed(entry) THEN RevealedState(entry, now) ELSE "PreReveal"
=============================================================================
