------------------------ MODULE BlockSaleProperties ------------------------
(***************************************************************************)
(* What makes the sale of a block correct.                                 *)
(***************************************************************************)
EXTENDS BlockSale

(***************************************************************************)
(* Every variable holds a value that its account can hold.  In particular  *)
(* no balance is negative: the handlers that debit the authority account   *)
(* (user_refund.c and admin_reveal_entries.c) do so with an unchecked      *)
(* subtraction.                                                            *)
(***************************************************************************)
TypeOK ==
  /\ now \in Nat
  /\ block \in Block \cup {NoBlock}
  /\ entry \in [Entries -> Entry]
  /\ whitelist = NoWhitelist \/ (whitelist \in Seq(Users) /\ Len(whitelist) <= MaxWhitelist)
  /\ token \in [Entries -> Signers \cup {NoMint, EntryTokenAccount}]
  /\ lamports \in [Accounts -> Nat]

-----------------------------------------------------------------------------
(***************************************************************************)
(* Money.                                                                  *)
(***************************************************************************)

\* What the buyer of a mystery can still get back, if it is never revealed.
Deposit(e) ==
  IF IsPurchased(e) /\ ~IsRevealed(e) /\ ~e.refund_awarded THEN e.purchase_price_lamports ELSE 0

DepositsOf(entries) == SumTo([i \in Entries |-> Deposit(entries[i])], MaxEntries)

Deposits == DepositsOf(entry)

(***************************************************************************)
(* The one authority account always holds the deposits of all of the       *)
(* entries that are neither revealed nor refunded, on top of what it held  *)
(* before the sale (which other blocks may need): no order of purchases,   *)
(* refunds, reveals of batches and transfers of tokens pays a deposit out  *)
(* twice, or pays one entry's refund from another's deposit.               *)
(***************************************************************************)
EscrowCoversRefunds ==
  lamports[Authority] >= InitialLamports[Authority] + Deposits

-----------------------------------------------------------------------------
(***************************************************************************)
(* The block's counters and the entries.                                   *)
(***************************************************************************)

(***************************************************************************)
(* A block that is complete, by its counter, really has all of its         *)
(* entries, however they were batched, and however often some were sent    *)
(* again (admin_add_entries_to_block.c skips those).                       *)
(***************************************************************************)
CompleteBlockHasAllEntries ==
  BlockExists =>
    /\ block.added_entries_count = Cardinality(block.entries_added)
    /\ BlockComplete => block.entries_added = 0..(block.config.total_entry_count - 1)

SoldUnrevealed == {i \in block.entries_added : IsPurchased(entry[i]) /\ ~IsRevealed(entry[i])}

(***************************************************************************)
(* mysteries_sold_count, from which the end of the mystery phase follows,  *)
(* counts the entries that were sold before their reveal, and no more are  *)
(* sold than the block allows.  Entries without a commitment, which are on *)
(* sale at the same time, are not counted.                                 *)
(***************************************************************************)
SoldCountAccurate ==
  BlockExists =>
    /\ block.mysteries_sold_count <= block.config.total_mystery_count
    /\ Cardinality(SoldUnrevealed) <= block.mysteries_sold_count
    /\ (\A i \in block.entries_added : entry[i].reveal_timestamp = 0) =>
         Cardinality(SoldUnrevealed) = block.mysteries_sold_count

(***************************************************************************)
(* The program holds the token of exactly the entries that it has for      *)
(* sale: user_buy.c relies on it, since it does not look whether the token *)
(* is still there and closes the token account after the purchase.         *)
(***************************************************************************)
ProgramHoldsExactlyUnsold ==
  \A i \in Entries :
    token[i] = EntryTokenAccount <=> /\ BlockExists
                                     /\ i \in block.entries_added
                                     /\ ~IsPurchased(entry[i])

(***************************************************************************)
(* Once a complete block is revealable it stays so: neither a purchase nor *)
(* an instruction of the admin brings its mystery phase back.  The program *)
(* derives the phase from a counter and a timestamp, and stores it nowhere.*)
(***************************************************************************)
RevealableForever ==
  [][BlockComplete /\ Revealable => BlockComplete' /\ Revealable']_vars

-----------------------------------------------------------------------------
(***************************************************************************)
(* The reveal.                                                             *)
(***************************************************************************)

(***************************************************************************)
(* The metadata of a revealed entry is what was committed to when the      *)
(* entry was added, before anyone bought it: the admin cannot replace the  *)
(* commitment, reveal something else, or rewrite what is revealed.         *)
(***************************************************************************)
CommitmentBinding ==
  [][\A i \in Entries : BlockExists /\ i \in block.entries_added =>
       IF IsRevealed(entry[i])
       THEN IsRevealed(entry'[i]) /\ entry'[i].metadata = entry[i].metadata
       ELSE \/ entry'[i].reveal_sha256 = entry[i].reveal_sha256
            \/ IsRevealed(entry'[i]) /\ entry'[i].metadata = entry[i].reveal_sha256.metadata
    ]_vars

-----------------------------------------------------------------------------
(***************************************************************************)
(* The whitelist.                                                          *)
(***************************************************************************)

\* Entry i is bought in this step.
Bought(i) == ~IsPurchased(entry[i]) /\ IsPurchased(entry'[i])

\* The users who pay in this step.
Payers == {u \in Users : lamports'[u] < lamports[u]}

(***************************************************************************)
(* While the whitelist is in force and still has keys, a purchase by a     *)
(* user uses up one occurrence of the user's own key, and leaves all of    *)
(* the others their keys, although whitelist_check moves the last key into *)
(* the gap.                                                                *)
(***************************************************************************)
PurchaseUsesOwnKey ==
  [][\A i \in Entries :
       /\ BlockExists /\ WhitelistInProgress
       /\ whitelist # NoWhitelist /\ Len(whitelist) > 0
       /\ Bought(i)
       => \A u \in Users :
            Cardinality(Slots(u)') = Cardinality(Slots(u)) - (IF u \in Payers THEN 1 ELSE 0)
    ]_vars

-----------------------------------------------------------------------------
(***************************************************************************)
(* The sale implements module EntryLifecycle.                              *)
(***************************************************************************)
Phase ==
  IF ~BlockComplete THEN "Setup" ELSE IF Revealable THEN "Reveal" ELSE "Mystery"

StatusOf(i) ==
  IF ~(BlockExists /\ i \in block.entries_added) THEN "Absent"
  ELSE IF IsRevealed(entry[i])
  THEN IF IsPurchased(entry[i]) THEN "Settled"
       ELSE IF entry[i].reveal_timestamp = 0 THEN "Bare" ELSE "OnSale"
  ELSE IF ~IsPurchased(entry[i]) THEN "Hidden"
  ELSE IF entry[i].refund_awarded THEN "Refunded" ELSE "Escrowed"

Lifecycle == INSTANCE EntryLifecycle
               WITH phase <- Phase, status <- [i \in Entries |-> StatusOf(i)]

(***************************************************************************)
(* Seen from outside, each entry goes from hidden to settled along the     *)
(* abstract life cycle only: the states that get_entry_state derives from  *)
(* fields and clock never take it elsewhere, in no order of instructions,  *)
(* whatever the admin sends as commitments.                                *)
(***************************************************************************)
LifecycleSpec == Lifecycle!Spec

-----------------------------------------------------------------------------
(***************************************************************************)
(* Progress.                                                               *)
(***************************************************************************)

\* Time passes, and the owner of an entry who can get a refund asks for it.
\* The admin need not do anything.
OwnersAct ==
  /\ WF_vars(Tick)
  /\ \A i \in Entries : WF_vars(\E owner \in Signers : Refund(i, owner, owner))

FairSpec == Spec /\ OwnersAct

(***************************************************************************)
(* No deposit is locked up for ever: the price of every mystery goes to    *)
(* the admin by a reveal or back to an owner who asks for it, even if the  *)
(* admin never reveals and the mysteries never sell out.                   *)
(***************************************************************************)
DepositsAreSettled ==
  \A i \in Entries : Deposit(entry[i]) > 0 ~> Deposit(entry[i]) = 0

-----------------------------------------------------------------------------
(***************************************************************************)
(* What the comments in the source say, and the code does not do.          *)
(***************************************************************************)

\* The end of the mystery phase: the last sale, or the time-out.
MysteryPhaseEnd ==
  IF block.mysteries_sold_count = block.config.total_mystery_count
  THEN block.mystery_phase_end_timestamp
  ELSE block.block_start_timestamp + block.config.mystery_phase_duration

(***************************************************************************)
(* entry.h, refund_awarded: a refund is possible for an entry that "was    *)
(* not revealed before the end of the reveal grace period".                *)
(***************************************************************************)
RefundOnlyAfterGrace ==
  [][\A i \in Entries : ~entry[i].refund_awarded /\ entry'[i].refund_awarded =>
       now >= MysteryPhaseEnd + block.config.reveal_period_duration]_vars

(***************************************************************************)
(* util_whitelist.c, delete_whitelist_account: deleting "is not allowed if *)
(* the block exists, uses a non-empty whitelist, and is not yet past its   *)
(* whitelist phase".                                                       *)
(***************************************************************************)
WhitelistKeptThroughItsPhase ==
  [][/\ whitelist # NoWhitelist /\ whitelist' = NoWhitelist
     /\ Len(whitelist) > 0
     /\ BlockExists /\ block.config.whitelist_duration > 0
     => BlockComplete /\ ~WhitelistInProgress]_vars
=============================================================================
