-------------------------- MODULE BlockSaleProofs --------------------------
(***************************************************************************)
(* Theorems about the sale of a block, for every number of entries, users, *)
(* configurations, prices and durations.                                   *)
(***************************************************************************)
EXTENDS BlockSaleProperties, AmountsProofs, FiniteSetTheorems

(***************************************************************************)
(* The inductive invariant: the types, and what ties the entries to their  *)
(* block.                                                                  *)
(***************************************************************************)

\* The block was created from a configuration that admin_create_block accepts.
ConfigurationAccepted == BlockExists => IsValidConfiguration(block.config)

\* The block's counter and timestamps are where is_complete_block_revealable expects them.
BlockWithinBounds ==
  BlockExists => /\ block.mysteries_sold_count <= block.config.total_mystery_count
                 /\ block.block_start_timestamp <= now

\* An entry repeats the configuration of its block, or is not there yet.
EntryFollowsBlock(i) ==
  IF BlockExists /\ i \in block.entries_added
  THEN /\ entry[i].minimum_price_lamports = block.config.minimum_price_lamports
       /\ entry[i].non_auction_start_price_lamports = block.config.final_start_price_lamports
       /\ entry[i].reveal_timestamp <= now
  ELSE entry[i] = NewEntry

EntriesFollowBlock == \A i \in Entries : EntryFollowsBlock(i)

SaleInv ==
  /\ TypeOK
  /\ ConfigurationAccepted
  /\ BlockWithinBounds
  /\ EntriesFollowBlock
  /\ ProgramHoldsExactlyUnsold
  /\ EscrowCoversRefunds

-----------------------------------------------------------------------------
(***************************************************************************)
(* Types.                                                                  *)
(***************************************************************************)

\* The sequences that an instruction's data holds.
LEMMA InputSequence ==
  ASSUME NEW S, NEW n \in Nat, NEW s \in [1..n -> S]
  PROVE  s \in Seq(S) /\ Len(s) = n
  OBVIOUS

LEMMA NewEntryType == NewEntry \in Entry
  BY BlockSaleAssumption DEF NewEntry, Entry, Metadata, Sha256s

LEMMA BlockType ==
  ASSUME TypeOK, BlockExists
  PROVE  /\ block \in Block
         /\ block.config \in Configuration
         /\ block.config.total_entry_count <= MaxEntries
  BY BlockSaleAssumption DEF TypeOK, BlockExists, Block

\* A transfer that the payer can afford leaves balances.
LEMMA MovedType ==
  ASSUME lamports \in [Accounts -> Nat],
         NEW from \in Accounts, NEW to \in Accounts,
         NEW amount \in Nat, amount <= lamports[from]
  PROVE  /\ Moved(from, to, amount) \in [Accounts -> Nat]
         /\ \A a \in Accounts : a # from /\ a # to => Moved(from, to, amount)[a] = lamports[a]
         /\ from # to => /\ Moved(from, to, amount)[from] = lamports[from] - amount
                         /\ Moved(from, to, amount)[to] = lamports[to] + amount
         /\ from = to => Moved(from, to, amount) = lamports
  BY DEF Moved

-----------------------------------------------------------------------------
(***************************************************************************)
(* Deposits.                                                               *)
(***************************************************************************)
LEMMA DepositType ==
  ASSUME NEW e \in Entry
  PROVE  Deposit(e) \in Nat
  BY DEF Entry, Deposit

LEMMA EntriesType ==
  /\ MaxEntries \in Nat
  /\ Entries = 0..(MaxEntries-1)
  BY BlockSaleAssumption DEF Entries

LEMMA DepositsType ==
  ASSUME NEW entries \in [Entries -> Entry]
  PROVE  DepositsOf(entries) \in Nat
<1> DEFINE f == [i \in Entries |-> Deposit(entries[i])]
<1>1. f \in [Entries -> Nat]
  BY DepositType
<1> HIDE DEF f
<1>2. SumTo(f, MaxEntries) \in Nat
  BY <1>1, SumToNat, EntriesType
<1> QED
  BY <1>2 DEF DepositsOf, f

\* An action that changes entry i changes the total by what it changes there.
LEMMA DepositOfOneChanges ==
  ASSUME entry \in [Entries -> Entry], entry' \in [Entries -> Entry],
         NEW i \in Entries,
         \A j \in Entries : j # i => Deposit(entry'[j]) = Deposit(entry[j])
  PROVE  Deposits' + Deposit(entry[i]) = Deposits + Deposit(entry'[i])
<1> DEFINE f == [j \in Entries |-> Deposit(entry[j])]
           g == [j \in Entries |-> Deposit(entry'[j])]
<1>1. f \in [Entries -> Nat] /\ g \in [Entries -> Nat]
  BY DepositType
<1>2. \A j \in Entries : j # i => g[j] = f[j]
  OBVIOUS
<1>3. f[i] = Deposit(entry[i]) /\ g[i] = Deposit(entry'[i])
  OBVIOUS
<1>4. Deposits = SumTo(f, MaxEntries) /\ Deposits' = SumTo(g, MaxEntries)
  BY DEF Deposits, DepositsOf
<1> HIDE DEF f, g
<1>5. SumTo(g, MaxEntries) + f[i] = SumTo(f, MaxEntries) + g[i]
  BY <1>1, <1>2, SumToUpdate, EntriesType
<1> QED
  BY <1>3, <1>4, <1>5

\* An action that changes no deposit leaves the total.
LEMMA DepositsStay ==
  ASSUME \A j \in Entries : Deposit(entry'[j]) = Deposit(entry[j])
  PROVE  Deposits' = Deposits
<1>1. [j \in Entries |-> Deposit(entry'[j])] = [j \in Entries |-> Deposit(entry[j])]
  OBVIOUS
<1> QED
  BY <1>1 DEF Deposits, DepositsOf

\* One deposit is part of the total.
LEMMA DepositInDeposits ==
  ASSUME entry \in [Entries -> Entry], NEW i \in Entries
  PROVE  Deposit(entry[i]) <= Deposits
<1> DEFINE f == [j \in Entries |-> Deposit(entry[j])]
           g == [j \in 0..(MaxEntries-1) |-> IF j = i THEN Deposit(entry[i]) ELSE 0]
<1>1. Deposit(entry[i]) \in Nat /\ f \in [Entries -> Nat] /\ g \in [Entries -> Nat]
  BY DepositType, EntriesType
<1>2. \A j \in Entries : g[j] <= f[j]
  BY DepositType, EntriesType
<1>3. SumTo(g, MaxEntries) = Deposit(entry[i])
  BY <1>1, SumToSingle, EntriesType
<1>4. Deposits = SumTo(f, MaxEntries)
  BY DEF Deposits, DepositsOf
<1> HIDE DEF f, g
<1> QED
  BY <1>1, <1>2, <1>3, <1>4, SumToMonotone, EntriesType

-----------------------------------------------------------------------------
(***************************************************************************)
(* Each action preserves the inductive invariant.                          *)
(***************************************************************************)
LEMMA InitInv ==
  ASSUME Init
  PROVE  SaleInv
<1>1. TypeOK
  BY NewEntryType, BlockSaleAssumption DEF Init, TypeOK, Signers
<1>2. ConfigurationAccepted /\ BlockWithinBounds /\ EntriesFollowBlock
  BY DEF Init, ConfigurationAccepted, BlockWithinBounds, EntriesFollowBlock, EntryFollowsBlock,
         BlockExists
<1>3. ProgramHoldsExactlyUnsold
  BY BlockSaleAssumption DEF Init, ProgramHoldsExactlyUnsold, BlockExists
<1>4. EscrowCoversRefunds
  <2>1. \A j \in Entries : Deposit(entry[j]) = 0
    BY DEF Init, Deposit, NewEntry, IsPurchased
  <2>2. Deposits = 0
    <3> DEFINE f == [j \in Entries |-> Deposit(entry[j])]
    <3>1. \A j \in 0..(MaxEntries-1) : f[j] = 0
      BY <2>1, EntriesType
    <3> HIDE DEF f
    <3>2. SumTo(f, MaxEntries) = 0
      BY <3>1, SumToZero, EntriesType
    <3> QED BY <3>2 DEF Deposits, DepositsOf, f
  <2> QED
    BY <2>2, BlockSaleAssumption DEF Init, EscrowCoversRefunds, Accounts
<1> QED
  BY <1>1, <1>2, <1>3, <1>4 DEF SaleInv

\* What is left when only the whitelist and the clock change.
LEMMA SaleUntouched ==
  ASSUME SaleInv, TypeOK', UNCHANGED <<block, entry, token, lamports>>, now' >= now
  PROVE  SaleInv'
<1>1. ConfigurationAccepted'
  BY DEF SaleInv, ConfigurationAccepted, BlockExists, IsValidConfiguration
<1>2. BlockWithinBounds'
  BY BlockType DEF SaleInv, BlockWithinBounds, BlockExists, TypeOK, Block
<1>3. EntriesFollowBlock'
  <2> SUFFICES ASSUME NEW i \in Entries PROVE EntryFollowsBlock(i)'
    BY DEF EntriesFollowBlock
  <2>1. EntryFollowsBlock(i) /\ entry[i] \in Entry /\ now \in Nat /\ now' \in Nat
    BY DEF SaleInv, EntriesFollowBlock, TypeOK
  <2> QED
    BY <2>1 DEF EntryFollowsBlock, BlockExists, Entry
<1>4. ProgramHoldsExactlyUnsold'
  BY DEF SaleInv, ProgramHoldsExactlyUnsold, BlockExists
<1>5. EscrowCoversRefunds'
  BY DEF SaleInv, EscrowCoversRefunds, Deposits
<1> QED
  BY <1>1, <1>2, <1>3, <1>4, <1>5 DEF SaleInv

LEMMA AddWhitelistEntriesInv ==
  ASSUME SaleInv, NEW n \in 1..MaxWhitelist, NEW keys \in [1..n -> Users],
         AddWhitelistEntries(keys)
  PROVE  SaleInv'
<1>1. keys \in Seq(Users)
  BY BlockSaleAssumption, InputSequence
<1>2. TypeOK'
  BY <1>1, BlockSaleAssumption DEF SaleInv, TypeOK, AddWhitelistEntries
<1> QED
  BY <1>2, SaleUntouched DEF AddWhitelistEntries, SaleInv, TypeOK

LEMMA DeleteWhitelistInv ==
  ASSUME SaleInv, DeleteWhitelist
  PROVE  SaleInv'
<1>1. TypeOK'
  BY DEF SaleInv, TypeOK, DeleteWhitelist
<1> QED
  BY <1>1, SaleUntouched DEF DeleteWhitelist, SaleInv, TypeOK

LEMMA TickInv ==
  ASSUME SaleInv, Tick
  PROVE  SaleInv'
<1>1. TypeOK'
  BY DEF SaleInv, TypeOK, Tick
<1> QED
  BY <1>1, SaleUntouched DEF Tick, SaleInv, TypeOK

LEMMA CreateBlockInv ==
  ASSUME SaleInv, NEW config \in Configurations, CreateBlock(config)
  PROVE  SaleInv'
<1>1. block' \in Block /\ block'.config = config /\ block'.entries_added = {}
      /\ block'.mysteries_sold_count = 0 /\ block'.block_start_timestamp = 0
  BY DEF CreateBlock, Block
<1>2. TypeOK'
  BY <1>1 DEF SaleInv, TypeOK, CreateBlock
<1>3. ConfigurationAccepted'
  BY <1>1 DEF CreateBlock, ConfigurationAccepted, IsValidConfiguration
<1>4. BlockWithinBounds'
  BY <1>1, BlockSaleAssumption DEF BlockWithinBounds, Configuration, SaleInv, TypeOK, CreateBlock
<1>5. EntriesFollowBlock'
  BY <1>1 DEF SaleInv, EntriesFollowBlock, EntryFollowsBlock, CreateBlock
<1>6. ProgramHoldsExactlyUnsold'
  BY <1>1 DEF SaleInv, ProgramHoldsExactlyUnsold, CreateBlock
<1>7. EscrowCoversRefunds'
  BY DEF SaleInv, EscrowCoversRefunds, Deposits, CreateBlock
<1> QED
  BY <1>2, <1>3, <1>4, <1>5, <1>6, <1>7 DEF SaleInv

\* The block after entries were added.
LEMMA BlockWithType ==
  ASSUME TypeOK, BlockExists, NEW new \in SUBSET Entries
  PROVE  /\ BlockWith(new) \in Block
         /\ BlockWith(new).config = block.config
         /\ BlockWith(new).entries_added = block.entries_added \cup new
         /\ BlockWith(new).mysteries_sold_count = block.mysteries_sold_count
         /\ BlockWith(new).block_start_timestamp \in {block.block_start_timestamp, now}
<1>1. Cardinality(new) \in Nat
  <2>1. IsFiniteSet(Entries)
    BY EntriesType, FS_Interval
  <2> QED
    BY <2>1, FS_Subset, FS_CardinalityType
<1>2. block \in Block /\ now \in Nat
  BY BlockType DEF TypeOK
<1> DEFINE all   == block.entries_added \cup new
           count == block.added_entries_count + Cardinality(new)
           added == [block EXCEPT !.entries_added = all, !.added_entries_count = count]
<1>3. /\ added \in Block
      /\ added.config = block.config
      /\ added.entries_added = block.entries_added \cup new
      /\ added.mysteries_sold_count = block.mysteries_sold_count
      /\ added.block_start_timestamp = block.block_start_timestamp
  <2>1. all \in SUBSET Entries /\ count \in Nat
    BY <1>1, <1>2 DEF Block
  <2>2. all = block.entries_added \cup new
    OBVIOUS
  <2> HIDE DEF all, count
  <2> QED
    BY <1>2, <2>1, <2>2 DEF Block
<1>4. \/ BlockWith(new) = added
      \/ \E end \in Nat : BlockWith(new) = [added EXCEPT !.block_start_timestamp = now,
                                                        !.mystery_phase_end_timestamp = end]
  BY <1>2, <1>3 DEF BlockWith, Block
<1> HIDE DEF added
<1> QED
  BY <1>2, <1>3, <1>4 DEF Block

LEMMA AddEntriesToBlockInv ==
  ASSUME SaleInv, NEW first \in Entries, NEW n \in 1..MaxEntries,
         NEW sha256s \in [1..n -> Sha256s],
         AddEntriesToBlock(first, sha256s)
  PROVE  SaleInv'
<1> DEFINE given == first..(first + Len(sha256s) - 1)
           new   == NotYetAdded(given)
<1>1. TypeOK /\ BlockExists /\ Len(sha256s) = n /\ n \in Nat /\ first \in Nat
  BY InputSequence, EntriesType DEF SaleInv, AddEntriesToBlock, AcceptsEntries
<1>2. block \in Block /\ block.config \in Configuration
      /\ block.config.total_entry_count <= MaxEntries
  BY <1>1, BlockType
<1>3. new \subseteq Entries /\ new \cap block.entries_added = {}
  <2>1. first + n <= block.config.total_entry_count
    BY <1>1 DEF AddEntriesToBlock
  <2>2. first + n <= MaxEntries
    BY <1>1, <1>2, <2>1, EntriesType DEF Configuration
  <2> QED
    BY <1>1, <2>2, EntriesType DEF NotYetAdded
<1>4. /\ block' = BlockWith(new)
      /\ entry' = [i \in Entries |-> IF i \in new THEN AddedEntry(sha256s[i - first + 1])
                                                  ELSE entry[i]]
      /\ token' = [i \in Entries |-> IF i \in new THEN EntryTokenAccount ELSE token[i]]
      /\ UNCHANGED <<now, whitelist, lamports>>
  BY DEF AddEntriesToBlock
<1>5. \A i \in new : i - first + 1 \in 1..n
  BY <1>1, EntriesType, <1>3 DEF NotYetAdded
<1> HIDE DEF new
<1>6. \A sha256 \in Sha256s :
        /\ AddedEntry(sha256) \in Entry
        /\ AddedEntry(sha256).minimum_price_lamports = block.config.minimum_price_lamports
        /\ AddedEntry(sha256).non_auction_start_price_lamports
             = block.config.final_start_price_lamports
        /\ AddedEntry(sha256).reveal_timestamp = 0
        /\ AddedEntry(sha256).purchase_price_lamports = 0
  BY <1>2, NewEntryType DEF AddedEntry, NewEntry, Entry, Configuration
<1>7. /\ block' \in Block
      /\ block'.config = block.config
      /\ block'.entries_added = block.entries_added \cup new
      /\ block'.mysteries_sold_count = block.mysteries_sold_count
      /\ block'.block_start_timestamp \in {block.block_start_timestamp, now}
      /\ BlockExists'
  BY <1>1, <1>3, <1>4, BlockWithType, BlockSaleAssumption DEF BlockExists
<1>8. TypeOK'
  <2>1. entry' \in [Entries -> Entry]
    BY <1>1, <1>4, <1>5, <1>6 DEF TypeOK
  <2>2. token' \in [Entries -> Signers \cup {NoMint, EntryTokenAccount}]
    BY <1>1, <1>4 DEF TypeOK
  <2> QED
    BY <1>1, <1>4, <1>7, <2>1, <2>2 DEF TypeOK
<1>9. ConfigurationAccepted'
  BY <1>1, <1>7 DEF SaleInv, ConfigurationAccepted, IsValidConfiguration
<1>10. BlockWithinBounds'
  BY <1>1, <1>2, <1>4, <1>7 DEF SaleInv, BlockWithinBounds, TypeOK, Block
<1>11. EntriesFollowBlock'
  <2> SUFFICES ASSUME NEW i \in Entries PROVE EntryFollowsBlock(i)'
    BY DEF EntriesFollowBlock
  <2>1. CASE i \in new
    <3>1. entry'[i] = AddedEntry(sha256s[i - first + 1])
      BY <1>4, <2>1
    <3> QED
      BY <1>1, <1>4, <1>5, <1>6, <1>7, <2>1, <3>1 DEF EntryFollowsBlock, TypeOK
  <2>2. CASE i \notin new
    <3>1. entry'[i] = entry[i] /\ EntryFollowsBlock(i)
      BY <1>4, <2>2 DEF SaleInv, EntriesFollowBlock
    <3> QED
      BY <1>1, <1>4, <1>7, <2>2, <3>1 DEF EntryFollowsBlock
  <2> QED
    BY <2>1, <2>2
<1>12. ProgramHoldsExactlyUnsold'
  BY <1>1, <1>4, <1>5, <1>6, <1>7 DEF SaleInv, ProgramHoldsExactlyUnsold, IsPurchased
<1>13. EscrowCoversRefunds'
  <2>1. \A i \in new : Deposit(entry[i]) = 0 /\ Deposit(entry'[i]) = 0
    <3>1. \A i \in new : entry[i] = NewEntry
      BY <1>3, <1>1 DEF SaleInv, EntriesFollowBlock, EntryFollowsBlock
    <3>2. \A i \in new : entry'[i].purchase_price_lamports = 0
      BY <1>3, <1>4, <1>5, <1>6
    <3> QED
      BY <3>1, <3>2 DEF Deposit, IsPurchased, NewEntry
  <2>2. \A i \in Entries : Deposit(entry'[i]) = Deposit(entry[i])
    BY <1>4, <2>1
  <2> QED
    BY <1>4, <2>2, DepositsStay DEF SaleInv, EscrowCoversRefunds
<1> QED
  BY <1>8, <1>9, <1>10, <1>11, <1>12, <1>13 DEF SaleInv

LEMMA TransferTokenInv ==
  ASSUME SaleInv, NEW i \in Entries, NEW from \in Signers, NEW to \in Signers,
         TransferToken(i, from, to)
  PROVE  SaleInv'
<1>1. TypeOK'
  BY DEF SaleInv, TypeOK, TransferToken
<1>2. ConfigurationAccepted' /\ BlockWithinBounds'
  BY DEF SaleInv, ConfigurationAccepted, BlockWithinBounds, BlockExists, IsValidConfiguration,
         TransferToken
<1>3. EntriesFollowBlock'
  BY DEF SaleInv, EntriesFollowBlock, EntryFollowsBlock, BlockExists, TransferToken
<1>4. ProgramHoldsExactlyUnsold'
  BY BlockSaleAssumption
     DEF SaleInv, TypeOK, ProgramHoldsExactlyUnsold, BlockExists, TransferToken, Accounts
<1>5. EscrowCoversRefunds'
  BY DEF SaleInv, EscrowCoversRefunds, Deposits, TransferToken
<1> QED
  BY <1>1, <1>2, <1>3, <1>4, <1>5 DEF SaleInv

LEMMA SystemTransferInv ==
  ASSUME SaleInv, NEW from \in Signers, NEW to \in Accounts, NEW amount \in TransferAmounts,
         SystemTransfer(from, to, amount)
  PROVE  SaleInv'
<1>1. amount \in Nat /\ from \in Accounts /\ from # Authority /\ Authority \in Accounts
  BY BlockSaleAssumption DEF Accounts
<1>2. lamports \in [Accounts -> Nat] /\ lamports' = Moved(from, to, amount)
      /\ amount <= lamports[from]
  BY DEF SaleInv, TypeOK, SystemTransfer
<1>3. lamports' \in [Accounts -> Nat] /\ lamports'[Authority] >= lamports[Authority]
  BY <1>1, <1>2, MovedType
<1>4. TypeOK'
  BY <1>3 DEF SaleInv, TypeOK, SystemTransfer
<1>5. ConfigurationAccepted' /\ BlockWithinBounds'
  BY DEF SaleInv, ConfigurationAccepted, BlockWithinBounds, BlockExists, IsValidConfiguration,
         SystemTransfer
<1>6. EntriesFollowBlock'
  BY DEF SaleInv, EntriesFollowBlock, EntryFollowsBlock, BlockExists, SystemTransfer
<1>7. ProgramHoldsExactlyUnsold'
  BY DEF SaleInv, ProgramHoldsExactlyUnsold, BlockExists, SystemTransfer
<1>8. EscrowCoversRefunds'
  <2>1. Deposits' = Deposits /\ Deposits \in Nat
    BY DepositsType DEF Deposits, SystemTransfer, SaleInv, TypeOK
  <2> QED
    BY <1>1, <1>2, <1>3, <2>1, BlockSaleAssumption DEF SaleInv, EscrowCoversRefunds
<1> QED
  BY <1>4, <1>5, <1>6, <1>7, <1>8 DEF SaleInv

LEMMA SetMetadataBytesInv ==
  ASSUME SaleInv, NEW i \in Entries, NEW start \in 0..MetadataSize, NEW n \in 0..MetadataSize,
         NEW bytes \in [1..n -> Bytes],
         SetMetadataBytes(i, start, bytes)
  PROVE  SaleInv'
<1> DEFINE metadata == [k \in 0..(MetadataSize-1) |->
                          IF k \in start..(start + Len(bytes) - 1)
                          THEN bytes[k - start + 1] ELSE entry[i].metadata[k]]
<1>1. n \in Nat /\ Len(bytes) = n /\ entry[i] \in Entry
  BY BlockSaleAssumption, InputSequence DEF SaleInv, TypeOK
<1>2. metadata \in Metadata
  BY <1>1, BlockSaleAssumption DEF Metadata, Entry
<1>3. entry' = [entry EXCEPT ![i].metadata = metadata] /\ UNCHANGED <<now, block, whitelist, token, lamports>>
  BY DEF SetMetadataBytes
<1> HIDE DEF metadata
<1>4. /\ entry' \in [Entries -> Entry]
      /\ \A j \in Entries : j # i => entry'[j] = entry[j]
      /\ entry'[i] = [entry[i] EXCEPT !.metadata = metadata]
  BY <1>1, <1>2, <1>3 DEF SaleInv, TypeOK, Entry
<1>5. TypeOK'
  BY <1>3, <1>4 DEF SaleInv, TypeOK
<1>6. ConfigurationAccepted' /\ BlockWithinBounds'
  BY <1>3 DEF SaleInv, ConfigurationAccepted, BlockWithinBounds, BlockExists, IsValidConfiguration
<1>7. EntriesFollowBlock'
  <2> SUFFICES ASSUME NEW j \in Entries PROVE EntryFollowsBlock(j)'
    BY DEF EntriesFollowBlock
  <2>1. EntryFollowsBlock(j)
    BY DEF SaleInv, EntriesFollowBlock
  <2>2. CASE j # i
    BY <1>3, <1>4, <2>1, <2>2 DEF EntryFollowsBlock, BlockExists
  <2>3. CASE j = i
    <3>1. BlockExists /\ i \in block.entries_added
      BY DEF SetMetadataBytes, BlockComplete
    <3> QED
      BY <1>1, <1>3, <1>4, <2>1, <2>3, <3>1 DEF EntryFollowsBlock, BlockExists, Entry
  <2> QED
    BY <2>2, <2>3
<1>8. \A j \in Entries : entry'[j].purchase_price_lamports = entry[j].purchase_price_lamports
                         /\ entry'[j].reveal_sha256 = entry[j].reveal_sha256
                         /\ entry'[j].refund_awarded = entry[j].refund_awarded
  BY <1>1, <1>4 DEF Entry
<1>9. ProgramHoldsExactlyUnsold'
  BY <1>3, <1>8 DEF SaleInv, ProgramHoldsExactlyUnsold, BlockExists, IsPurchased
<1>10. EscrowCoversRefunds'
  <2>1. Deposits' = Deposits
    BY <1>8, DepositsStay DEF Deposit, IsPurchased, IsRevealed
  <2> QED
    BY <1>3, <2>1 DEF SaleInv, EscrowCoversRefunds
<1> QED
  BY <1>5, <1>6, <1>7, <1>9, <1>10 DEF SaleInv

LEMMA RefundInv ==
  ASSUME SaleInv, NEW i \in Entries, NEW owner \in Signers, NEW destination \in Accounts,
         Refund(i, owner, destination)
  PROVE  SaleInv'
<1>1. /\ entry[i] \in Entry
      /\ StateOf(i) = "WaitingForRevealOwned" /\ ~entry[i].refund_awarded
      /\ lamports' = Moved(Authority, destination, entry[i].purchase_price_lamports)
      /\ entry' = [entry EXCEPT ![i].refund_awarded = TRUE]
      /\ UNCHANGED <<now, block, whitelist, token>>
      /\ BlockExists /\ i \in block.entries_added
  BY DEF Refund, Refundable, SaleInv, TypeOK, BlockComplete
<1>2. /\ entry' \in [Entries -> Entry]
      /\ \A j \in Entries : j # i => entry'[j] = entry[j]
      /\ entry'[i] = [entry[i] EXCEPT !.refund_awarded = TRUE]
  BY <1>1 DEF SaleInv, TypeOK, Entry
<1>3. Deposit(entry[i]) = entry[i].purchase_price_lamports
  BY <1>1 DEF StateOf, GetEntryState, UnrevealedState, RevealedState, Deposit
<1>4. Deposit(entry'[i]) = 0
  BY <1>1, <1>2 DEF Deposit, Entry
<1>5. /\ Deposits' + entry[i].purchase_price_lamports = Deposits
      /\ entry[i].purchase_price_lamports <= Deposits
      /\ entry[i].purchase_price_lamports \in Nat
      /\ Deposits \in Nat /\ Deposits' \in Nat
  <2>1. entry \in [Entries -> Entry]
    BY DEF SaleInv, TypeOK
  <2>2. Deposits' + Deposit(entry[i]) = Deposits + Deposit(entry'[i])
    BY <1>2, <2>1, DepositOfOneChanges
  <2>3. Deposits \in Nat /\ Deposits' \in Nat
    BY <1>2, <2>1, DepositsType DEF Deposits
  <2> QED
    BY <1>1, <1>3, <1>4, <2>1, <2>2, <2>3, DepositInDeposits DEF Entry
<1>6. /\ lamports \in [Accounts -> Nat] /\ Authority \in Accounts
      /\ InitialLamports[Authority] \in Nat
      /\ lamports[Authority] >= InitialLamports[Authority] + Deposits
  BY BlockSaleAssumption DEF SaleInv, TypeOK, EscrowCoversRefunds, Accounts
<1>7. entry[i].purchase_price_lamports <= lamports[Authority]
  BY <1>5, <1>6
<1>8. /\ lamports' \in [Accounts -> Nat]
      /\ lamports'[Authority] >= lamports[Authority] - entry[i].purchase_price_lamports
  BY <1>1, <1>5, <1>6, <1>7, MovedType
<1>9. TypeOK'
  BY <1>1, <1>2, <1>8 DEF SaleInv, TypeOK
<1>10. ConfigurationAccepted' /\ BlockWithinBounds'
  BY <1>1 DEF SaleInv, ConfigurationAccepted, BlockWithinBounds, BlockExists, IsValidConfiguration
<1>11. EntriesFollowBlock'
  <2> SUFFICES ASSUME NEW j \in Entries PROVE EntryFollowsBlock(j)'
    BY DEF EntriesFollowBlock
  <2>1. EntryFollowsBlock(j)
    BY DEF SaleInv, EntriesFollowBlock
  <2> QED
    BY <1>1, <1>2, <2>1 DEF EntryFollowsBlock, BlockExists, Entry
<1>12. ProgramHoldsExactlyUnsold'
  <2>1. \A j \in Entries : entry'[j].purchase_price_lamports = entry[j].purchase_price_lamports
    BY <1>1, <1>2 DEF Entry
  <2> QED
    BY <1>1, <2>1 DEF SaleInv, ProgramHoldsExactlyUnsold, BlockExists, IsPurchased
<1>13. EscrowCoversRefunds'
  <2>1. lamports'[Authority] \in Nat /\ lamports[Authority] \in Nat
    BY <1>6, <1>8
  <2> QED
    BY <1>5, <1>6, <1>8, <2>1 DEF EscrowCoversRefunds
<1> QED
  BY <1>9, <1>10, <1>11, <1>12, <1>13 DEF SaleInv

\* What the admin gets for a batch is the batch's part of the deposits.
LEMMA RevealEntriesInv ==
  ASSUME SaleInv, NEW first \in Entries, NEW n \in 1..MaxEntries, NEW salts \in [1..n -> Salts],
         RevealEntries(first, salts)
  PROVE  SaleInv'
<1> DEFINE batch == first..(first + Len(salts) - 1)
           moved == [i \in Entries |-> IF i \in batch THEN LamportsToMove(i) ELSE 0]
           total == SumTo(moved, MaxEntries)
           old   == [i \in Entries |-> Deposit(entry[i])]
           new   == [i \in Entries |-> Deposit(entry'[i])]
<1>1. /\ entry' = [i \in Entries |->
                     IF i \in batch
                     THEN [entry[i] EXCEPT !.reveal_timestamp = now, !.reveal_sha256 = Zeroes]
                     ELSE entry[i]]
      /\ lamports' = Moved(Authority, Admin, total)
      /\ UNCHANGED <<now, block, whitelist, token>>
      /\ \A i \in batch : /\ i \in block.entries_added
                           /\ StateOf(i) \in {"WaitingForRevealUnowned", "WaitingForRevealOwned"}
      /\ BlockExists
  BY DEF RevealEntries, BlockComplete
<1>2. now \in Nat /\ \A i \in Entries : entry[i] \in Entry
  BY DEF SaleInv, TypeOK
<1> HIDE DEF batch, total
<1>3. \A i \in Entries :
        IF i \in batch
        THEN /\ entry'[i] \in Entry
             /\ entry'[i].reveal_timestamp = now /\ entry'[i].reveal_sha256 = Zeroes
             /\ entry'[i].purchase_price_lamports = entry[i].purchase_price_lamports
             /\ entry'[i].minimum_price_lamports = entry[i].minimum_price_lamports
             /\ entry'[i].non_auction_start_price_lamports
                  = entry[i].non_auction_start_price_lamports
        ELSE entry'[i] = entry[i]
  BY <1>1, <1>2 DEF Entry, Sha256s
<1>4. entry' \in [Entries -> Entry]
  BY <1>1, <1>2, <1>3
<1>5. \A i \in Entries : /\ moved[i] \in Nat
                         /\ old[i] \in Nat /\ new[i] \in Nat
                         /\ old[i] = moved[i] + new[i]
  <2> SUFFICES ASSUME NEW i \in Entries
               PROVE  /\ moved[i] \in Nat
                      /\ old[i] \in Nat /\ new[i] \in Nat
                      /\ old[i] = moved[i] + new[i]
    OBVIOUS
  <2>1. old[i] = Deposit(entry[i]) /\ new[i] = Deposit(entry'[i])
    OBVIOUS
  <2>2. Deposit(entry[i]) \in Nat /\ Deposit(entry'[i]) \in Nat
    BY <1>2, <1>4, DepositType
  <2>3. CASE i \in batch
    <3>1. moved[i] = Deposit(entry[i])
      BY <1>1, <2>3
         DEF LamportsToMove, StateOf, GetEntryState, UnrevealedState, RevealedState, Deposit
    <3>2. Deposit(entry'[i]) = 0
      BY <1>3, <2>3 DEF Deposit, IsRevealed
    <3> QED
      BY <2>1, <2>2, <3>1, <3>2
  <2>4. CASE i \notin batch
    BY <1>3, <2>1, <2>2, <2>4
  <2> QED
    BY <2>3, <2>4
<1>6. moved \in [Entries -> Nat] /\ old \in [Entries -> Nat] /\ new \in [Entries -> Nat]
  BY <1>5
<1>7. total = SumTo(moved, MaxEntries)
  BY DEF total
<1>8. Deposits = SumTo(old, MaxEntries) /\ Deposits' = SumTo(new, MaxEntries)
  BY DEF Deposits, DepositsOf
<1> HIDE DEF moved, old, new
<1>9. /\ Deposits = total + Deposits'
      /\ total \in Nat /\ Deposits' \in Nat
  BY <1>5, <1>6, <1>7, <1>8, SumToAdd, SumToNat, EntriesType
<1>10. /\ lamports \in [Accounts -> Nat] /\ Authority \in Accounts /\ Admin \in Accounts
       /\ Admin # Authority
       /\ InitialLamports[Authority] \in Nat
       /\ lamports[Authority] >= InitialLamports[Authority] + Deposits
  BY BlockSaleAssumption DEF SaleInv, TypeOK, EscrowCoversRefunds, Accounts, Signers
<1>11. total <= lamports[Authority]
  BY <1>9, <1>10
<1>12. /\ lamports' \in [Accounts -> Nat]
       /\ lamports'[Authority] = lamports[Authority] - total
  BY <1>1, <1>9, <1>10, <1>11, MovedType
<1>13. TypeOK'
  BY <1>1, <1>4, <1>12 DEF SaleInv, TypeOK
<1>14. ConfigurationAccepted' /\ BlockWithinBounds'
  BY <1>1 DEF SaleInv, ConfigurationAccepted, BlockWithinBounds, BlockExists, IsValidConfiguration
<1>15. EntriesFollowBlock'
  <2> SUFFICES ASSUME NEW j \in Entries PROVE EntryFollowsBlock(j)'
    BY DEF EntriesFollowBlock
  <2>1. EntryFollowsBlock(j)
    BY DEF SaleInv, EntriesFollowBlock
  <2>2. CASE j \in batch
    <3>1. j \in block.entries_added
      BY <1>1, <2>2
    <3>2. /\ entry'[j].reveal_timestamp = now
          /\ entry'[j].minimum_price_lamports = entry[j].minimum_price_lamports
          /\ entry'[j].non_auction_start_price_lamports
               = entry[j].non_auction_start_price_lamports
      BY <1>3, <2>2
    <3>3. now' = now /\ block' = block /\ BlockExists
      BY <1>1
    <3> QED
      BY <1>2, <2>1, <3>1, <3>2, <3>3 DEF EntryFollowsBlock, BlockExists
  <2>3. CASE j \notin batch
    BY <1>1, <1>3, <2>1, <2>3 DEF EntryFollowsBlock, BlockExists
  <2> QED
    BY <2>2, <2>3
<1>16. ProgramHoldsExactlyUnsold'
  <2>1. \A j \in Entries : entry'[j].purchase_price_lamports = entry[j].purchase_price_lamports
    BY <1>3
  <2> QED
    BY <1>1, <2>1 DEF SaleInv, ProgramHoldsExactlyUnsold, BlockExists, IsPurchased
<1>17. EscrowCoversRefunds'
  BY <1>9, <1>10, <1>12 DEF EscrowCoversRefunds
<1> QED
  BY <1>13, <1>14, <1>15, <1>16, <1>17 DEF SaleInv

\* What both kinds of purchase have in common.
LEMMA PurchaseInv ==
  ASSUME SaleInv, NEW i \in Entries, NEW buyer \in Signers, NEW owner \in Signers,
         NEW price \in Nat \ {0}, NEW destination \in {Authority, Admin},
         CompletePurchase(i, buyer, owner, price, destination),
         BlockExists, i \in block.entries_added, ~IsPurchased(entry[i]),
         IsRevealed(entry[i]) \/ destination = Authority,
         block' \in Block, block'.config = block.config,
         block'.entries_added = block.entries_added,
         block'.block_start_timestamp = block.block_start_timestamp,
         block'.mysteries_sold_count <= block.config.total_mystery_count
  PROVE  SaleInv'
<1>1. /\ price <= lamports[buyer]
      /\ lamports' = Moved(buyer, destination, price)
      /\ token' = [token EXCEPT ![i] = owner]
      /\ entry' = [entry EXCEPT ![i].purchase_price_lamports = price]
      /\ now' = now
  BY DEF CompletePurchase, HasFunds, PurchasedFor
<1>2. entry \in [Entries -> Entry] /\ entry[i] \in Entry
  BY DEF SaleInv, TypeOK
<1>3. /\ entry' \in [Entries -> Entry]
      /\ \A j \in Entries : j # i => entry'[j] = entry[j]
      /\ entry'[i] = [entry[i] EXCEPT !.purchase_price_lamports = price]
  BY <1>1, <1>2 DEF Entry
<1>4. /\ lamports \in [Accounts -> Nat]
      /\ buyer \in Accounts /\ destination \in Accounts /\ buyer # Authority
      /\ Authority \in Accounts /\ Admin # Authority
      /\ InitialLamports[Authority] \in Nat
      /\ lamports[Authority] >= InitialLamports[Authority] + Deposits
  BY BlockSaleAssumption DEF SaleInv, TypeOK, EscrowCoversRefunds, Accounts, Signers
<1>5. /\ lamports' \in [Accounts -> Nat]
      /\ lamports'[Authority] = lamports[Authority] + (IF destination = Authority THEN price ELSE 0)
  BY <1>1, <1>4, MovedType
<1>6. whitelist' = NoWhitelist \/ (whitelist' \in Seq(Users) /\ Len(whitelist') <= MaxWhitelist)
  <2>1. whitelist = NoWhitelist \/ (whitelist \in Seq(Users) /\ Len(whitelist) <= MaxWhitelist)
    BY DEF SaleInv, TypeOK
  <2>2. \/ whitelist' = whitelist
        \/ /\ whitelist # NoWhitelist /\ Len(whitelist) # 0
           /\ \E m \in 1..Len(whitelist) : whitelist' = WithoutSlot(m)
    BY DEF CompletePurchase, WhitelistCheck, Slots
  <2>3. ASSUME whitelist \in Seq(Users), Len(whitelist) <= MaxWhitelist, Len(whitelist) # 0,
               NEW m \in 1..Len(whitelist), whitelist' = WithoutSlot(m)
        PROVE  whitelist' \in Seq(Users) /\ Len(whitelist') <= MaxWhitelist
    <3>1. Len(whitelist) \in Nat /\ Len(whitelist) - 1 \in Nat
      BY <2>3
    <3>2. whitelist' \in [1..(Len(whitelist) - 1) -> Users]
      BY <2>3, <3>1 DEF WithoutSlot
    <3>3. whitelist' \in Seq(Users) /\ Len(whitelist') = Len(whitelist) - 1
      BY <3>1, <3>2, InputSequence
    <3> QED
      BY <2>3, <3>1, <3>3, BlockSaleAssumption
  <2> QED
    BY <2>1, <2>2, <2>3
<1>7. TypeOK'
  BY <1>1, <1>3, <1>5, <1>6 DEF SaleInv, TypeOK
<1>8. ConfigurationAccepted' /\ BlockWithinBounds'
  BY <1>1 DEF SaleInv, ConfigurationAccepted, BlockWithinBounds, IsValidConfiguration
<1>9. BlockExists'
  BY BlockSaleAssumption DEF BlockExists
<1>10. EntriesFollowBlock'
  <2> SUFFICES ASSUME NEW j \in Entries PROVE EntryFollowsBlock(j)'
    BY DEF EntriesFollowBlock
  <2>1. EntryFollowsBlock(j)
    BY DEF SaleInv, EntriesFollowBlock
  <2> QED
    BY <1>1, <1>2, <1>3, <1>9, <2>1 DEF EntryFollowsBlock, Entry
<1>11. ProgramHoldsExactlyUnsold'
  <2>1. token'[i] # EntryTokenAccount /\ \A j \in Entries : j # i => token'[j] = token[j]
    BY <1>1, BlockSaleAssumption DEF SaleInv, TypeOK, Accounts
  <2>2. IsPurchased(entry'[i])
    BY <1>2, <1>3 DEF IsPurchased, Entry
  <2> QED
    BY <1>3, <1>9, <2>1, <2>2 DEF SaleInv, ProgramHoldsExactlyUnsold
<1>12. EscrowCoversRefunds'
  <2>1. Deposits' + Deposit(entry[i]) = Deposits + Deposit(entry'[i])
    BY <1>2, <1>3, DepositOfOneChanges
  <2>2. Deposits \in Nat /\ Deposits' \in Nat
    BY <1>2, <1>3, DepositsType DEF Deposits
  <2>3. Deposit(entry[i]) = 0
    BY DEF Deposit
  <2>4. Deposit(entry'[i]) \in Nat
        /\ Deposit(entry'[i]) <= IF destination = Authority THEN price ELSE 0
    BY <1>2, <1>3 DEF Deposit, IsRevealed, Entry
  <2> QED
    BY <1>4, <1>5, <2>1, <2>2, <2>3, <2>4 DEF EscrowCoversRefunds
<1> QED
  BY <1>7, <1>8, <1>10, <1>11, <1>12 DEF SaleInv

\* The block after a mystery was sold.
LEMMA BlockOfMystery ==
  ASSUME TypeOK, NEW i \in Entries, NEW buyer, NEW owner, BuyMystery(i, buyer, owner)
  PROVE  /\ block' \in Block /\ block'.config = block.config
         /\ block'.entries_added = block.entries_added
         /\ block'.added_entries_count = block.added_entries_count
         /\ block'.block_start_timestamp = block.block_start_timestamp
         /\ block'.mysteries_sold_count = block.mysteries_sold_count + 1
<1> DEFINE sold == block.mysteries_sold_count + 1
           end  == IF block.mysteries_sold_count + 1 = block.config.total_mystery_count
                   THEN now ELSE block.mystery_phase_end_timestamp
<1>1. block \in Block /\ now \in Nat
  BY BlockType DEF BuyMystery, BlockComplete, TypeOK
<1>2. sold \in Nat /\ end \in Nat
  BY <1>1 DEF Block
<1>3. block' = [block EXCEPT !.mysteries_sold_count = sold, !.mystery_phase_end_timestamp = end]
  BY DEF BuyMystery
<1>4. sold = block.mysteries_sold_count + 1
  OBVIOUS
<1> HIDE DEF sold, end
<1> QED
  BY <1>1, <1>2, <1>3, <1>4 DEF Block

LEMMA BuyMysteryInv ==
  ASSUME SaleInv, NEW i \in Entries, NEW buyer \in Signers, NEW owner \in Signers,
         BuyMystery(i, buyer, owner)
  PROVE  SaleInv'
<1> DEFINE c == block.config
<1>1. /\ BlockExists /\ i \in block.entries_added
      /\ StateOf(i) = "PreRevealUnowned"
      /\ CompletePurchase(i, buyer, owner, MysteryPrice, Authority)
  BY DEF BuyMystery, BlockComplete
<1>2. /\ block \in Block /\ c \in Configuration /\ IsValidConfiguration(c)
      /\ block.mysteries_sold_count <= c.total_mystery_count
      /\ now \in Nat /\ block.block_start_timestamp <= now
  BY <1>1, BlockType DEF SaleInv, TypeOK, ConfigurationAccepted, BlockWithinBounds
<1>3. /\ ~IsPurchased(entry[i])
      /\ block.mysteries_sold_count # c.total_mystery_count
      /\ now <= block.block_start_timestamp + c.mystery_phase_duration
  BY <1>1, <1>2
     DEF StateOf, GetEntryState, RevealedState, UnrevealedState, IsCompleteBlockRevealable,
         Block, Configuration
<1>4. MysteryPrice \in Nat \ {0}
  <2> DEFINE elapsed == now - block.block_start_timestamp
  <2>1. /\ c.mystery_phase_duration \in Nat /\ c.mystery_start_price_lamports \in Nat
        /\ c.minimum_price_lamports \in Nat /\ elapsed \in Nat
        /\ c.total_mystery_count \in Nat /\ block.mysteries_sold_count \in Nat
    BY <1>2 DEF Configuration, Block
  <2>2. c.minimum_price_lamports >= 1000
    BY <1>2, <2>1, BlockSaleAssumption DEF IsValidConfiguration
  <2>3. c.mystery_phase_duration > 0 => c.mystery_start_price_lamports >= c.minimum_price_lamports
    <3>1. c.total_mystery_count > 0
      BY <1>2, <1>3, <2>1
    <3> QED
      BY <1>2, <2>1, <3>1 DEF IsValidConfiguration
  <2> HIDE DEF c, elapsed
  <2>4. ComputePrice(c.mystery_phase_duration, c.mystery_start_price_lamports,
                     c.minimum_price_lamports, elapsed) \in Nat \ {0}
    BY <2>1, <2>2, <2>3, PriceIsPositive
  <2> QED
    BY <2>4 DEF MysteryPrice, c, elapsed
<1>5. /\ block' \in Block /\ block'.config = c
      /\ block'.entries_added = block.entries_added
      /\ block'.block_start_timestamp = block.block_start_timestamp
      /\ block'.mysteries_sold_count = block.mysteries_sold_count + 1
  BY BlockOfMystery DEF SaleInv
<1>6. block'.mysteries_sold_count <= c.total_mystery_count
  BY <1>2, <1>3, <1>5 DEF Block, Configuration
<1> QED
  BY <1>1, <1>3, <1>4, <1>5, <1>6, PurchaseInv

LEMMA BuyRevealedInv ==
  ASSUME SaleInv, NEW i \in Entries, NEW buyer \in Signers, NEW owner \in Signers,
         BuyRevealed(i, buyer, owner)
  PROVE  SaleInv'
<1> DEFINE c == block.config
<1>1. /\ BlockExists /\ i \in block.entries_added
      /\ StateOf(i) = "Unowned"
      /\ CompletePurchase(i, buyer, owner, FinalSalePrice(i), Admin)
      /\ block' = block
  BY DEF BuyRevealed, BlockComplete
<1>2. /\ block \in Block /\ c \in Configuration /\ IsValidConfiguration(c)
      /\ block.mysteries_sold_count <= c.total_mystery_count
      /\ now \in Nat /\ entry[i] \in Entry
  BY <1>1, BlockType DEF SaleInv, TypeOK, ConfigurationAccepted, BlockWithinBounds
<1>3. ~IsPurchased(entry[i]) /\ IsRevealed(entry[i])
  BY <1>1 DEF StateOf, GetEntryState, RevealedState, UnrevealedState
<1>4. FinalSalePrice(i) \in Nat \ {0}
  <2> DEFINE elapsed == now - entry[i].reveal_timestamp
             e == entry[i]
  <2>1. /\ e.minimum_price_lamports = c.minimum_price_lamports
        /\ e.non_auction_start_price_lamports = c.final_start_price_lamports
        /\ e.reveal_timestamp <= now
    BY <1>1 DEF SaleInv, EntriesFollowBlock, EntryFollowsBlock
  <2>2. /\ e.duration \in Nat /\ e.non_auction_start_price_lamports \in Nat
        /\ e.minimum_price_lamports \in Nat /\ elapsed \in Nat
    BY <1>2, <2>1 DEF Entry
  <2>3. /\ e.minimum_price_lamports >= 1000
        /\ e.non_auction_start_price_lamports >= e.minimum_price_lamports
    BY <1>2, <2>1, <2>2, BlockSaleAssumption DEF IsValidConfiguration
  <2>4. c.minimum_price_lamports \in Nat \ {0}
    BY <2>1, <2>2, <2>3
  <2> HIDE DEF e, elapsed
  <2>5. ComputePrice(e.duration, e.non_auction_start_price_lamports, e.minimum_price_lamports,
                     elapsed) \in Nat \ {0}
    BY <2>2, <2>3, PriceIsPositive
  <2> QED
    BY <2>4, <2>5 DEF FinalSalePrice, e, elapsed
<1> QED
  BY <1>1, <1>2, <1>3, <1>4, PurchaseInv

LEMMA NextInv ==
  ASSUME SaleInv, [Next]_vars
  PROVE  SaleInv'
<1>1. CASE UNCHANGED vars
  <2>1. TypeOK'
    BY <1>1 DEF SaleInv, TypeOK, vars
  <2> QED
    BY <1>1, <2>1, SaleUntouched DEF vars, SaleInv, TypeOK
<1>2. CASE Next
  <2>1. ASSUME NEW keys \in UNION {[1..n -> Users] : n \in 1..MaxWhitelist},
               AddWhitelistEntries(keys)
        PROVE  SaleInv'
    BY <2>1, AddWhitelistEntriesInv
  <2>2. CASE DeleteWhitelist
    BY <2>2, DeleteWhitelistInv
  <2>3. ASSUME NEW config \in Configurations, CreateBlock(config)
        PROVE  SaleInv'
    BY <2>3, CreateBlockInv
  <2>4. ASSUME NEW first \in Entries, NEW n \in 1..MaxEntries,
               NEW sha256s \in [1..n -> Sha256s], AddEntriesToBlock(first, sha256s)
        PROVE  SaleInv'
    BY <2>4, AddEntriesToBlockInv
  <2>5. ASSUME NEW i \in Entries, NEW buyer \in Signers, NEW owner \in Signers,
               BuyMystery(i, buyer, owner) \/ BuyRevealed(i, buyer, owner)
        PROVE  SaleInv'
    BY <2>5, BuyMysteryInv, BuyRevealedInv
  <2>6. ASSUME NEW i \in Entries, NEW start \in 0..MetadataSize, NEW n \in 0..MetadataSize,
               NEW bytes \in [1..n -> Bytes], SetMetadataBytes(i, start, bytes)
        PROVE  SaleInv'
    BY <2>6, SetMetadataBytesInv
  <2>7. ASSUME NEW first \in Entries, NEW n \in 1..MaxEntries, NEW salts \in [1..n -> Salts],
               RevealEntries(first, salts)
        PROVE  SaleInv'
    BY <2>7, RevealEntriesInv
  <2>8. ASSUME NEW i \in Entries, NEW owner \in Signers, NEW destination \in Accounts,
               Refund(i, owner, destination)
        PROVE  SaleInv'
    BY <2>8, RefundInv
  <2>9. ASSUME NEW i \in Entries, NEW from \in Signers, NEW to \in Signers,
               TransferToken(i, from, to)
        PROVE  SaleInv'
    BY <2>9, TransferTokenInv
  <2>10. ASSUME NEW from \in Signers, NEW to \in Accounts, NEW amount \in TransferAmounts,
                SystemTransfer(from, to, amount)
         PROVE  SaleInv'
    BY <2>10, SystemTransferInv
  <2>11. CASE Tick
    BY <2>11, TickInv
  <2> QED
    BY <1>2, <2>1, <2>2, <2>3, <2>4, <2>5, <2>6, <2>7, <2>8, <2>9, <2>10, <2>11 DEF Next
<1> QED
  BY <1>1, <1>2

-----------------------------------------------------------------------------
(***************************************************************************)
(* The theorems.                                                           *)
(***************************************************************************)
THEOREM SaleInvariant == Spec => []SaleInv
  BY InitInv, NextInv, PTL DEF Spec

(***************************************************************************)
(* No instruction ever leaves an account in a state it cannot have; no     *)
(* unchecked subtraction of the handlers goes below zero.                  *)
(***************************************************************************)
THEOREM TypeCorrect == Spec => []TypeOK
<1>1. SaleInv => TypeOK
  BY DEF SaleInv
<1> QED
  BY <1>1, SaleInvariant, PTL

(***************************************************************************)
(* The authority account can always pay back every deposit that is owed.   *)
(***************************************************************************)
THEOREM EscrowIsSolvent == Spec => []EscrowCoversRefunds
<1>1. SaleInv => EscrowCoversRefunds
  BY DEF SaleInv
<1> QED
  BY <1>1, SaleInvariant, PTL

(***************************************************************************)
(* The program holds the token of an entry until it is paid for, and no    *)
(* longer.                                                                 *)
(***************************************************************************)
THEOREM UnsoldTokensAreHeld == Spec => []ProgramHoldsExactlyUnsold
<1>1. SaleInv => ProgramHoldsExactlyUnsold
  BY DEF SaleInv
<1> QED
  BY <1>1, SaleInvariant, PTL
=============================================================================
