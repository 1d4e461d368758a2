-------------------------- MODULE LifecycleProofs --------------------------
(***************************************************************************)
(* What a step of the sale of a block may never do, and that the sale      *)
(* implements module EntryLifecycle, for every value of the constants.     *)
(***************************************************************************)
EXTENDS BlockSaleProofs

(***************************************************************************)
(* A step that is not about the block's progress.                          *)
(***************************************************************************)
LEMMA StepsOfTheBlock ==
  ASSUME SaleInv, [Next]_vars
  PROVE  \/ UNCHANGED <<now, block>>
         \/ now' = now + 1 /\ UNCHANGED <<block, entry>>
         \/ ~BlockExists /\ (\E config \in Configurations : CreateBlock(config))
         \/ /\ BlockExists /\ ~BlockComplete
            /\ \E first \in Entries, n \in 1..MaxEntries :
                 \E sha256s \in [1..n -> Sha256s] : AddEntriesToBlock(first, sha256s)
         \/ /\ BlockComplete /\ ~Revealable
            /\ \E i \in Entries, buyer \in Signers, owner \in Signers : BuyMystery(i, buyer, owner)
<1>1. CASE UNCHANGED vars
  BY <1>1 DEF vars
<1>2. CASE Next
  <2>1. ASSUME NEW i \in Entries, NEW buyer \in Signers, NEW owner \in Signers,
               BuyMystery(i, buyer, owner)
        PROVE  BlockComplete /\ ~Revealable
    BY <2>1 DEF BuyMystery, StateOf, GetEntryState, RevealedState, UnrevealedState, Revealable
  <2>2. ASSUME NEW first \in Entries, NEW n \in 1..MaxEntries,
               NEW sha256s \in [1..n -> Sha256s], AddEntriesToBlock(first, sha256s)
        PROVE  BlockExists /\ ~BlockComplete
    BY <2>2 DEF AddEntriesToBlock, AcceptsEntries, BlockComplete
  <2>3. ASSUME NEW config \in Configurations, CreateBlock(config)
        PROVE  ~BlockExists
    BY <2>3 DEF CreateBlock
  <2> QED
    BY <1>2, <2>1, <2>2, <2>3
       DEF Next, AddWhitelistEntries, DeleteWhitelist, BuyRevealed, CompletePurchase,
           SetMetadataBytes, RevealEntries, Refund, TransferToken, SystemTransfer, Tick
<1> QED
  BY <1>1, <1>2

LEMMA RevealableStep ==
  ASSUME SaleInv, [Next]_vars, BlockComplete, Revealable
  PROVE  BlockComplete' /\ Revealable'
<1>1. \/ UNCHANGED <<now, block>>
      \/ now' = now + 1 /\ UNCHANGED <<block, entry>>
  BY StepsOfTheBlock DEF BlockComplete
<1>2. /\ block \in Block /\ block.config \in Configuration /\ now \in Nat
  BY BlockType DEF SaleInv, TypeOK, BlockComplete
<1> QED
  BY <1>1, <1>2
     DEF BlockComplete, BlockExists, IsBlockComplete, Revealable, IsCompleteBlockRevealable,
         Block, Configuration

(***************************************************************************)
(* The mystery phase of a block never comes back once it is over.          *)
(***************************************************************************)
THEOREM RevealableStays == Spec => RevealableForever
<1>1. SaleInv /\ [Next]_vars => [BlockComplete /\ Revealable => BlockComplete' /\ Revealable']_vars
  BY RevealableStep
<1> QED
  BY <1>1, SaleInvariant, PTL DEF Spec, RevealableForever

-----------------------------------------------------------------------------
(***************************************************************************)
(* What a step does to the entries.                                        *)
(***************************************************************************)

\* The fields of an entry on which its status depends.
SameStatusFields(i) ==
  /\ entry'[i].reveal_sha256 = entry[i].reveal_sha256
  /\ entry'[i].reveal_timestamp = entry[i].reveal_timestamp
  /\ entry'[i].purchase_price_lamports = entry[i].purchase_price_lamports
  /\ entry'[i].refund_awarded = entry[i].refund_awarded

SameEntry(i) == SameStatusFields(i) /\ entry'[i].metadata = entry[i].metadata

LEMMA PurchaseOfEntry ==
  ASSUME SaleInv, NEW i \in Entries, NEW buyer, NEW owner, NEW price, NEW destination,
         CompletePurchase(i, buyer, owner, price, destination)
  PROVE  /\ \A j \in Entries : j # i => entry'[j] = entry[j]
         /\ entry'[i].reveal_sha256 = entry[i].reveal_sha256
         /\ entry'[i].reveal_timestamp = entry[i].reveal_timestamp
         /\ entry'[i].refund_awarded = entry[i].refund_awarded
         /\ entry'[i].metadata = entry[i].metadata
         /\ entry'[i].purchase_price_lamports = price
<1>1. entry' = [entry EXCEPT ![i].purchase_price_lamports = price]
      /\ entry \in [Entries -> Entry] /\ entry[i] \in Entry
  BY DEF CompletePurchase, PurchasedFor, SaleInv, TypeOK
<1> QED
  BY <1>1 DEF Entry

LEMMA RefundOfEntry ==
  ASSUME SaleInv, NEW i \in Entries, NEW owner, NEW destination, Refund(i, owner, destination)
  PROVE  /\ \A j \in Entries : j # i => entry'[j] = entry[j]
         /\ entry'[i].reveal_sha256 = entry[i].reveal_sha256
         /\ entry'[i].reveal_timestamp = entry[i].reveal_timestamp
         /\ entry'[i].refund_awarded = TRUE
         /\ entry'[i].metadata = entry[i].metadata
         /\ entry'[i].purchase_price_lamports = entry[i].purchase_price_lamports
<1>1. entry' = [entry EXCEPT ![i].refund_awarded = TRUE]
      /\ entry \in [Entries -> Entry] /\ entry[i] \in Entry
  BY DEF Refund, SaleInv, TypeOK
<1> QED
  BY <1>1 DEF Entry

LEMMA WrittenEntry ==
  ASSUME SaleInv, NEW i \in Entries, NEW start, NEW bytes, SetMetadataBytes(i, start, bytes)
  PROVE  /\ ~IsRevealed(entry[i])
         /\ \A j \in Entries : j # i => entry'[j] = entry[j]
         /\ SameStatusFields(i)
<1> DEFINE metadata == [k \in 0..(MetadataSize-1) |->
                          IF k \in start..(start + Len(bytes) - 1)
                          THEN bytes[k - start + 1] ELSE entry[i].metadata[k]]
<1>1. entry' = [entry EXCEPT ![i].metadata = metadata]
      /\ entry \in [Entries -> Entry] /\ entry[i] \in Entry
  BY DEF SetMetadataBytes, SaleInv, TypeOK
<1>2. ~IsRevealed(entry[i])
  BY DEF SetMetadataBytes, MetadataWritable, GetEntryStateAlone, RevealedState
<1> HIDE DEF metadata
<1> QED
  BY <1>1, <1>2 DEF Entry, SameStatusFields

LEMMA RevealedEntries ==
  ASSUME SaleInv, NEW first, NEW salts, RevealEntries(first, salts)
  PROVE  \E batch \in SUBSET Entries :
           \A i \in Entries :
             IF i \in batch
             THEN /\ i \in block.entries_added
                  /\ ~IsRevealed(entry[i]) /\ IsRevealed(entry'[i])
                  /\ entry'[i].reveal_timestamp = now
                  /\ entry[i].reveal_sha256.metadata = entry[i].metadata
                  /\ entry'[i].purchase_price_lamports = entry[i].purchase_price_lamports
                  /\ entry'[i].refund_awarded = entry[i].refund_awarded
                  /\ entry'[i].metadata = entry[i].metadata
             ELSE entry'[i] = entry[i]
<1> DEFINE all   == first..(first + Len(salts) - 1)
           batch == Entries \cap all
<1>1. /\ entry' = [i \in Entries |->
                     IF i \in all
                     THEN [entry[i] EXCEPT !.reveal_timestamp = now, !.reveal_sha256 = Zeroes]
                     ELSE entry[i]]
      /\ \A i \in all : /\ i \in block.entries_added
                         /\ StateOf(i) \in {"WaitingForRevealUnowned", "WaitingForRevealOwned"}
                         /\ entry[i].reveal_sha256 = [metadata |-> entry[i].metadata,
                                                      salt |-> salts[i - first + 1]]
  BY DEF RevealEntries
<1> HIDE DEF all
<1>2. \A i \in Entries : entry[i] \in Entry
  BY DEF SaleInv, TypeOK
<1>3. \A i \in all : ~IsRevealed(entry[i]) /\ entry[i].reveal_sha256.metadata = entry[i].metadata
  <2> SUFFICES ASSUME NEW i \in all
               PROVE  ~IsRevealed(entry[i]) /\ entry[i].reveal_sha256.metadata = entry[i].metadata
    OBVIOUS
  <2>1. StateOf(i) \in {"WaitingForRevealUnowned", "WaitingForRevealOwned"}
    BY <1>1
  <2>2. ~IsRevealed(entry[i])
    BY <2>1 DEF StateOf, GetEntryState, RevealedState
  <2>3. entry[i].reveal_sha256 = [metadata |-> entry[i].metadata, salt |-> salts[i - first + 1]]
    BY <1>1
  <2> QED
    BY <2>2, <2>3
<1>4. \A i \in Entries :
        i \in all => /\ IsRevealed(entry'[i])
                    /\ entry'[i].reveal_timestamp = now
                    /\ entry'[i].purchase_price_lamports = entry[i].purchase_price_lamports
                    /\ entry'[i].refund_awarded = entry[i].refund_awarded
                    /\ entry'[i].metadata = entry[i].metadata
  BY <1>1, <1>2 DEF IsRevealed, Entry
<1>5. \A i \in Entries : i \notin all => entry'[i] = entry[i]
  BY <1>1
<1> WITNESS batch \in SUBSET Entries
<1> QED
  BY <1>1, <1>3, <1>4, <1>5

LEMMA AddedEntries ==
  ASSUME SaleInv, NEW first \in Entries, NEW n \in 1..MaxEntries,
         NEW sha256s \in [1..n -> Sha256s],
         AddEntriesToBlock(first, sha256s)
  PROVE  \E new \in SUBSET Entries :
           /\ new \cap block.entries_added = {}
           /\ block' = BlockWith(new)
           /\ \A i \in Entries :
                IF i \in new THEN /\ entry'[i].reveal_timestamp = 0
                                  /\ entry'[i].purchase_price_lamports = 0
                ELSE entry'[i] = entry[i]
<1> DEFINE new == NotYetAdded(first..(first + Len(sha256s) - 1))
<1>1. Len(sha256s) = n /\ n \in Nat /\ first \in Nat
  BY InputSequence, EntriesType
<1>2. new \subseteq Entries /\ new \cap block.entries_added = {}
  <2>1. block.config \in Configuration /\ block.config.total_entry_count <= MaxEntries
    BY BlockType DEF SaleInv, AddEntriesToBlock, AcceptsEntries
  <2>2. first + n <= block.config.total_entry_count
    BY <1>1 DEF AddEntriesToBlock
  <2>3. first + n <= MaxEntries
    BY <1>1, <2>1, <2>2, EntriesType DEF Configuration
  <2> QED
    BY <1>1, <2>3, EntriesType DEF NotYetAdded
<1>3. \A i \in new : i - first + 1 \in 1..n
  BY <1>1, <1>2, EntriesType DEF NotYetAdded
<1>4. /\ block' = BlockWith(new)
      /\ entry' = [i \in Entries |-> IF i \in new THEN AddedEntry(sha256s[i - first + 1])
                                                  ELSE entry[i]]
  BY DEF AddEntriesToBlock
<1> HIDE DEF new
<1>5. \A sha256 : /\ AddedEntry(sha256).reveal_timestamp = 0
                  /\ AddedEntry(sha256).purchase_price_lamports = 0
  BY DEF AddedEntry, NewEntry
<1>6. \A i \in Entries : IF i \in new THEN /\ entry'[i].reveal_timestamp = 0
                                           /\ entry'[i].purchase_price_lamports = 0
                         ELSE entry'[i] = entry[i]
  BY <1>2, <1>3, <1>4, <1>5
<1> QED
  BY <1>2, <1>4, <1>6

-----------------------------------------------------------------------------
(***************************************************************************)
(* The commitment.                                                         *)
(***************************************************************************)

\* The step keeps the promise that the commitment to entry i makes.
Bound(i) ==
  IF IsRevealed(entry[i])
  THEN IsRevealed(entry'[i]) /\ entry'[i].metadata = entry[i].metadata
  ELSE \/ entry'[i].reveal_sha256 = entry[i].reveal_sha256
       \/ IsRevealed(entry'[i]) /\ entry'[i].metadata = entry[i].reveal_sha256.metadata

LEMMA SameEntryIsBound ==
  ASSUME NEW i \in Entries, SameEntry(i)
  PROVE  Bound(i)
  BY DEF SameEntry, SameStatusFields, Bound, IsRevealed

LEMMA CommitmentStep ==
  ASSUME SaleInv, [Next]_vars, NEW i \in Entries, BlockExists, i \in block.entries_added
  PROVE  Bound(i)
<1>1. CASE UNCHANGED entry
  BY <1>1, SameEntryIsBound DEF SameEntry, SameStatusFields
<1>2. ASSUME NEW first \in Entries, NEW n \in 1..MaxEntries,
             NEW sha256s \in [1..n -> Sha256s], AddEntriesToBlock(first, sha256s)
      PROVE  Bound(i)
  <2>1. entry'[i] = entry[i]
    BY <1>2, AddedEntries
  <2> QED
    BY <2>1, SameEntryIsBound DEF SameEntry, SameStatusFields
<1>3. ASSUME NEW j \in Entries, NEW buyer \in Signers, NEW owner \in Signers,
             BuyMystery(j, buyer, owner) \/ BuyRevealed(j, buyer, owner)
      PROVE  Bound(i)
  <2>1. \E price, destination : CompletePurchase(j, buyer, owner, price, destination)
    BY <1>3 DEF BuyMystery, BuyRevealed
  <2>2. /\ entry'[i].reveal_sha256 = entry[i].reveal_sha256
        /\ entry'[i].metadata = entry[i].metadata
    BY <2>1, PurchaseOfEntry
  <2> QED
    BY <2>2 DEF Bound, IsRevealed
<1>4. ASSUME NEW j \in Entries, NEW start \in 0..MetadataSize, NEW n \in 0..MetadataSize,
             NEW bytes \in [1..n -> Bytes], SetMetadataBytes(j, start, bytes)
      PROVE  Bound(i)
  BY <1>4, WrittenEntry DEF Bound, SameStatusFields, IsRevealed
<1>5. ASSUME NEW first \in Entries, NEW n \in 1..MaxEntries, NEW salts \in [1..n -> Salts],
             RevealEntries(first, salts)
      PROVE  Bound(i)
  BY <1>5, RevealedEntries DEF Bound
<1>6. ASSUME NEW j \in Entries, NEW owner \in Signers, NEW destination \in Accounts,
             Refund(j, owner, destination)
      PROVE  Bound(i)
  <2>1. /\ entry'[i].reveal_sha256 = entry[i].reveal_sha256
        /\ entry'[i].metadata = entry[i].metadata
    BY <1>6, RefundOfEntry
  <2> QED
    BY <2>1 DEF Bound, IsRevealed
<1> QED
  BY <1>1, <1>2, <1>3, <1>4, <1>5, <1>6
     DEF Next, vars, AddWhitelistEntries, DeleteWhitelist, CreateBlock, TransferToken,
         SystemTransfer, Tick

(***************************************************************************)
(* What is revealed is what was committed to before the sale, and stays.   *)
(***************************************************************************)
THEOREM CommitmentIsBinding == Spec => CommitmentBinding
<1>1. SaleInv /\ [Next]_vars =>
        [\A i \in Entries : BlockExists /\ i \in block.entries_added =>
           IF IsRevealed(entry[i])
           THEN IsRevealed(entry'[i]) /\ entry'[i].metadata = entry[i].metadata
           ELSE \/ entry'[i].reveal_sha256 = entry[i].reveal_sha256
                \/ IsRevealed(entry'[i])
                   /\ entry'[i].metadata = entry[i].reveal_sha256.metadata]_vars
  BY CommitmentStep DEF Bound
<1> QED
  BY <1>1, SaleInvariant, PTL DEF Spec, CommitmentBinding

-----------------------------------------------------------------------------
(***************************************************************************)
(* The refinement.  Besides SaleInv it needs that the instruction that     *)
(* reveals entries, which leaves a timestamp in them, succeeds only once   *)
(* the block is revealable; an entry that was added without a commitment   *)
(* is revealed with no timestamp.                                          *)
(***************************************************************************)
RevealedAfterMysteries ==
  BlockExists => \A i \in block.entries_added :
                   entry[i].reveal_timestamp # 0 => BlockComplete /\ Revealable

\* A refund is for something that was bought.
RefundedWereBought == \A i \in Entries : entry[i].refund_awarded => IsPurchased(entry[i])

\* So that the timestamp of a reveal is not taken for none.
ClockStarted == now # 0

LifecycleInv == SaleInv /\ RevealedAfterMysteries /\ RefundedWereBought /\ ClockStarted

LEMMA ClockStartedStep ==
  ASSUME LifecycleInv, [Next]_vars
  PROVE  ClockStarted'
<1>1. UNCHANGED now \/ now' = now + 1
  BY StepsOfTheBlock
     DEF LifecycleInv, CreateBlock, AddEntriesToBlock, BuyMystery, CompletePurchase
<1> QED
  BY <1>1 DEF LifecycleInv, SaleInv, TypeOK, ClockStarted

LEMMA AddedAreEntries ==
  ASSUME SaleInv, BlockExists
  PROVE  block.entries_added \subseteq Entries
  BY BlockType DEF SaleInv, Block

LEMMA RevealedAfterMysteriesStep ==
  ASSUME LifecycleInv, [Next]_vars
  PROVE  RevealedAfterMysteries'
<1> SUFFICES ASSUME BlockExists', NEW i \in block'.entries_added,
                    entry'[i].reveal_timestamp # 0, ~(BlockComplete /\ Revealable)
             PROVE  FALSE
  BY RevealableStep DEF LifecycleInv, RevealedAfterMysteries
<1>1. SaleInv /\ SaleInv'
  BY NextInv DEF LifecycleInv
<1>2. BlockExists => \A j \in block.entries_added : entry[j].reveal_timestamp = 0
  BY DEF LifecycleInv, RevealedAfterMysteries
<1>3. CASE UNCHANGED <<block, entry>>
  BY <1>2, <1>3 DEF BlockExists
<1>4. ASSUME NEW config \in Configurations, CreateBlock(config)
      PROVE  FALSE
  <2>1. block'.entries_added = {}
    BY <1>4 DEF CreateBlock
  <2> QED
    BY <2>1
<1>5. ASSUME NEW first \in Entries, NEW n \in 1..MaxEntries,
             NEW sha256s \in [1..n -> Sha256s], AddEntriesToBlock(first, sha256s)
      PROVE  FALSE
  <2>1. PICK new \in SUBSET Entries :
          /\ block' = BlockWith(new)
          /\ \A j \in Entries : IF j \in new THEN entry'[j].reveal_timestamp = 0
                                ELSE entry'[j] = entry[j]
    BY <1>1, <1>5, AddedEntries
  <2>2. BlockExists
    BY <1>5 DEF AddEntriesToBlock, AcceptsEntries
  <2>3. block'.entries_added = block.entries_added \cup new
    BY <1>1, <2>1, <2>2, BlockWithType DEF SaleInv
  <2>4. i \in Entries
    BY <1>1, <2>2, <2>3, AddedAreEntries
  <2>5. i \notin new
    BY <2>1, <2>4
  <2> QED
    BY <1>2, <2>1, <2>2, <2>3, <2>4, <2>5
<1>6. ASSUME NEW j \in Entries, NEW buyer \in Signers, NEW owner \in Signers,
             BuyMystery(j, buyer, owner) \/ BuyRevealed(j, buyer, owner)
      PROVE  FALSE
  <2>1. \E price, destination : CompletePurchase(j, buyer, owner, price, destination)
    BY <1>6 DEF BuyMystery, BuyRevealed
  <2>2. BlockExists /\ block'.entries_added = block.entries_added
    BY <1>1, <1>6, BlockType DEF BuyMystery, BuyRevealed, BlockComplete, SaleInv, Block
  <2>3. i \in Entries
    BY <1>1, <2>2, AddedAreEntries
  <2>4. entry'[i].reveal_timestamp = entry[i].reveal_timestamp
    BY <1>1, <2>1, <2>3, PurchaseOfEntry
  <2> QED
    BY <1>2, <2>2, <2>4
<1>7. ASSUME NEW j \in Entries, NEW start \in 0..MetadataSize, NEW n \in 0..MetadataSize,
             NEW bytes \in [1..n -> Bytes], SetMetadataBytes(j, start, bytes)
      PROVE  FALSE
  BY <1>7 DEF SetMetadataBytes
<1>8. ASSUME NEW first \in Entries, NEW n \in 1..MaxEntries, NEW salts \in [1..n -> Salts],
             RevealEntries(first, salts)
      PROVE  FALSE
  BY <1>8 DEF RevealEntries
<1>9. ASSUME NEW j \in Entries, NEW owner \in Signers, NEW destination \in Accounts,
             Refund(j, owner, destination)
      PROVE  FALSE
  <2>1. BlockExists /\ block' = block
    BY <1>9 DEF Refund, BlockComplete
  <2>2. i \in Entries
    BY <1>1, <2>1, AddedAreEntries
  <2>3. entry'[i].reveal_timestamp = entry[i].reveal_timestamp
    BY <1>1, <1>9, <2>2, RefundOfEntry
  <2> QED
    BY <1>2, <2>1, <2>3
<1> QED
  BY <1>3, <1>4, <1>5, <1>6, <1>7, <1>8, <1>9
     DEF Next, vars, AddWhitelistEntries, DeleteWhitelist, TransferToken, SystemTransfer, Tick

LEMMA RefundedWereBoughtStep ==
  ASSUME LifecycleInv, [Next]_vars
  PROVE  RefundedWereBought'
<1> SUFFICES ASSUME NEW i \in Entries, entry'[i].refund_awarded
             PROVE  IsPurchased(entry'[i])
  BY DEF RefundedWereBought, IsPurchased
<1>1. SaleInv /\ SaleInv' /\ (entry[i].refund_awarded => IsPurchased(entry[i]))
  BY NextInv DEF LifecycleInv, RefundedWereBought
<1>2. CASE UNCHANGED entry
  BY <1>1, <1>2 DEF IsPurchased
<1>3. ASSUME NEW first \in Entries, NEW n \in 1..MaxEntries,
             NEW sha256s \in [1..n -> Sha256s], AddEntriesToBlock(first, sha256s)
      PROVE  IsPurchased(entry'[i])
  <2>1. \A sha256 : AddedEntry(sha256).refund_awarded = FALSE
    BY DEF AddedEntry, NewEntry
  <2>2. entry'[i] = entry[i] \/ \E sha256 : entry'[i] = AddedEntry(sha256)
    BY <1>3 DEF AddEntriesToBlock
  <2> QED
    BY <1>1, <2>1, <2>2
<1>4. ASSUME NEW j \in Entries, NEW buyer \in Signers, NEW owner \in Signers,
             BuyMystery(j, buyer, owner) \/ BuyRevealed(j, buyer, owner)
      PROVE  IsPurchased(entry'[i])
  <2>1. \E price, destination : CompletePurchase(j, buyer, owner, price, destination)
    BY <1>4 DEF BuyMystery, BuyRevealed
  <2>2. CASE i = j
    <3>1. token'[i] # EntryTokenAccount
      BY <1>1, <2>1, <2>2, BlockSaleAssumption DEF CompletePurchase, SaleInv, TypeOK, Accounts
    <3>2. BlockExists' /\ i \in block'.entries_added
      <4>1. CASE BuyRevealed(j, buyer, owner)
        BY <2>2, <4>1 DEF BuyRevealed, BlockComplete, BlockExists
      <4>2. CASE BuyMystery(j, buyer, owner)
        BY <1>1, <2>2, <4>2, BlockOfMystery, BlockSaleAssumption
           DEF SaleInv, BuyMystery, BlockExists
      <4> QED
        BY <1>4, <4>1, <4>2
    <3> QED
      BY <1>1, <3>1, <3>2 DEF SaleInv, ProgramHoldsExactlyUnsold
  <2>3. CASE i # j
    <3>1. entry'[i] = entry[i]
      BY <1>1, <2>1, <2>3, PurchaseOfEntry
    <3> QED
      BY <1>1, <3>1
  <2> QED
    BY <2>2, <2>3
<1>5. ASSUME NEW j \in Entries, NEW start \in 0..MetadataSize, NEW n \in 0..MetadataSize,
             NEW bytes \in [1..n -> Bytes], SetMetadataBytes(j, start, bytes)
      PROVE  IsPurchased(entry'[i])
  BY <1>1, <1>5, WrittenEntry DEF SameStatusFields, IsPurchased
<1>6. ASSUME NEW first \in Entries, NEW n \in 1..MaxEntries, NEW salts \in [1..n -> Salts],
             RevealEntries(first, salts)
      PROVE  IsPurchased(entry'[i])
  BY <1>1, <1>6, RevealedEntries DEF IsPurchased
<1>7. ASSUME NEW j \in Entries, NEW owner \in Signers, NEW destination \in Accounts,
             Refund(j, owner, destination)
      PROVE  IsPurchased(entry'[i])
  <2>1. IsPurchased(entry[j])
    BY <1>7 DEF Refund, Refundable, StateOf, GetEntryState, RevealedState, UnrevealedState
  <2> QED
    BY <1>1, <1>7, <2>1, RefundOfEntry DEF IsPurchased
<1> QED
  BY <1>2, <1>3, <1>4, <1>5, <1>6, <1>7
     DEF Next, vars, AddWhitelistEntries, DeleteWhitelist, CreateBlock, TransferToken,
         SystemTransfer, Tick

\* The abstract state.
Status == [i \in Entries |-> StatusOf(i)]

LEMMA StatusFollowsFields ==
  ASSUME BlockExists' = BlockExists, block'.entries_added = block.entries_added,
         NEW i \in Entries, SameStatusFields(i)
  PROVE  StatusOf(i)' = StatusOf(i)
  BY DEF StatusOf, SameStatusFields, IsRevealed, IsPurchased

LEMMA NothingToSee ==
  ASSUME UNCHANGED <<now, block>>, \A i \in Entries : SameStatusFields(i)
  PROVE  UNCHANGED <<Phase, Status>>
<1>1. UNCHANGED Phase
  BY DEF Phase, BlockComplete, BlockExists, IsBlockComplete, Revealable, IsCompleteBlockRevealable
<1>2. \A i \in Entries : StatusOf(i)' = StatusOf(i)
  BY StatusFollowsFields DEF BlockExists
<1> QED
  BY <1>1, <1>2 DEF Status

\* The actions of the abstract specification, on the abstract state.
LEMMA AbstractNext ==
  Lifecycle!Next <=>
    \/ \E new \in SUBSET Entries : \E bare \in SUBSET new :
         /\ Phase = "Setup"
         /\ \A i \in new : Status[i] = "Absent"
         /\ Status' = [i \in Entries |-> IF i \in bare THEN "Bare"
                                        ELSE IF i \in new THEN "Hidden" ELSE Status[i]]
         /\ Phase' \in {"Setup", "Mystery", "Reveal"}
    \/ \E i \in Entries :
         \/ /\ Phase = "Mystery"
            /\ Status[i] = "Hidden"
            /\ Status' = [Status EXCEPT ![i] = "Escrowed"]
            /\ Phase' \in {"Mystery", "Reveal"}
         \/ /\ Phase = "Reveal"
            /\ Status[i] = "Escrowed"
            /\ Status' = [Status EXCEPT ![i] = "Refunded"]
            /\ Phase' = Phase
         \/ /\ Phase = "Reveal"
            /\ Status[i] = "OnSale"
            /\ Status' = [Status EXCEPT ![i] = "Settled"]
            /\ Phase' = Phase
         \/ /\ Phase # "Setup"
            /\ Status[i] = "Bare"
            /\ Status' = [Status EXCEPT ![i] = "Settled"]
            /\ Phase' = Phase
    \/ /\ Phase = "Mystery"
       /\ Phase' = "Reveal"
       /\ Status' = Status
    \/ \E batch \in SUBSET Entries :
         /\ Phase = "Reveal"
         /\ \A i \in batch : Status[i] \in {"Hidden", "Escrowed", "Refunded"}
         /\ Status' = [i \in Entries |-> IF i \notin batch THEN Status[i]
                                        ELSE IF Status[i] = "Hidden" THEN "OnSale"
                                                                     ELSE "Settled"]
         /\ Phase' = Phase
  BY DEF Lifecycle!Next, Lifecycle!Add, Lifecycle!SellMystery, Lifecycle!Refund, Lifecycle!Sell,
         Lifecycle!SellBare, Lifecycle!EndMysteries, Lifecycle!Reveal, Lifecycle!Phases, Status

LEMMA LifecycleInit ==
  ASSUME Init
  PROVE  Lifecycle!Init
  BY DEF Init, Lifecycle!Init, Phase, StatusOf, BlockComplete, BlockExists

LEMMA StatusOfOneChanges ==
  ASSUME NEW i \in Entries, NEW new,
         \A j \in Entries : j # i => StatusOf(j)' = StatusOf(j),
         StatusOf(i)' = new
  PROVE  Status' = [Status EXCEPT ![i] = new]
  BY DEF Status

LEMMA StatusAt ==
  ASSUME NEW i \in Entries
  PROVE  Status[i] = StatusOf(i)
  BY DEF Status

LEMMA CreateBlockRefines ==
  ASSUME LifecycleInv, NEW config \in Configurations, CreateBlock(config)
  PROVE  UNCHANGED <<Phase, Status>>
<1>1. /\ block'.added_entries_count = 0 /\ block'.config = config /\ block'.entries_added = {}
      /\ ~BlockExists
      /\ config.total_entry_count # 0
  BY DEF CreateBlock, IsValidConfiguration
<1>2. Phase = "Setup" /\ Phase' = "Setup"
  BY <1>1 DEF Phase, BlockComplete, IsBlockComplete
<1>3. \A i \in Entries : StatusOf(i) = "Absent" /\ StatusOf(i)' = "Absent"
  BY <1>1 DEF StatusOf
<1> QED
  BY <1>2, <1>3 DEF Status

LEMMA AddEntriesToBlockRefines ==
  ASSUME LifecycleInv, NEW first \in Entries, NEW n \in 1..MaxEntries,
         NEW sha256s \in [1..n -> Sha256s], AddEntriesToBlock(first, sha256s)
  PROVE  Lifecycle!Next
<1>1. SaleInv /\ SaleInv' /\ BlockExists /\ ~IsBlockComplete(block)
  BY AddEntriesToBlockInv DEF LifecycleInv, AddEntriesToBlock, AcceptsEntries
<1>2. PICK new \in SUBSET Entries :
        /\ new \cap block.entries_added = {}
        /\ block' = BlockWith(new)
        /\ \A i \in Entries : IF i \in new THEN /\ entry'[i].reveal_timestamp = 0
                                                /\ entry'[i].purchase_price_lamports = 0
                              ELSE entry'[i] = entry[i]
  BY <1>1, AddedEntries
<1> DEFINE bare == {i \in new : IsRevealed(entry'[i])}
<1>3. /\ block' \in Block /\ BlockExists'
      /\ block'.entries_added = block.entries_added \cup new
  BY <1>1, <1>2, BlockWithType, BlockSaleAssumption DEF SaleInv, BlockExists
<1>4. Phase = "Setup" /\ Phase' \in {"Setup", "Mystery", "Reveal"}
  BY <1>1 DEF Phase, BlockComplete
<1>5. \A i \in new : /\ StatusOf(i) = "Absent" /\ Status[i] = "Absent"
                     /\ StatusOf(i)' = IF i \in bare THEN "Bare" ELSE "Hidden"
  <2> SUFFICES ASSUME NEW i \in new
               PROVE  /\ StatusOf(i) = "Absent"
                      /\ StatusOf(i)' = IF i \in bare THEN "Bare" ELSE "Hidden"
    BY StatusAt
  <2>1. StatusOf(i) = "Absent"
    BY <1>2 DEF StatusOf
  <2>2. entry'[i].reveal_timestamp = 0
    BY <1>2
  <2>3. ~IsPurchased(entry'[i])
    BY <1>2 DEF IsPurchased
  <2> QED
    BY <1>3, <2>1, <2>2, <2>3 DEF StatusOf
<1>6. \A i \in Entries : i \notin new => StatusOf(i)' = StatusOf(i)
  BY <1>1, <1>2, <1>3 DEF StatusOf
<1>7. Status' = [i \in Entries |-> IF i \in bare THEN "Bare"
                                  ELSE IF i \in new THEN "Hidden" ELSE Status[i]]
  BY <1>5, <1>6 DEF Status
<1>8. bare \in SUBSET new
  OBVIOUS
<1> HIDE DEF bare
<1> QED
  BY <1>4, <1>5, <1>7, <1>8, AbstractNext

LEMMA BuyMysteryRefines ==
  ASSUME LifecycleInv, NEW i \in Entries, NEW buyer \in Signers, NEW owner \in Signers,
         BuyMystery(i, buyer, owner)
  PROVE  Lifecycle!Next
<1>1. /\ SaleInv /\ SaleInv'
      /\ BlockComplete /\ ~Revealable /\ BlockExists /\ i \in block.entries_added
      /\ ~IsRevealed(entry[i]) /\ ~IsPurchased(entry[i])
  BY BuyMysteryInv
     DEF LifecycleInv, BuyMystery, BlockComplete, StateOf, GetEntryState, RevealedState,
         UnrevealedState, Revealable
<1>2. /\ block' \in Block /\ BlockExists'
      /\ block'.entries_added = block.entries_added
      /\ block'.config = block.config
      /\ block'.added_entries_count = block.added_entries_count
  BY <1>1, BlockOfMystery, BlockSaleAssumption DEF SaleInv, BlockExists
<1>3. /\ \A j \in Entries : j # i => entry'[j] = entry[j]
      /\ entry'[i].reveal_sha256 = entry[i].reveal_sha256
      /\ entry'[i].refund_awarded = entry[i].refund_awarded
  BY <1>1, PurchaseOfEntry DEF BuyMystery
<1>4. IsPurchased(entry'[i])
  <2>1. token'[i] # EntryTokenAccount
    BY <1>1, BlockSaleAssumption DEF BuyMystery, CompletePurchase, SaleInv, TypeOK, Accounts
  <2> QED
    BY <1>1, <1>2, <2>1 DEF SaleInv, ProgramHoldsExactlyUnsold
<1>5. ~entry[i].refund_awarded
  BY <1>1 DEF LifecycleInv, RefundedWereBought
<1>6. StatusOf(i) = "Hidden" /\ StatusOf(i)' = "Escrowed"
  BY <1>1, <1>2, <1>3, <1>4, <1>5 DEF StatusOf, IsRevealed
<1>7. \A j \in Entries : j # i => StatusOf(j)' = StatusOf(j)
  BY <1>1, <1>2, <1>3, StatusFollowsFields DEF SameStatusFields
<1>8. Phase = "Mystery" /\ Phase' \in {"Mystery", "Reveal"}
  BY <1>1, <1>2 DEF Phase, BlockComplete, IsBlockComplete
<1> QED
  BY <1>6, <1>7, <1>8, StatusOfOneChanges, StatusAt, AbstractNext

\* The phase does not change when neither the block nor the clock does.
LEMMA SamePhase ==
  ASSUME UNCHANGED <<now, block>>
  PROVE  Phase' = Phase
  BY DEF Phase, BlockComplete, BlockExists, IsBlockComplete, Revealable, IsCompleteBlockRevealable

LEMMA BuyRevealedRefines ==
  ASSUME LifecycleInv, NEW i \in Entries, NEW buyer \in Signers, NEW owner \in Signers,
         BuyRevealed(i, buyer, owner)
  PROVE  Lifecycle!Next
<1>1. /\ SaleInv /\ SaleInv'
      /\ BlockComplete /\ BlockExists /\ i \in block.entries_added
      /\ IsRevealed(entry[i]) /\ ~IsPurchased(entry[i])
      /\ UNCHANGED <<now, block>>
  BY BuyRevealedInv
     DEF LifecycleInv, BuyRevealed, CompletePurchase, BlockComplete, StateOf, GetEntryState,
         RevealedState, UnrevealedState
<1>2. /\ \A j \in Entries : j # i => entry'[j] = entry[j]
      /\ entry'[i].reveal_sha256 = entry[i].reveal_sha256
  BY <1>1, PurchaseOfEntry DEF BuyRevealed
<1>3. IsPurchased(entry'[i])
  <2>1. token'[i] # EntryTokenAccount
    BY <1>1, BlockSaleAssumption DEF BuyRevealed, CompletePurchase, SaleInv, TypeOK, Accounts
  <2> QED
    BY <1>1, <2>1 DEF SaleInv, ProgramHoldsExactlyUnsold, BlockExists
<1>4. /\ StatusOf(i) = IF entry[i].reveal_timestamp = 0 THEN "Bare" ELSE "OnSale"
      /\ StatusOf(i)' = "Settled"
  BY <1>1, <1>2, <1>3 DEF StatusOf, IsRevealed, BlockExists
<1>5. \A j \in Entries : j # i => StatusOf(j)' = StatusOf(j)
  BY <1>1, <1>2, StatusFollowsFields DEF SameStatusFields, BlockExists
<1>6. /\ Phase # "Setup" /\ Phase' = Phase
      /\ entry[i].reveal_timestamp # 0 => Phase = "Reveal"
  BY <1>1, SamePhase DEF Phase, LifecycleInv, RevealedAfterMysteries
<1> QED
  BY <1>4, <1>5, <1>6, StatusOfOneChanges, StatusAt, AbstractNext

LEMMA RefundRefines ==
  ASSUME LifecycleInv, NEW i \in Entries, NEW owner \in Signers, NEW destination \in Accounts,
         Refund(i, owner, destination)
  PROVE  Lifecycle!Next
<1>1. /\ SaleInv
      /\ BlockComplete /\ BlockExists /\ i \in block.entries_added
      /\ Revealable /\ ~IsRevealed(entry[i]) /\ IsPurchased(entry[i])
      /\ ~entry[i].refund_awarded
      /\ UNCHANGED <<now, block>>
  BY DEF LifecycleInv, Refund, Refundable, BlockComplete, Revealable, StateOf, GetEntryState,
         RevealedState, UnrevealedState
<1>2. /\ \A j \in Entries : j # i => entry'[j] = entry[j]
      /\ entry'[i].reveal_sha256 = entry[i].reveal_sha256
      /\ entry'[i].refund_awarded = TRUE
      /\ entry'[i].purchase_price_lamports = entry[i].purchase_price_lamports
  BY <1>1, RefundOfEntry
<1>3. StatusOf(i) = "Escrowed" /\ StatusOf(i)' = "Refunded"
  BY <1>1, <1>2 DEF StatusOf, IsRevealed, IsPurchased, BlockExists
<1>4. \A j \in Entries : j # i => StatusOf(j)' = StatusOf(j)
  BY <1>1, <1>2, StatusFollowsFields DEF SameStatusFields, BlockExists
<1>5. Phase = "Reveal" /\ Phase' = Phase
  BY <1>1, SamePhase DEF Phase
<1> QED
  BY <1>3, <1>4, <1>5, StatusOfOneChanges, StatusAt, AbstractNext

LEMMA RevealEntriesRefines ==
  ASSUME LifecycleInv, NEW first \in Entries, NEW n \in 1..MaxEntries,
         NEW salts \in [1..n -> Salts], RevealEntries(first, salts)
  PROVE  Lifecycle!Next
<1>1. /\ SaleInv /\ BlockComplete /\ BlockExists /\ Revealable
      /\ UNCHANGED <<now, block>>
  BY DEF LifecycleInv, RevealEntries, BlockComplete
<1>2. PICK batch \in SUBSET Entries :
        \A i \in Entries :
          IF i \in batch
          THEN /\ i \in block.entries_added
               /\ ~IsRevealed(entry[i]) /\ IsRevealed(entry'[i])
               /\ entry'[i].reveal_timestamp = now
               /\ entry'[i].purchase_price_lamports = entry[i].purchase_price_lamports
               /\ entry'[i].refund_awarded = entry[i].refund_awarded
          ELSE entry'[i] = entry[i]
  BY <1>1, RevealedEntries
<1>3. \A i \in Entries : i \notin batch => StatusOf(i)' = StatusOf(i)
  BY <1>1, <1>2, StatusFollowsFields DEF SameStatusFields, BlockExists
<1>4. \A i \in batch : /\ StatusOf(i) \in {"Hidden", "Escrowed", "Refunded"}
                       /\ StatusOf(i)' = IF StatusOf(i) = "Hidden" THEN "OnSale" ELSE "Settled"
  <2> SUFFICES ASSUME NEW i \in batch
               PROVE  /\ StatusOf(i) \in {"Hidden", "Escrowed", "Refunded"}
                      /\ StatusOf(i)' = IF StatusOf(i) = "Hidden" THEN "OnSale" ELSE "Settled"
    OBVIOUS
  <2>1. /\ i \in block.entries_added /\ ~IsRevealed(entry[i]) /\ IsRevealed(entry'[i])
        /\ entry'[i].reveal_timestamp # 0
        /\ IsPurchased(entry'[i]) <=> IsPurchased(entry[i])
    BY <1>2 DEF IsPurchased, LifecycleInv, ClockStarted
  <2> QED
    BY <1>1, <2>1 DEF StatusOf, BlockExists
<1>5. Status' = [i \in Entries |-> IF i \notin batch THEN Status[i]
                                  ELSE IF Status[i] = "Hidden" THEN "OnSale" ELSE "Settled"]
  BY <1>3, <1>4 DEF Status
<1>6. \A i \in batch : Status[i] \in {"Hidden", "Escrowed", "Refunded"}
  BY <1>4, StatusAt
<1>7. Phase = "Reveal" /\ Phase' = Phase
  BY <1>1, SamePhase DEF Phase
<1> QED
  BY <1>5, <1>6, <1>7, AbstractNext

LEMMA SetMetadataBytesRefines ==
  ASSUME LifecycleInv, NEW i \in Entries, NEW start, NEW bytes, SetMetadataBytes(i, start, bytes)
  PROVE  UNCHANGED <<Phase, Status>>
<1>1. \A j \in Entries : SameStatusFields(j)
  BY WrittenEntry DEF LifecycleInv, SameStatusFields
<1> QED
  BY <1>1, NothingToSee DEF SetMetadataBytes

LEMMA TickRefines ==
  ASSUME LifecycleInv, Tick
  PROVE  Lifecycle!Next \/ UNCHANGED <<Phase, Status>>
<1>1. Status' = Status
  <2>1. \A i \in Entries : StatusOf(i)' = StatusOf(i)
    BY StatusFollowsFields DEF Tick, SameStatusFields, BlockExists
  <2> QED
    BY <2>1 DEF Status
<1>2. BlockComplete' = BlockComplete
  BY DEF Tick, BlockComplete, BlockExists, IsBlockComplete
<1>3. BlockComplete /\ Revealable => Revealable'
  BY RevealableStep DEF LifecycleInv, Next
<1>4. \/ Phase' = Phase
      \/ Phase = "Mystery" /\ Phase' = "Reveal"
  BY <1>2, <1>3 DEF Phase
<1> QED
  BY <1>1, <1>4, AbstractNext

LEMMA LifecycleStep ==
  ASSUME LifecycleInv, [Next]_vars
  PROVE  Lifecycle!Next \/ UNCHANGED <<Phase, Status>>
<1>1. CASE UNCHANGED <<now, block, entry>>
  BY <1>1, NothingToSee DEF SameStatusFields
<1>2. CASE Next
  <2>1. ASSUME NEW config \in Configurations, CreateBlock(config)
        PROVE  UNCHANGED <<Phase, Status>>
    BY <2>1, CreateBlockRefines
  <2>2. ASSUME NEW first \in Entries, NEW n \in 1..MaxEntries,
               NEW sha256s \in [1..n -> Sha256s], AddEntriesToBlock(first, sha256s)
        PROVE  Lifecycle!Next
    BY <2>2, AddEntriesToBlockRefines
  <2>3. ASSUME NEW i \in Entries, NEW buyer \in Signers, NEW owner \in Signers,
               BuyMystery(i, buyer, owner) \/ BuyRevealed(i, buyer, owner)
        PROVE  Lifecycle!Next
    BY <2>3, BuyMysteryRefines, BuyRevealedRefines
  <2>4. ASSUME NEW i \in Entries, NEW start \in 0..MetadataSize, NEW n \in 0..MetadataSize,
               NEW bytes \in [1..n -> Bytes], SetMetadataBytes(i, start, bytes)
        PROVE  UNCHANGED <<Phase, Status>>
    BY <2>4, SetMetadataBytesRefines
  <2>5. ASSUME NEW first \in Entries, NEW n \in 1..MaxEntries, NEW salts \in [1..n -> Salts],
               RevealEntries(first, salts)
        PROVE  Lifecycle!Next
    BY <2>5, RevealEntriesRefines
  <2>6. ASSUME NEW i \in Entries, NEW owner \in Signers, NEW destination \in Accounts,
               Refund(i, owner, destination)
        PROVE  Lifecycle!Next
    BY <2>6, RefundRefines
  <2>7. CASE Tick
    BY <2>7, TickRefines
  <2> QED
    BY <1>1, <1>2, <2>1, <2>2, <2>3, <2>4, <2>5, <2>6, <2>7
       DEF Next, AddWhitelistEntries, DeleteWhitelist, TransferToken, SystemTransfer
<1> QED
  BY <1>1, <1>2 DEF vars

LEMMA LifecycleInvariant == Spec => []LifecycleInv
<1>1. Init => LifecycleInv
  BY InitInv, BlockSaleAssumption
     DEF Init, LifecycleInv, RevealedAfterMysteries, RefundedWereBought, ClockStarted, BlockExists,
         NewEntry
<1>2. LifecycleInv /\ [Next]_vars => LifecycleInv'
  BY NextInv, RevealedAfterMysteriesStep, RefundedWereBoughtStep, ClockStartedStep
     DEF LifecycleInv
<1> QED
  BY <1>1, <1>2, PTL DEF Spec

(***************************************************************************)
(* The sale of a block, with its timestamps, counters and prices, is an    *)
(* implementation of the life cycle of its entries.                        *)
(***************************************************************************)
THEOREM SaleImplementsLifecycle == Spec => LifecycleSpec
<1>1. Init => Lifecycle!Init
  BY LifecycleInit
<1>2. LifecycleInv /\ [Next]_vars => [Lifecycle!Next]_<<Phase, Status>>
  BY LifecycleStep
<1> QED
  BY <1>1, <1>2, LifecycleInvariant, PTL DEF Spec, LifecycleSpec, Lifecycle!Spec, Status

-----------------------------------------------------------------------------
(***************************************************************************)
(* The counts.  The block's two counters are not derived from its entries, *)
(* but kept beside them by the instructions.                               *)
(***************************************************************************)

\* added_entries_count is the number of entries, all below total_entry_count.
EntriesCounted ==
  BlockExists =>
    /\ block.added_entries_count = Cardinality(block.entries_added)
    /\ block.entries_added \subseteq 0..(block.config.total_entry_count - 1)

\* mysteries_sold_count is not taken back by a reveal.
SalesCounted ==
  BlockExists =>
    /\ Cardinality(SoldUnrevealed) <= block.mysteries_sold_count
    /\ (\A i \in block.entries_added : entry[i].reveal_timestamp = 0) =>
         Cardinality(SoldUnrevealed) = block.mysteries_sold_count

CountInv == LifecycleInv /\ EntriesCounted /\ SalesCounted

LEMMA EntriesAreFinite ==
  ASSUME NEW S \in SUBSET Entries
  PROVE  IsFiniteSet(S) /\ Cardinality(S) \in Nat
<1>1. IsFiniteSet(Entries)
  BY EntriesType, FS_Interval
<1> QED
  BY <1>1, FS_Subset, FS_CardinalityType

LEMMA SoldAreFinite ==
  ASSUME SaleInv, BlockExists
  PROVE  SoldUnrevealed \subseteq Entries /\ IsFiniteSet(SoldUnrevealed)
<1>1. SoldUnrevealed \in SUBSET Entries
  BY AddedAreEntries DEF SoldUnrevealed
<1> QED
  BY <1>1, EntriesAreFinite

\* Entries and counters that do not change keep their relation.
LEMMA CountsStay ==
  ASSUME CountInv, BlockExists' <=> BlockExists,
         block'.config = block.config,
         block'.entries_added = block.entries_added,
         block'.added_entries_count = block.added_entries_count,
         block'.mysteries_sold_count = block.mysteries_sold_count,
         BlockExists => \A i \in block.entries_added :
                          /\ IsPurchased(entry'[i]) <=> IsPurchased(entry[i])
                          /\ IsRevealed(entry'[i]) <=> IsRevealed(entry[i])
                          /\ entry'[i].reveal_timestamp = entry[i].reveal_timestamp
  PROVE  EntriesCounted' /\ SalesCounted'
<1>1. EntriesCounted'
  BY DEF CountInv, EntriesCounted
<1>2. ASSUME BlockExists PROVE SoldUnrevealed' = SoldUnrevealed
  <2>1. SoldUnrevealed' = {i \in block.entries_added :
                             IsPurchased(entry'[i]) /\ ~IsRevealed(entry'[i])}
    BY DEF SoldUnrevealed
  <2>2. \A i \in block.entries_added :
          (IsPurchased(entry'[i]) /\ ~IsRevealed(entry'[i])) <=>
            (IsPurchased(entry[i]) /\ ~IsRevealed(entry[i]))
    BY <1>2
  <2> QED
    BY <2>1, <2>2 DEF SoldUnrevealed
<1>3. SalesCounted'
  BY <1>2 DEF CountInv, SalesCounted
<1> QED
  BY <1>1, <1>3

\* The counter of the block after entries were added.
LEMMA BlockWithCounts ==
  ASSUME TypeOK, BlockExists, NEW new \in SUBSET Entries
  PROVE  BlockWith(new).added_entries_count = block.added_entries_count + Cardinality(new)
<1> DEFINE count == block.added_entries_count + Cardinality(new)
           all   == block.entries_added \cup new
           added == [block EXCEPT !.entries_added = all, !.added_entries_count = count]
<1>1. block \in Block
  BY BlockType
<1>2. added.added_entries_count = count
  <2> HIDE DEF count, all
  <2> QED BY <1>1 DEF Block
<1>3. added \in Block
  <2>1. all \in SUBSET Entries /\ count \in Nat
    BY <1>1, EntriesAreFinite DEF Block
  <2> HIDE DEF all, count
  <2> QED
    BY <1>1, <2>1 DEF Block
<1>4. \/ BlockWith(new) = added
      \/ \E end \in Nat : BlockWith(new) = [added EXCEPT !.block_start_timestamp = now,
                                                        !.mystery_phase_end_timestamp = end]
  BY <1>1, <1>3 DEF BlockWith, Block, TypeOK
<1> HIDE DEF added
<1>5. BlockWith(new).added_entries_count = added.added_entries_count
  BY <1>3, <1>4 DEF Block
<1> QED
  BY <1>2, <1>5 DEF count

LEMMA AddEntriesToBlockCounts ==
  ASSUME CountInv, SaleInv', NEW first \in Entries, NEW n \in 1..MaxEntries,
         NEW sha256s \in [1..n -> Sha256s],
         AddEntriesToBlock(first, sha256s)
  PROVE  EntriesCounted' /\ SalesCounted'
<1> DEFINE new == NotYetAdded(first..(first + Len(sha256s) - 1))
<1>1. SaleInv /\ TypeOK /\ BlockExists /\ Len(sha256s) = n /\ n \in Nat /\ first \in Nat
  BY InputSequence, EntriesType DEF CountInv, LifecycleInv, SaleInv, AddEntriesToBlock, AcceptsEntries
<1>2. block \in Block /\ block.config \in Configuration /\ block.entries_added \in SUBSET Entries
      /\ block.config.total_entry_count \in Nat
      /\ block.config.total_entry_count <= MaxEntries
  BY <1>1, BlockType DEF Block, Configuration
<1>3. /\ new \subseteq 0..(block.config.total_entry_count - 1)
      /\ new \cap block.entries_added = {}
      /\ new \subseteq Entries
  <2>1. first + n <= block.config.total_entry_count
    BY <1>1 DEF AddEntriesToBlock
  <2> QED
    BY <1>1, <1>2, <2>1, EntriesType DEF NotYetAdded
<1>4. /\ block' = BlockWith(new)
      /\ entry' = [i \in Entries |-> IF i \in new THEN AddedEntry(sha256s[i - first + 1])
                                                  ELSE entry[i]]
  BY DEF AddEntriesToBlock
<1> HIDE DEF new
<1>5. /\ block'.config = block.config
      /\ block'.entries_added = block.entries_added \cup new
      /\ block'.mysteries_sold_count = block.mysteries_sold_count
      /\ block'.added_entries_count = block.added_entries_count + Cardinality(new)
  BY <1>1, <1>3, <1>4, BlockWithType, BlockWithCounts
<1>6. EntriesCounted'
  <2>1. Cardinality(block.entries_added \cup new) =
          Cardinality(block.entries_added) + Cardinality(new)
    <3>1. /\ IsFiniteSet(block.entries_added) /\ IsFiniteSet(new)
          /\ Cardinality(block.entries_added) \in Nat /\ Cardinality(new) \in Nat
      BY <1>2, <1>3, EntriesAreFinite
    <3>2. Cardinality(block.entries_added \cap new) = 0
      BY <1>3, FS_EmptySet
    <3>3. Cardinality(block.entries_added \cup new) =
            Cardinality(block.entries_added) + Cardinality(new)
              - Cardinality(block.entries_added \cap new)
      BY <3>1, FS_Union
    <3> HIDE DEF new
    <3> QED BY <3>1, <3>2, <3>3
  <2>2. /\ block.added_entries_count = Cardinality(block.entries_added)
        /\ block.entries_added \subseteq 0..(block.config.total_entry_count - 1)
    BY <1>1 DEF CountInv, EntriesCounted
  <2> QED
    BY <1>3, <1>5, <2>1, <2>2 DEF EntriesCounted
<1>7. \A i \in new : ~IsPurchased(entry'[i])
  <2>1. \A sha256 : AddedEntry(sha256).purchase_price_lamports = 0
    BY DEF AddedEntry, NewEntry
  <2>2. \A i \in new : \E sha256 : entry'[i] = AddedEntry(sha256)
    BY <1>3, <1>4
  <2> QED
    BY <2>1, <2>2 DEF IsPurchased
<1>8. \A i \in block.entries_added : entry'[i] = entry[i]
  BY <1>2, <1>3, <1>4
<1>9. SoldUnrevealed' = SoldUnrevealed
  BY <1>5, <1>7, <1>8 DEF SoldUnrevealed
<1>10. SalesCounted'
  BY <1>1, <1>5, <1>8, <1>9 DEF CountInv, SalesCounted
<1> QED
  BY <1>6, <1>10

LEMMA BuyMysteryCounts ==
  ASSUME CountInv, SaleInv', NEW i \in Entries, NEW buyer \in Signers, NEW owner \in Signers,
         BuyMystery(i, buyer, owner)
  PROVE  EntriesCounted' /\ SalesCounted'
<1>1. /\ SaleInv /\ BlockExists /\ i \in block.entries_added
      /\ ~IsPurchased(entry[i]) /\ ~IsRevealed(entry[i])
  BY DEF CountInv, LifecycleInv, BuyMystery, BlockComplete, StateOf, GetEntryState, RevealedState,
         UnrevealedState
<1>2. /\ block'.config = block.config
      /\ block'.entries_added = block.entries_added
      /\ block'.added_entries_count = block.added_entries_count
      /\ block'.mysteries_sold_count = block.mysteries_sold_count + 1
  BY <1>1, BlockOfMystery DEF SaleInv
<1>3. EntriesCounted'
  BY <1>1, <1>2 DEF CountInv, EntriesCounted
<1>4. /\ \A j \in Entries : j # i => entry'[j] = entry[j]
      /\ entry'[i].reveal_sha256 = entry[i].reveal_sha256
      /\ entry'[i].reveal_timestamp = entry[i].reveal_timestamp
  BY <1>1, PurchaseOfEntry DEF BuyMystery
<1>5. IsPurchased(entry'[i])
  <2>1. token'[i] # EntryTokenAccount
    BY <1>1, BlockSaleAssumption DEF BuyMystery, CompletePurchase, SaleInv, TypeOK, Accounts
  <2>2. BlockExists'
    BY <1>1, BlockOfMystery, BlockSaleAssumption DEF SaleInv, BlockExists
  <2> QED
    BY <1>1, <1>2, <2>1, <2>2 DEF SaleInv, ProgramHoldsExactlyUnsold
<1>6. SoldUnrevealed' = SoldUnrevealed \cup {i} /\ i \notin SoldUnrevealed
  <2>1. block.entries_added \subseteq Entries
    BY <1>1, AddedAreEntries
  <2> QED
    BY <1>1, <1>2, <1>4, <1>5, <2>1 DEF SoldUnrevealed, IsRevealed
<1>7. Cardinality(SoldUnrevealed') = Cardinality(SoldUnrevealed) + 1
  BY <1>1, <1>6, SoldAreFinite, FS_AddElement
<1>8. /\ Cardinality(SoldUnrevealed) \in Nat /\ block.mysteries_sold_count \in Nat
      /\ Cardinality(SoldUnrevealed) <= block.mysteries_sold_count
      /\ (\A j \in block.entries_added : entry[j].reveal_timestamp = 0) =>
           Cardinality(SoldUnrevealed) = block.mysteries_sold_count
  BY <1>1, SoldAreFinite, FS_CardinalityType, BlockType
     DEF CountInv, SalesCounted, SaleInv, TypeOK, Block
<1>9. (\A j \in block'.entries_added : entry'[j].reveal_timestamp = 0) =>
        (\A j \in block.entries_added : entry[j].reveal_timestamp = 0)
  <2>1. block.entries_added \subseteq Entries
    BY <1>1, AddedAreEntries
  <2> QED
    BY <1>2, <1>4, <2>1
<1>10. SalesCounted'
  BY <1>2, <1>7, <1>8, <1>9 DEF SalesCounted
<1> QED
  BY <1>3, <1>10

\* What is revealed was sold before or not; the counter stays as it is.
LEMMA RevealEntriesCounts ==
  ASSUME CountInv, SaleInv', NEW first \in Entries, NEW n \in 1..MaxEntries,
         NEW salts \in [1..n -> Salts], RevealEntries(first, salts)
  PROVE  EntriesCounted' /\ SalesCounted'
<1>1. SaleInv /\ BlockExists /\ block' = block
  BY DEF CountInv, LifecycleInv, RevealEntries, BlockComplete
<1>2. PICK batch \in SUBSET Entries :
        \A i \in Entries :
          IF i \in batch
          THEN /\ i \in block.entries_added
               /\ ~IsRevealed(entry[i]) /\ IsRevealed(entry'[i])
               /\ entry'[i].reveal_timestamp = now
               /\ entry'[i].purchase_price_lamports = entry[i].purchase_price_lamports
          ELSE entry'[i] = entry[i]
  BY <1>1, RevealedEntries
<1>3. EntriesCounted'
  BY <1>1 DEF CountInv, EntriesCounted, BlockExists
<1>4. block.entries_added \subseteq Entries
  BY <1>1, AddedAreEntries
<1>5. SoldUnrevealed' \in SUBSET SoldUnrevealed
  BY <1>1, <1>2, <1>4 DEF SoldUnrevealed, IsPurchased
<1>6. /\ Cardinality(SoldUnrevealed') <= Cardinality(SoldUnrevealed)
      /\ Cardinality(SoldUnrevealed) \in Nat /\ Cardinality(SoldUnrevealed') \in Nat
      /\ block.mysteries_sold_count \in Nat
  BY <1>1, <1>5, SoldAreFinite, FS_Subset, FS_CardinalityType, BlockType DEF SaleInv, TypeOK, Block
<1>7. CASE batch = {}
  <2>1. \A i \in block.entries_added : entry'[i] = entry[i]
    BY <1>2, <1>4, <1>7
  <2> QED
    BY <1>1, <2>1, CountsStay DEF BlockExists
<1>8. CASE batch # {}
  <2>1. \E i \in block'.entries_added : entry'[i].reveal_timestamp # 0
    BY <1>1, <1>2, <1>8 DEF CountInv, LifecycleInv, ClockStarted
  <2>2. Cardinality(SoldUnrevealed') <= block'.mysteries_sold_count
    BY <1>1, <1>6 DEF CountInv, SalesCounted
  <2> QED
    BY <1>3, <2>1, <2>2 DEF SalesCounted
<1> QED
  BY <1>7, <1>8

LEMMA CountStep ==
  ASSUME CountInv, [Next]_vars
  PROVE  CountInv'
<1>0. SaleInv /\ SaleInv' /\ LifecycleInv'
  BY NextInv, RevealedAfterMysteriesStep, RefundedWereBoughtStep, ClockStartedStep
     DEF CountInv, LifecycleInv
<1> SUFFICES EntriesCounted' /\ SalesCounted'
  BY <1>0 DEF CountInv
<1>1. CASE UNCHANGED <<block, entry>>
  BY <1>1, CountsStay DEF BlockExists
<1>2. ASSUME NEW config \in Configurations, CreateBlock(config)
      PROVE  EntriesCounted' /\ SalesCounted'
  <2>1. /\ block'.entries_added = {} /\ block'.added_entries_count = 0
        /\ block'.mysteries_sold_count = 0
    BY <1>2 DEF CreateBlock
  <2>2. SoldUnrevealed' = {}
    BY <2>1 DEF SoldUnrevealed
  <2> QED
    BY <2>1, <2>2, FS_EmptySet DEF EntriesCounted, SalesCounted
<1>3. ASSUME NEW first \in Entries, NEW n \in 1..MaxEntries,
             NEW sha256s \in [1..n -> Sha256s], AddEntriesToBlock(first, sha256s)
      PROVE  EntriesCounted' /\ SalesCounted'
  BY <1>0, <1>3, AddEntriesToBlockCounts
<1>4. ASSUME NEW i \in Entries, NEW buyer \in Signers, NEW owner \in Signers,
             BuyMystery(i, buyer, owner)
      PROVE  EntriesCounted' /\ SalesCounted'
  BY <1>0, <1>4, BuyMysteryCounts
<1>5. ASSUME NEW i \in Entries, NEW buyer \in Signers, NEW owner \in Signers,
             BuyRevealed(i, buyer, owner)
      PROVE  EntriesCounted' /\ SalesCounted'
  <2>1. /\ BlockExists /\ block' = block /\ i \in block.entries_added /\ IsRevealed(entry[i])
        /\ CompletePurchase(i, buyer, owner, FinalSalePrice(i), Admin)
    BY <1>5 DEF BuyRevealed, BlockComplete, StateOf, GetEntryState, UnrevealedState
  <2>2. /\ \A j \in Entries : j # i => entry'[j] = entry[j]
        /\ entry'[i].reveal_sha256 = entry[i].reveal_sha256
        /\ entry'[i].reveal_timestamp = entry[i].reveal_timestamp
    BY <1>0, <2>1, PurchaseOfEntry
  <2>3. block.entries_added \subseteq Entries
    BY <1>0, <2>1, AddedAreEntries
  <2>4. SoldUnrevealed' = SoldUnrevealed
        /\ \A j \in block.entries_added : entry'[j].reveal_timestamp = entry[j].reveal_timestamp
    BY <2>1, <2>2, <2>3 DEF SoldUnrevealed, IsRevealed
  <2> QED
    BY <2>1, <2>4 DEF CountInv, EntriesCounted, SalesCounted, BlockExists
<1>6. ASSUME NEW i \in Entries, NEW start \in 0..MetadataSize, NEW n \in 0..MetadataSize,
             NEW bytes \in [1..n -> Bytes], SetMetadataBytes(i, start, bytes)
      PROVE  EntriesCounted' /\ SalesCounted'
  <2>1. block' = block /\ BlockExists
    BY <1>6 DEF SetMetadataBytes, BlockComplete
  <2>2. \A j \in Entries : SameStatusFields(j)
    BY <1>0, <1>6, WrittenEntry DEF SameStatusFields
  <2> QED
    BY <1>0, <2>1, <2>2, AddedAreEntries, CountsStay
       DEF BlockExists, SameStatusFields, IsPurchased, IsRevealed
<1>7. ASSUME NEW first \in Entries, NEW n \in 1..MaxEntries, NEW salts \in [1..n -> Salts],
             RevealEntries(first, salts)
      PROVE  EntriesCounted' /\ SalesCounted'
  BY <1>0, <1>7, RevealEntriesCounts
<1>8. ASSUME NEW i \in Entries, NEW owner \in Signers, NEW destination \in Accounts,
             Refund(i, owner, destination)
      PROVE  EntriesCounted' /\ SalesCounted'
  <2>1. block' = block /\ BlockExists
    BY <1>8 DEF Refund, BlockComplete
  <2>2. \A j \in Entries : /\ entry'[j].reveal_sha256 = entry[j].reveal_sha256
                           /\ entry'[j].reveal_timestamp = entry[j].reveal_timestamp
                           /\ entry'[j].purchase_price_lamports = entry[j].purchase_price_lamports
    BY <1>0, <1>8, RefundOfEntry
  <2> QED
    BY <1>0, <2>1, <2>2, AddedAreEntries, CountsStay DEF BlockExists, IsPurchased, IsRevealed
<1> QED
  BY <1>1, <1>2, <1>3, <1>4, <1>5, <1>6, <1>7, <1>8
     DEF Next, vars, AddWhitelistEntries, DeleteWhitelist, TransferToken, SystemTransfer, Tick

LEMMA CountInvHolds == Spec => []CountInv
<1>1. Init => CountInv
  BY InitInv, BlockSaleAssumption
     DEF Init, CountInv, LifecycleInv, RevealedAfterMysteries, RefundedWereBought, ClockStarted,
         EntriesCounted, SalesCounted, BlockExists, NewEntry
<1>2. CountInv /\ [Next]_vars => CountInv'
  BY CountStep
<1> QED
  BY <1>1, <1>2, PTL DEF Spec

(***************************************************************************)
(* A block that is complete by its counter has each of its entries: no     *)
(* sequence of batches, repeated, overlapping or in any order, counts an   *)
(* entry twice (admin_add_entries_to_block.c).                             *)
(***************************************************************************)
THEOREM CompleteBlocksAreFull == Spec => []CompleteBlockHasAllEntries
<1>1. CountInv => CompleteBlockHasAllEntries
  <2> SUFFICES ASSUME CountInv, BlockExists, BlockComplete
               PROVE  block.entries_added = 0..(block.config.total_entry_count - 1)
    BY DEF CountInv, EntriesCounted, CompleteBlockHasAllEntries
  <2> DEFINE n == block.config.total_entry_count
  <2>1. n \in Nat
    BY BlockType DEF CountInv, LifecycleInv, SaleInv, Configuration
  <2>2. block.entries_added \in SUBSET (0..(n - 1)) /\ Cardinality(block.entries_added) = n
    BY DEF CountInv, EntriesCounted, BlockComplete, IsBlockComplete
  <2> HIDE DEF n
  <2>3. IsFiniteSet(0..(n - 1)) /\ Cardinality(0..(n - 1)) = n
    BY <2>1, FS_Interval
  <2>4. block.entries_added = 0..(n - 1)
    BY <2>2, <2>3, FS_Subset
  <2> QED
    BY <2>4 DEF n
<1> QED
  BY <1>1, CountInvHolds, PTL

(***************************************************************************)
(* The counter that ends the mystery phase is the number of mysteries that *)
(* were sold, and never exceeds what the block allows.                     *)
(***************************************************************************)
THEOREM SalesAreCounted == Spec => []SoldCountAccurate
<1>1. CountInv => SoldCountAccurate
  BY DEF CountInv, SalesCounted, SoldCountAccurate, LifecycleInv, SaleInv, BlockWithinBounds
<1> QED
  BY <1>1, CountInvHolds, PTL

-----------------------------------------------------------------------------
(***************************************************************************)
(* The whitelist.                                                          *)
(***************************************************************************)

\* The slots of key u in a whitelist, and a whitelist without its slot n.
SlotsIn(wl, u)   == {k \in 1..Len(wl) : wl[k] = u}
Shortened(wl, n) == [k \in 1..(Len(wl) - 1) |-> IF k = n THEN wl[Len(wl)] ELSE wl[k]]

\* The last key moves to slot n, and the list is one shorter: the key that was
\* at n loses one slot, and every other key has as many as before.
LEMMA SlotsWithoutOne ==
  ASSUME NEW wl \in Seq(Users), NEW n \in 1..Len(wl), NEW u
  PROVE  Cardinality(SlotsIn(Shortened(wl, n), u)) =
           Cardinality(SlotsIn(wl, u)) - (IF wl[n] = u THEN 1 ELSE 0)
<1> DEFINE L       == Len(wl)
           shorter == [k \in 1..(L - 1) |-> IF k = n THEN wl[L] ELSE wl[k]]
           old     == {k \in 1..L : wl[k] = u}
           new     == {k \in 1..Len(shorter) : shorter[k] = u}
<1>1. L \in Nat /\ L >= 1 /\ n \in 1..L
  OBVIOUS
<1>2. Len(shorter) = L - 1
  <2>1. L - 1 \in Nat /\ shorter \in [1..(L - 1) -> Users]
    BY <1>1
  <2> QED BY <2>1, InputSequence
<1>3. \A k \in 1..(L - 1) : shorter[k] = IF k = n THEN wl[L] ELSE wl[k]
  OBVIOUS
<1>4. IsFiniteSet(old) /\ Cardinality(old) \in Nat /\ IsFiniteSet(old \ {L})
      /\ Cardinality(old \ {L}) \in Nat
  <2>1. old \in SUBSET (1..L) /\ IsFiniteSet(1..L)
    BY <1>1, FS_Interval
  <2> QED BY <2>1, FS_Subset, FS_CardinalityType
<1> HIDE DEF shorter
<1> SUFFICES Cardinality(new) = Cardinality(old) - (IF wl[n] = u THEN 1 ELSE 0)
  BY DEF SlotsIn, Shortened, shorter
<1>5. CASE wl[n] = u /\ wl[L] = u
  <2>1. new = old \ {L} /\ L \in old
    BY <1>1, <1>2, <1>3, <1>5
  <2> HIDE DEF new, old, L
  <2>2. Cardinality(new) = Cardinality(old) - 1
    BY <1>4, <2>1, FS_RemoveElement
  <2> QED BY <1>5, <2>2
<1>6. CASE wl[n] = u /\ wl[L] # u
  <2>1. new = old \ {n} /\ n \in old
    BY <1>1, <1>2, <1>3, <1>6
  <2> HIDE DEF new, old, L
  <2>2. Cardinality(new) = Cardinality(old) - 1
    BY <1>4, <2>1, FS_RemoveElement
  <2> QED BY <1>6, <2>2
<1>7. CASE wl[n] # u /\ wl[L] = u
  <2>1. L \in old /\ n # L /\ n \notin old \ {L}
    BY <1>1, <1>7
  <2>2. new = (old \ {L}) \cup {n}
    <3>1. n \in 1..(L - 1)
      BY <1>1, <2>1
    <3>2. shorter[n] = u
      BY <1>3, <1>7, <3>1
    <3>3. \A k \in 1..(L - 1) : k # n => shorter[k] = wl[k]
      BY <1>3
    <3>4. \A k : k \in 1..(L - 1) <=> k \in 1..L /\ k # L
      BY <1>1
    <3>5. \A k : k \in new <=> k \in 1..(L - 1) /\ shorter[k] = u
      BY <1>2
    <3>6. \A k : k \in old <=> k \in 1..L /\ wl[k] = u
      OBVIOUS
    <3> HIDE DEF new, old, L
    <3>7. ASSUME NEW k PROVE k \in new <=> k \in (old \ {L}) \cup {n}
      <4>1. CASE k = n
        BY <4>1, <3>1, <3>2, <3>5
      <4>2. CASE k # n
        BY <4>2, <3>3, <3>4, <3>5, <3>6
      <4> QED BY <4>1, <4>2
    <3> QED BY <3>7
  <2> HIDE DEF new, old, L
  <2>3. Cardinality(old \ {L}) = Cardinality(old) - 1
    BY <1>4, <2>1, FS_RemoveElement
  <2>4. Cardinality(new) = Cardinality(old \ {L}) + 1
    BY <1>4, <2>1, <2>2, FS_AddElement
  <2> QED BY <1>4, <1>7, <2>3, <2>4
<1>8. CASE wl[n] # u /\ wl[L] # u
  <2>1. new = old
    BY <1>1, <1>2, <1>3, <1>8
  <2> HIDE DEF new, old, L
  <2> QED BY <1>4, <1>8, <2>1
<1> QED BY <1>5, <1>6, <1>7, <1>8

\* Only the instruction Buy makes an entry purchased.
LEMMA BoughtByPurchase ==
  ASSUME SaleInv, Next, NEW i \in Entries, Bought(i)
  PROVE  \E buyer \in Signers, owner \in Signers, price \in Nat \ {0},
            destination \in {Authority, Admin} :
           CompletePurchase(i, buyer, owner, price, destination)
<1>1. SaleInv'
  BY NextInv
<1>2. ASSUME UNCHANGED entry PROVE FALSE
  BY <1>2 DEF Bought, IsPurchased
<1>3. ASSUME NEW first \in Entries, NEW n \in 1..MaxEntries,
             NEW sha256s \in [1..n -> Sha256s], AddEntriesToBlock(first, sha256s)
      PROVE  FALSE
  <2>1. \A sha256 : AddedEntry(sha256).purchase_price_lamports = 0
    BY DEF AddedEntry, NewEntry
  <2>2. entry'[i] = entry[i] \/ \E sha256 : entry'[i] = AddedEntry(sha256)
    BY <1>3 DEF AddEntriesToBlock
  <2> QED
    BY <2>1, <2>2 DEF Bought, IsPurchased
<1>4. ASSUME NEW j \in Entries, NEW start \in 0..MetadataSize, NEW n \in 0..MetadataSize,
             NEW bytes \in [1..n -> Bytes], SetMetadataBytes(j, start, bytes)
      PROVE  FALSE
  BY <1>4, WrittenEntry DEF Bought, SameStatusFields, IsPurchased
<1>5. ASSUME NEW first \in Entries, NEW n \in 1..MaxEntries, NEW salts \in [1..n -> Salts],
             RevealEntries(first, salts)
      PROVE  FALSE
  BY <1>5, RevealedEntries DEF Bought, IsPurchased
<1>6. ASSUME NEW j \in Entries, NEW owner \in Signers, NEW destination \in Accounts,
             Refund(j, owner, destination)
      PROVE  FALSE
  BY <1>6, RefundOfEntry DEF Bought, IsPurchased
<1>7. PICK j \in Entries, buyer \in Signers, owner \in Signers :
        BuyMystery(j, buyer, owner) \/ BuyRevealed(j, buyer, owner)
  BY <1>2, <1>3, <1>4, <1>5, <1>6
     DEF Next, AddWhitelistEntries, DeleteWhitelist, CreateBlock, TransferToken, SystemTransfer,
         Tick
<1>8. PICK price \in {MysteryPrice, FinalSalePrice(j)}, destination \in {Authority, Admin} :
        CompletePurchase(j, buyer, owner, price, destination)
  <2>1. BuyMystery(j, buyer, owner) =>
          CompletePurchase(j, buyer, owner, MysteryPrice, Authority)
    BY DEF BuyMystery
  <2>2. BuyRevealed(j, buyer, owner) =>
          CompletePurchase(j, buyer, owner, FinalSalePrice(j), Admin)
    BY DEF BuyRevealed
  <2> QED BY <1>7, <2>1, <2>2, Zenon
<1>9. j = i
  BY <1>8, PurchaseOfEntry DEF Bought, IsPurchased
<1>10. price \in Nat \ {0}
  <2>1. entry'[i].purchase_price_lamports = price
    BY <1>8, <1>9, PurchaseOfEntry
  <2>2. entry'[i] \in Entry
    BY <1>1 DEF SaleInv, TypeOK
  <2> QED
    BY <2>1, <2>2 DEF Bought, IsPurchased, Entry
<1> QED
  BY <1>8, <1>9, <1>10

LEMMA PurchaseKeys ==
  ASSUME SaleInv, Next, NEW i \in Entries, BlockExists, WhitelistInProgress,
         whitelist # NoWhitelist, Len(whitelist) > 0, Bought(i), NEW u \in Users
  PROVE  Cardinality(Slots(u)') = Cardinality(Slots(u)) - (IF u \in Payers THEN 1 ELSE 0)
<1>1. PICK buyer \in Signers, owner \in Signers, price \in Nat \ {0},
           destination \in {Authority, Admin} :
        CompletePurchase(i, buyer, owner, price, destination)
  BY BoughtByPurchase
<1>2. whitelist \in Seq(Users) /\ lamports \in [Accounts -> Nat]
  BY DEF SaleInv, TypeOK
<1>3. PICK n \in Slots(buyer) : whitelist' = WithoutSlot(n)
  BY <1>1 DEF CompletePurchase, WhitelistCheck
<1>4. n \in 1..Len(whitelist) /\ whitelist[n] = buyer /\ buyer \in Users
  BY <1>2, <1>3 DEF Slots
<1>5. u \in Payers <=> u = buyer
  <2>1. /\ buyer \in Accounts /\ u \in Accounts /\ destination \in Accounts
        /\ buyer # destination /\ u # destination
    BY <1>4, BlockSaleAssumption DEF Accounts, Signers
  <2>2. lamports' = Moved(buyer, destination, price) /\ price <= lamports[buyer]
    BY <1>1 DEF CompletePurchase, HasFunds
  <2>3. /\ lamports'[buyer] = lamports[buyer] - price
        /\ u # buyer => lamports'[u] = lamports[u]
        /\ lamports[buyer] \in Nat /\ lamports[u] \in Nat
    BY <1>2, <2>1, <2>2, MovedType
  <2> QED
    BY <2>3 DEF Payers
<1>6. Cardinality(SlotsIn(Shortened(whitelist, n), u)) =
        Cardinality(SlotsIn(whitelist, u)) - (IF whitelist[n] = u THEN 1 ELSE 0)
  BY <1>2, <1>4, SlotsWithoutOne
<1>7. Slots(u)' = SlotsIn(Shortened(whitelist, n), u) /\ Slots(u) = SlotsIn(whitelist, u)
  BY <1>3 DEF Slots, SlotsIn, Shortened, WithoutSlot
<1> QED
  BY <1>4, <1>5, <1>6, <1>7

(***************************************************************************)
(* A purchase during the whitelist phase uses up one slot of the buyer's   *)
(* own key and none of anybody else's, wherever in the list and however    *)
(* often the key is (whitelist_check).                                     *)
(***************************************************************************)
THEOREM PurchasesUseOwnKeys == Spec => PurchaseUsesOwnKey
<1>1. SaleInv /\ [Next]_vars =>
        [\A i \in Entries :
           /\ BlockExists /\ WhitelistInProgress
           /\ whitelist # NoWhitelist /\ Len(whitelist) > 0
           /\ Bought(i)
           => \A u \in Users :
                Cardinality(Slots(u)') = Cardinality(Slots(u)) - (IF u \in Payers THEN 1 ELSE 0)
          ]_vars
  BY PurchaseKeys
<1> QED
  BY <1>1, SaleInvariant, PTL DEF Spec, PurchaseUsesOwnKey
=============================================================================
