----------------------------- MODULE BlockSale -----------------------------
(***************************************************************************)
(* The life of one block of entries: its whitelist, its creation, the      *)
(* sale of its entries as mysteries, their reveal, the refunds, and the    *)
(* final sale.  Every action is one instruction of the program.            *)
(*                                                                         *)
(* An instruction is a Solana transaction: it is atomic, and one that      *)
(* returns an error changes nothing.  The actions are therefore the        *)
(* successful executions, and interleave in any order.  What is not an     *)
(* instruction of the program is at the end: the clock, and the transfers  *)
(* that the holders of tokens and of lamports make by themselves.          *)
(*                                                                         *)
(* Abstracted: the identity of accounts is given, not checked (each block, *)
(* entry, mint and token account is at an address derived from its index); *)
(* the rent of the accounts that are created and closed, and fees, are not *)
(* counted in the balances; the caller of an admin instruction is the      *)
(* admin.  SHA-256 is taken to be injective and never to yield 32 zeroes,  *)
(* so that the hash of an entry is the pair of what was hashed; the admin  *)
(* may send 32 zeroes instead of a hash.  A buyer is taken to name a       *)
(* maximum price that is high enough.  The fields that no handler below    *)
(* reads (commissions, level, stake accounting) are left out.              *)
(***************************************************************************)
EXTENDS EntryStates, Prices, Sums, FiniteSets, Sequences

CONSTANTS
  Users,                      \* system accounts of the users
  Admin,                      \* admin_pubkey of the program's configuration
  Authority,                  \* the PDA that signs for the program and holds deposits
  NoBlock, NoWhitelist,       \* the account does not exist
  NoMint, EntryTokenAccount,  \* no token yet; the token is in the entry's own account
  MaxEntries,                 \* bound on total_entry_count
  Configurations,             \* the configurations that CreateBlock is called with
  Bytes, MetadataSize,        \* EntryMetadata is MetadataSize bytes
  Salts,
  BidRentExempt,              \* get_rent_exempt_minimum(sizeof(Bid))
  MaxStartPrice,              \* 100,000 SOL
  MaxAccounts,                \* accounts that one instruction can name
  MaxWhitelist,               \* MAX_WHITELIST_ENTRIES
  MaxWhitelistAdd,            \* MAX_WHITELIST_ADD_ENTRIES
  InitialLamports,
  TransferAmounts,            \* amounts of the system transfers, bounds them
  StartTime, SetupTime, MaxTime  \* the clock's first value, the last at which
                                 \* entries are added, and its bound

Signers  == Users \cup {Admin}
Accounts == Signers \cup {Authority}
Entries  == 0..(MaxEntries-1)
Metadata == [0..(MetadataSize-1) -> Bytes]

\* SHA-256(SHA-256(metadata) || salt)
Commitments == [metadata : Metadata, salt : Salts]

Configuration ==
  [total_entry_count : Nat, total_mystery_count : Nat, mystery_phase_duration : Nat,
   mystery_start_price_lamports : Nat, reveal_period_duration : Nat,
   minimum_price_lamports : Nat, has_auction : BOOLEAN, duration : Nat,
   final_start_price_lamports : Nat, whitelist_duration : Nat]

\* What the admin can send for an entry: a commitment or, unchecked, zeroes.
Sha256s == Commitments \cup {Zeroes}

Block ==
  [config : Configurations, entries_added : SUBSET Entries, added_entries_count : Nat,
   block_start_timestamp : Nat, mysteries_sold_count : Nat, mystery_phase_end_timestamp : Nat]

Entry ==
  [reveal_sha256 : Sha256s, metadata : Metadata, reveal_timestamp : Nat,
   minimum_price_lamports : Nat, has_auction : BOOLEAN, duration : Nat,
   non_auction_start_price_lamports : Nat, purchase_price_lamports : Nat,
   refund_awarded : BOOLEAN, highest_bid_lamports : Nat, stake_account : {Zeroes}]

ASSUME BlockSaleAssumption ==
  /\ MaxEntries \in Nat \ {0}
  /\ MetadataSize \in Nat /\ 0 \in Bytes
  /\ Zeroes \notin Commitments
  /\ NoBlock \notin Block /\ NoWhitelist \notin Seq(Users)
  /\ Admin \notin Users /\ Authority \notin Signers
  /\ Accounts \cap {NoMint, EntryTokenAccount} = {} /\ NoMint # EntryTokenAccount
  /\ Configurations \subseteq Configuration
  /\ \A c \in Configurations : c.total_entry_count <= MaxEntries
  /\ BidRentExempt \in Nat /\ BidRentExempt >= 1000
  /\ MaxAccounts \in Nat /\ MaxWhitelist \in Nat /\ MaxWhitelistAdd \in Nat
  /\ InitialLamports \in [Accounts -> Nat]
  /\ TransferAmounts \subseteq Nat
  /\ StartTime \in Nat \ {0} /\ SetupTime \in Nat /\ MaxTime \in Nat

VARIABLES
  now,        \* unix_timestamp of the clock sysvar
  block,      \* the block account
  entry,      \* the entry accounts; entry[i] exists iff i is in entries_added
  whitelist,  \* the whitelist account
  token,      \* where the token of each entry is
  lamports    \* the balances of the accounts

vars == <<now, block, entry, whitelist, token, lamports>>

\* A newly created account is filled with zeroes.
NewEntry ==
  [reveal_sha256 |-> Zeroes, metadata |-> [k \in 0..(MetadataSize-1) |-> 0],
   reveal_timestamp |-> 0, minimum_price_lamports |-> 0, has_auction |-> FALSE,
   duration |-> 0, non_auction_start_price_lamports |-> 0, purchase_price_lamports |-> 0,
   refund_awarded |-> FALSE, highest_bid_lamports |-> 0, stake_account |-> Zeroes]

Init ==
  /\ now = StartTime
  /\ block = NoBlock
  /\ entry = [i \in Entries |-> NewEntry]
  /\ whitelist = NoWhitelist
  /\ token = [i \in Entries |-> NoMint]
  /\ lamports = InitialLamports

BlockExists == block # NoBlock
BlockComplete == BlockExists /\ IsBlockComplete(block)
Revealable == IsCompleteBlockRevealable(block, now)
StateOf(i) == GetEntryState(block, entry[i], now)

\* The balances after amount lamports went from one account to another, or stayed.
Moved(from, to, amount) ==
  [a \in Accounts |-> lamports[a] - (IF a = from THEN amount ELSE 0)
                                  + (IF a = to THEN amount ELSE 0)]

-----------------------------------------------------------------------------
(***************************************************************************)
(* The whitelist.                                                          *)
(***************************************************************************)

\* Instruction_AddWhitelistEntries: only before the block exists.
AddWhitelistEntries(keys) ==
  LET old == IF whitelist = NoWhitelist THEN <<>> ELSE whitelist
  IN  /\ ~BlockExists
      /\ Len(keys) \in 1..MaxWhitelistAdd
      /\ Len(keys) + Len(old) <= MaxWhitelist
      /\ whitelist' = old \o keys
      /\ UNCHANGED <<now, block, entry, token, lamports>>

\* The block is in its whitelist phase; block_start_timestamp is 0 until it is complete.
WhitelistInProgress ==
  /\ block.config.whitelist_duration > 0
  /\ now < block.block_start_timestamp + block.config.whitelist_duration

\* Instruction_DeleteWhitelist
DeleteWhitelist ==
  /\ whitelist # NoWhitelist
  /\ ~(Len(whitelist) > 0 /\ BlockExists /\ WhitelistInProgress)
  /\ whitelist' = NoWhitelist
  /\ UNCHANGED <<now, block, entry, token, lamports>>

\* The positions of a key in the whitelist.
Slots(key) == {n \in 1..Len(whitelist) : whitelist[n] = key}

\* Mutant: the last key is cut off, wherever the one that was used is.
WithoutLastSlot(n) == SubSeq(whitelist, 1, Len(whitelist) - 1)

\* The last key overwrites the one at n.
WithoutSlot(n) ==
  [k \in 1..(Len(whitelist) - 1) |-> IF k = n THEN whitelist[Len(whitelist)] ELSE whitelist[k]]

\* whitelist_check: uses up the first slot of the buyer.  An empty whitelist
\* lets everyone through.
WhitelistCheck(buyer) ==
  IF whitelist = NoWhitelist \/ Len(whitelist) = 0
  THEN UNCHANGED whitelist
  ELSE \E n \in Slots(buyer) : /\ \A m \in Slots(buyer) : n <= m
                               /\ whitelist' = WithoutSlot(n)

-----------------------------------------------------------------------------
(***************************************************************************)
(* The admin sets up the block.                                            *)
(***************************************************************************)

\* The checks of admin_create_block on its input.
IsValidConfiguration(c) ==
  /\ c.total_entry_count # 0
  /\ c.total_mystery_count > 0 /\ c.mystery_phase_duration > 0 =>
       /\ c.total_mystery_count <= c.total_entry_count
       /\ c.mystery_start_price_lamports <= MaxStartPrice
       /\ c.minimum_price_lamports <= c.mystery_start_price_lamports
  /\ c.has_auction => c.duration # 0
  /\ c.final_start_price_lamports <= MaxStartPrice
  /\ c.final_start_price_lamports >= c.minimum_price_lamports
  /\ c.minimum_price_lamports >= BidRentExempt

\* Instruction_CreateBlock
CreateBlock(config) ==
  /\ ~BlockExists
  /\ IsValidConfiguration(config)
  /\ block' = [config |-> config, entries_added |-> {}, added_entries_count |-> 0,
               block_start_timestamp |-> 0, mysteries_sold_count |-> 0,
               mystery_phase_end_timestamp |-> 0]
  /\ UNCHANGED <<now, entry, whitelist, token, lamports>>

\* add_entry
AddedEntry(sha256) ==
  [NewEntry EXCEPT
     !.reveal_sha256 = sha256,
     !.minimum_price_lamports = block.config.minimum_price_lamports,
     !.has_auction = block.config.has_auction,
     !.duration = block.config.duration,
     !.non_auction_start_price_lamports = block.config.final_start_price_lamports]

\* The block after these entries were added to it.  The last one starts its
\* mystery phase, or ends it at once when there are no mysteries.
BlockWith(new) ==
  LET count == block.added_entries_count + Cardinality(new)
      added == [block EXCEPT !.entries_added = block.entries_added \cup new,
                             !.added_entries_count = count]
  IN  IF ~IsBlockComplete(added) THEN added
      ELSE [added EXCEPT
              !.block_start_timestamp = now,
              !.mystery_phase_end_timestamp =
                 IF block.config.total_mystery_count = 0 THEN now
                                                         ELSE block.mystery_phase_end_timestamp]

\* Mutant: a complete block accepts entries.
AcceptsEntriesAlways == BlockExists

AcceptsEntries == BlockExists /\ ~IsBlockComplete(block)

\* Mutant: entries that the block already has are added again.
NotSkipped(given) == given

\* The entries that the block already has are skipped.
NotYetAdded(given) == given \ block.entries_added

\* Instruction_AddEntriesToBlock: the entries first, first + 1, ... with the
\* commitments sha256s.  An entry that is given zeroes is revealed from the start.
AddEntriesToBlock(first, sha256s) ==
  LET given == first..(first + Len(sha256s) - 1)
      new   == NotYetAdded(given)
  IN  /\ AcceptsEntries
      /\ now <= SetupTime
      /\ Len(sha256s) <= (MaxAccounts - 9) \div 4
      /\ first + Len(sha256s) <= block.config.total_entry_count
      /\ entry' = [i \in Entries |-> IF i \in new THEN AddedEntry(sha256s[i - first + 1])
                                                  ELSE entry[i]]
      /\ token' = [i \in Entries |-> IF i \in new THEN EntryTokenAccount ELSE token[i]]
      /\ block' = BlockWith(new)
      /\ UNCHANGED <<now, whitelist, lamports>>

-----------------------------------------------------------------------------
(***************************************************************************)
(* Buying.                                                                 *)
(***************************************************************************)

\* Mutant: the balance of the buyer is not checked, and is debited anyway.
HasAnyFunds(buyer, price) == TRUE

HasFunds(buyer, price) == price <= lamports[buyer]

\* Mutant: the purchase is not recorded in the entry.
NotPurchasedFor(i, price) == entry

PurchasedFor(i, price) == [entry EXCEPT ![i].purchase_price_lamports = price]

\* What user_buy does once it knows the price and where the lamports go.
CompletePurchase(i, buyer, owner, price, destination) ==
  /\ HasFunds(buyer, price)
  /\ IF WhitelistInProgress THEN WhitelistCheck(buyer) ELSE UNCHANGED whitelist
  /\ token[i] = EntryTokenAccount
  /\ lamports' = Moved(buyer, destination, price)
  /\ token' = [token EXCEPT ![i] = owner]
  /\ entry' = PurchasedFor(i, price)
  /\ UNCHANGED now

MysteryPrice ==
  ComputePrice(block.config.mystery_phase_duration, block.config.mystery_start_price_lamports,
               block.config.minimum_price_lamports, now - block.block_start_timestamp)

FinalSalePrice(i) ==
  IF entry[i].has_auction
  THEN block.config.minimum_price_lamports
  ELSE ComputePrice(entry[i].duration, entry[i].non_auction_start_price_lamports,
                    entry[i].minimum_price_lamports, now - entry[i].reveal_timestamp)

\* Instruction_Buy of a mystery: the price is deposited in the authority account.
BuyMystery(i, buyer, owner) ==
  LET sold == block.mysteries_sold_count + 1
  IN  /\ BlockComplete
      /\ i \in block.entries_added
      /\ StateOf(i) = "PreRevealUnowned"
      /\ CompletePurchase(i, buyer, owner, MysteryPrice, Authority)
      /\ block' = [block EXCEPT
                     !.mysteries_sold_count = sold,
                     !.mystery_phase_end_timestamp =
                        IF sold = block.config.total_mystery_count THEN now
                                                 ELSE block.mystery_phase_end_timestamp]

\* Instruction_Buy of a revealed entry: the price goes to the admin.
BuyRevealed(i, buyer, owner) ==
  /\ BlockComplete
  /\ i \in block.entries_added
  /\ StateOf(i) = "Unowned"
  /\ CompletePurchase(i, buyer, owner, FinalSalePrice(i), Admin)
  /\ UNCHANGED block

-----------------------------------------------------------------------------
(***************************************************************************)
(* The reveal, and the refund of what is not revealed.                     *)
(***************************************************************************)

\* Mutant: revealed entries can be written too.
MetadataAlwaysWritable(i) == TRUE

MetadataWritable(i) == GetEntryStateAlone(entry[i], now) = "PreReveal"

\* Instruction_SetMetadataBytes: overwrites bytes from index start on.
SetMetadataBytes(i, start, bytes) ==
  /\ BlockComplete
  /\ i \in block.entries_added
  /\ Revealable
  /\ start + Len(bytes) <= MetadataSize
  /\ MetadataWritable(i)
  /\ entry' = [entry EXCEPT ![i].metadata =
                 [k \in 0..(MetadataSize-1) |->
                    IF k \in start..(start + Len(bytes) - 1)
                    THEN bytes[k - start + 1] ELSE entry[i].metadata[k]]]
  /\ UNCHANGED <<now, block, whitelist, token, lamports>>

\* Mutant: the deposit goes to the admin although it was refunded.
LamportsToMoveTwice(i) ==
  IF StateOf(i) = "WaitingForRevealOwned" THEN entry[i].purchase_price_lamports ELSE 0

\* reveal_single_entry: what the reveal of entry i adds to total_lamports_to_move.
LamportsToMove(i) ==
  IF StateOf(i) = "WaitingForRevealOwned" /\ ~entry[i].refund_awarded
  THEN entry[i].purchase_price_lamports ELSE 0

\* Instruction_RevealEntries: the entries first, first + 1, ... with their
\* salts; all of them, or none.
RevealEntries(first, salts) ==
  LET batch == first..(first + Len(salts) - 1)
  IN  /\ BlockComplete
      /\ Revealable
      /\ Len(salts) <= (MaxAccounts - 6) \div 2
      /\ first + Len(salts) <= block.config.total_entry_count
      /\ \A i \in batch :
           /\ i \in block.entries_added
           /\ StateOf(i) \in {"WaitingForRevealUnowned", "WaitingForRevealOwned"}
           /\ entry[i].reveal_sha256 = [metadata |-> entry[i].metadata,
                                        salt |-> salts[i - first + 1]]
      /\ entry' = [i \in Entries |->
                     IF i \in batch
                     THEN [entry[i] EXCEPT !.reveal_timestamp = now, !.reveal_sha256 = Zeroes]
                     ELSE entry[i]]
      /\ lamports' =
           Moved(Authority, Admin,
                 SumTo([i \in Entries |-> IF i \in batch THEN LamportsToMove(i) ELSE 0],
                       MaxEntries))
      /\ UNCHANGED <<now, block, whitelist, token>>

GracePeriodOver ==
  block.mystery_phase_end_timestamp + block.config.reveal_period_duration <= now

\* Mutant: what was refunded can be refunded again.
RefundableAgain(i) == StateOf(i) = "WaitingForRevealOwned" /\ GracePeriodOver

\* Mutant: the state of the entry is not checked.
RefundableInAnyState(i) == IsPurchased(entry[i]) /\ GracePeriodOver /\ ~entry[i].refund_awarded

Refundable(i) ==
  StateOf(i) = "WaitingForRevealOwned" /\ GracePeriodOver /\ ~entry[i].refund_awarded

\* Instruction_Refund: the owner of the token gets the deposit back, into any
\* account, and keeps the token.
Refund(i, owner, destination) ==
  /\ BlockComplete
  /\ i \in block.entries_added
  /\ token[i] = owner
  /\ Refundable(i)
  /\ lamports' = Moved(Authority, destination, entry[i].purchase_price_lamports)
  /\ entry' = [entry EXCEPT ![i].refund_awarded = TRUE]
  /\ UNCHANGED <<now, block, whitelist, token>>

-----------------------------------------------------------------------------
(***************************************************************************)
(* What happens outside of the program.                                    *)
(***************************************************************************)

\* The SPL token program: an owner sends the token of an entry to someone else.
TransferToken(i, from, to) ==
  /\ token[i] = from
  /\ token' = [token EXCEPT ![i] = to]
  /\ UNCHANGED <<now, block, entry, whitelist, lamports>>

\* The system program: lamports are sent, possibly to the authority account.
SystemTransfer(from, to, amount) ==
  /\ amount <= lamports[from]
  /\ lamports' = Moved(from, to, amount)
  /\ UNCHANGED <<now, block, entry, whitelist, token>>

Tick ==
  /\ now < MaxTime
  /\ now' = now + 1
  /\ UNCHANGED <<block, entry, whitelist, token, lamports>>

-----------------------------------------------------------------------------
Next ==
  \/ \E keys \in UNION {[1..n -> Users] : n \in 1..MaxWhitelist} : AddWhitelistEntries(keys)
  \/ DeleteWhitelist
  \/ \E config \in Configurations : CreateBlock(config)
  \/ \E first \in Entries, n \in 1..MaxEntries :
       \E sha256s \in [1..n -> Sha256s] : AddEntriesToBlock(first, sha256s)
  \/ \E i \in Entries, buyer \in Signers, owner \in Signers :
       BuyMystery(i, buyer, owner) \/ BuyRevealed(i, buyer, owner)
  \/ \E i \in Entries, start \in 0..MetadataSize, n \in 0..MetadataSize :
       \E bytes \in [1..n -> Bytes] : SetMetadataBytes(i, start, bytes)
  \/ \E first \in Entries, n \in 1..MaxEntries :
       \E salts \in [1..n -> Salts] : RevealEntries(first, salts)
  \/ \E i \in Entries, owner \in Signers, destination \in Accounts :
       Refund(i, owner, destination)
  \/ \E i \in Entries, from \in Signers, to \in Signers : TransferToken(i, from, to)
  \/ \E from \in Signers, to \in Accounts, amount \in TransferAmounts :
       SystemTransfer(from, to, amount)
  \/ Tick

Spec == Init /\ [][Next]_vars
=============================================================================
