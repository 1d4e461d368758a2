------------------------------ MODULE Staking -------------------------------
(***************************************************************************)
(* The stake accounts that owners of entries lend to the program: staking  *)
(* and destaking, the commission on the rewards and its way over the       *)
(* bridge account into the master stake account, Ki, levels, and what the  *)
(* admin and the superuser do.  It begins after super_initialize, with the *)
(* entries of one complete block sold and revealed, so that each entry is  *)
(* in the state Owned, or, once it has a stake account, OwnedAndStaked.    *)
(*                                                                         *)
(* Every action is a successful instruction, and atomic, but for those at  *)
(* the end: what the holders of stake accounts and of tokens do without    *)
(* the program, and the end of an epoch.  Signatures are modelled by who   *)
(* an action is given: the Authority signs for nobody but the program.     *)
(*                                                                         *)
(* Abstracted: rent and fees, addresses, stake_epoch (which no handler     *)
(* reads), the creation of the token account that Ki are minted to; and of *)
(* how stake accounts come into being after the beginning, all but the     *)
(* split of the master, which can be into an address used before.          *)
(***************************************************************************)
EXTENDS Ki, StakeProgram

CONSTANTS
  Entries,
  Signers,            \* people who can own an entry or a stake account, or be the admin
  Acting,             \* those of them who do something, in an instance
  Zeroes,             \* no stake account
  StakeAccounts,      \* stake accounts of the signers, present and future
  Master,             \* the master stake account
  Authority,          \* the PDA that signs for the program
  Shinobi,            \* the vote account of Shinobi Systems
  MasterMinimum,      \* MASTER_STAKE_ACCOUNT_MIN_LAMPORTS
  FullCommission,     \* 0xFFFF, a commission of 100%
  MaxRaise,           \* 1310, 2% of it
  LockupEpoch,        \* of each stake account: the lockup's last epoch
  Beginnings,         \* the first admin, owners of the entries, and stake accounts
  InitialCommission,
  Commissions, SplitAmounts, NewAuthorities, \* inputs of the admin's instructions
  NewAdmins,          \* input of the superuser's
  Buyers,             \* to whom tokens are transferred
  KiOwners,           \* who has Ki, in an instance
  Recipients,         \* to whom stake accounts are handed over outside of the program
  Leaving,            \* entries whose owners want their stake accounts back
  Rewards,            \* rewards of an epoch
  MaxEpoch            \* bound on the epochs

Accounts == StakeAccounts \cup {Master}

StakedEntry ==
  [commission : 0..FullCommission, level : 0..MaxLevel, stake_account : Accounts \cup {Zeroes},
   stake_initial_lamports : Nat, last_ki_harvest : Nat, last_commission_charge : Nat]

ASSUME StakingAssumption ==
  /\ Holders = Signers \cup {Authority} /\ Authority \notin Signers
  /\ Zeroes \notin Accounts /\ Master \notin StakeAccounts
  /\ Shinobi \in Voters
  /\ MasterMinimum \in Nat /\ MasterMinimum >= MinimumDelegation
  /\ FullCommission \in Nat \ {0} /\ MaxRaise \in Nat
  /\ LockupEpoch \in [StakeAccounts -> Nat]
  /\ Beginnings \subseteq [admin : Signers, token : [Entries -> Signers],
                          stake : [StakeAccounts -> StakeAccount]]
  /\ \A s \in Beginnings, a \in StakeAccounts :
       \/ s.stake[a] = NoStakeAccount
       \/ s.stake[a].state # "Uninitialized" /\ s.stake[a].withdrawer \in Holders
  /\ Entries \cap (Holders \cup {NoOne}) = {}
  /\ InitialCommission \in 0..FullCommission /\ Commissions \subseteq 0..FullCommission
  /\ Acting \cup NewAuthorities \cup NewAdmins \cup Buyers \cup KiOwners \subseteq Signers
  /\ Recipients \subseteq Holders /\ Leaving \subseteq Entries
  /\ SplitAmounts \subseteq Nat /\ Rewards \subseteq Nat
  /\ MaxEpoch \in Nat

\* constants.h: the master's minimum is at least twice the minimum delegation.  And
\* the stake program has delegated no account that holds less than that.
ASSUME LoanAssumption ==
  /\ MasterMinimum >= 2 * MinimumDelegation
  /\ \A s \in Beginnings, a \in StakeAccounts :
       s.stake[a].state = "Stake" => s.stake[a].delegation >= MinimumDelegation

VARIABLES
  epoch,               \* of the clock sysvar
  admin,               \* admin_pubkey of the program's configuration
  commission,          \* of the block
  last_commission_change_epoch,
  entry,
  token,               \* who holds the token of each entry
  metadata_authority,  \* the update authority of each entry's metaplex metadata
  stake,               \* the stake accounts
  ki,                  \* the Ki tokens of each signer
  taken                \* history, which no guard reads: accounts that were merged
                       \* into the master while an entry was staked with them

vars == <<epoch, admin, commission, last_commission_change_epoch, entry, token,
          metadata_authority, stake, ki, taken>>

blockVars == <<admin, commission, last_commission_change_epoch>>

\* The owned part of an entry after sol_memset.
Destaked(e) ==
  [e EXCEPT !.stake_account = Zeroes, !.stake_initial_lamports = 0,
            !.last_ki_harvest = 0, !.last_commission_charge = 0]

\* super_initialize: the master stake account was just delegated.  The
\* commission of the entries is the 0 that they are created with.
Init ==
  /\ epoch = 1
  /\ commission = InitialCommission /\ last_commission_change_epoch = 0
  /\ entry = [i \in Entries |->
                [commission |-> 0, level |-> 0, stake_account |-> Zeroes,
                 stake_initial_lamports |-> 0, last_ki_harvest |-> 0,
                 last_commission_charge |-> 0]]
  /\ metadata_authority = [i \in Entries |-> Authority]
  /\ \E s \in Beginnings :
       /\ admin = s.admin /\ token = s.token
       /\ stake = [a \in Accounts |->
                     IF a # Master THEN s.stake[a]
                     ELSE [state |-> "Stake", withdrawer |-> Authority, voter |-> Shinobi,
                           delegation |-> MasterMinimum, activity |-> "Activating"]]
  /\ ki = [h \in Signers |-> 0]
  /\ taken = {}

\* get_entry_state of an entry that is purchased and revealed.
IsStaked(i) == entry[i].stake_account # Zeroes

\* The stake account that an entry is staked to can be decoded: it is not gone.
Decodes(i) == stake[entry[i].stake_account].state # "Uninitialized"

\* The program is still its authority: the stake program lets it delegate the
\* account, and set other authorities.
InHand(i) == stake[entry[i].stake_account].withdrawer = Authority

\* The delegation of the stake account that an entry is staked to.
Delegation(i) == stake[entry[i].stake_account].delegation

-----------------------------------------------------------------------------
(***************************************************************************)
(* Staking.                                                                *)
(***************************************************************************)

\* Lockups can end at an epoch; custodians are not supported.
Unlocked(a) == LockupEpoch[a] <= epoch

\* Mutant: the withdraw authority is not checked.
OwnedByAnybody(a, signer) == TRUE

WithdrawnBy(a, signer) == stake[a].withdrawer = signer

\* What becomes of the stake account, if the stake program lets it: an account
\* that was never delegated is delegated to Shinobi Systems, one of another
\* validator is deactivated.
Stakeable(s) ==
  CASE s.state = "Initialized" -> CanDelegate(s)
    [] s.state = "Stake"       -> s.voter = Shinobi \/ CanDeactivate(s)
    [] OTHER                   -> FALSE

AsStaked(s) ==
  LET r == Reauthorized(s, Authority)
  IN  CASE s.state = "Initialized"                -> Delegated(r, Shinobi)
        [] s.state = "Stake" /\ s.voter = Shinobi -> r
        [] OTHER                                  -> Deactivated(r)

\* Instruction_Stake: owner has the token, signer the stake account.
UserStake(i, a, owner, signer) ==
  LET lamports == AsStaked(stake[a]).delegation
  IN  /\ ~IsStaked(i)
      /\ Stakeable(stake[a])
      /\ WithdrawnBy(a, signer)
      /\ Unlocked(a)
      /\ token[i] = owner
      /\ stake' = [stake EXCEPT ![a] = AsStaked(stake[a])]
      /\ entry' = [entry EXCEPT ![i].stake_account = a,
                                ![i].stake_initial_lamports = lamports,
                                ![i].last_ki_harvest = lamports,
                                ![i].last_commission_charge = lamports,
                                ![i].commission = commission]
      /\ UNCHANGED <<epoch, blockVars, taken, token, metadata_authority, ki>>

-----------------------------------------------------------------------------
(***************************************************************************)
(* Commission.                                                             *)
(***************************************************************************)

\* move_stake_signed: split into the bridge account, which is then merged.
CanMove(s, from, to, lamports) ==
  CanSplit(s[from], lamports) /\ CanMerge(SplitOff(s[from], lamports), s[to])

Moved(s, from, to, lamports) ==
  [s EXCEPT ![from] = Without(s[from], lamports), ![to] = With(s[to], lamports)]

\* The lamports to charge, from a product and a difference that are not checked.
CommissionDue(i) ==
  Multiply(Subtract(Delegation(i), entry[i].last_commission_charge), entry[i].commission)
    \div FullCommission

\* Less than the minimum delegation cannot be moved by itself: the minimum is
\* lent to the stake account by the master stake account, and moved back with it.
Lent(i) == Moved(stake, Master, entry[i].stake_account, MinimumDelegation)

\* Mutant: the loan is forgotten.
CanChargeWithoutLoan(i) ==
  LET c == CommissionDue(i)
  IN  \/ c = 0
      \/ c >= MinimumDelegation /\ CanMove(stake, entry[i].stake_account, Master, c)

CanCharge(i) ==
  LET a == entry[i].stake_account
      c == CommissionDue(i)
  IN  \/ c = 0
      \/ c >= MinimumDelegation /\ CanMove(stake, a, Master, c)
      \/ /\ c < MinimumDelegation
         /\ CanMove(stake, Master, a, MinimumDelegation)
         /\ CanMove(Lent(i), a, Master, c + MinimumDelegation)

\* Mutant: the loan is not given back.
ChargedKeepingLoan(i) ==
  LET a == entry[i].stake_account
      c == CommissionDue(i)
  IN  CASE c = 0                 -> stake
        [] c >= MinimumDelegation -> Moved(stake, a, Master, c)
        [] OTHER                  -> Moved(Lent(i), a, Master, c)

\* The stake accounts after the charge.
Charged(i) ==
  LET a == entry[i].stake_account
      c == CommissionDue(i)
  IN  CASE c = 0                 -> stake
        [] c >= MinimumDelegation -> Moved(stake, a, Master, c)
        [] OTHER                  -> Moved(Lent(i), a, Master, c + MinimumDelegation)

\* Mutant: the rewards are counted from what the account held before the charge.
CountedBeforeCharge(i) ==
  [entry[i] EXCEPT !.last_commission_charge = Delegation(i), !.commission = commission]

\* The entry after the charge: later rewards are counted from what the account
\* then holds, and the block's commission applies to them.
EntryCharged(i) ==
  [entry[i] EXCEPT !.last_commission_charge = Subtract(Delegation(i), CommissionDue(i)),
                   !.commission = commission]

\* Instruction_TakeCommissionOrDelegate, by anybody.
TakeCommissionOrDelegate(i) ==
  LET a == entry[i].stake_account
  IN  /\ IsStaked(i)
      /\ Decodes(i)
      /\ IF stake[a].state = "Initialized"
         THEN /\ InHand(i) /\ CanDelegate(stake[a])
              /\ stake' = [stake EXCEPT ![a] = Delegated(stake[a], Shinobi)]
              /\ entry' = [entry EXCEPT ![i].last_ki_harvest = stake[a].delegation,
                                        ![i].last_commission_charge = stake[a].delegation]
         ELSE /\ CanCharge(i)
              /\ stake' = Charged(i)
              /\ entry' = [entry EXCEPT ![i] = EntryCharged(i)]
      /\ UNCHANGED <<epoch, blockVars, taken, token, metadata_authority, ki>>

\* Mutant: the epoch of the change is not recorded.
NotRecorded == last_commission_change_epoch

\* What admin_set_block_commission records.
ChangeEpoch == epoch

\* Instruction_SetBlockCommission
SetBlockCommission(signer, new) ==
  /\ signer = admin
  /\ last_commission_change_epoch # epoch
  /\ new <= commission + MaxRaise
  /\ commission' = new
  /\ last_commission_change_epoch' = ChangeEpoch
  /\ UNCHANGED <<epoch, admin, taken, entry, token, metadata_authority, stake, ki>>

-----------------------------------------------------------------------------
(***************************************************************************)
(* Ki and levels.                                                          *)
(***************************************************************************)

\* What harvest_ki takes for the rewards since the last harvest.
KiRewards(i) == Subtract(Delegation(i), entry[i].last_ki_harvest)

KiFactorOf(i) == KiFactor[entry[i].level]

IsHarvestable(i) == EarnedKi(KiRewards(i), KiFactorOf(i)) > 0

\* harvest_ki: the rewards are counted from now on although the flag was set.
KiAfterHarvest(i, destination) ==
  IF IsHarvestable(i)
  THEN [ki EXCEPT ![destination] = ki[destination] + Harvested(KiRewards(i), KiFactorOf(i))]
  ELSE ki

EntryHarvested(i) ==
  IF IsHarvestable(i) THEN [entry[i] EXCEPT !.last_ki_harvest = Delegation(i)] ELSE entry[i]

\* Instruction_Harvest: the owner of the entry names the owner of the Ki.
UserHarvest(i, owner, destination) ==
  /\ IsStaked(i)
  /\ token[i] = owner
  /\ Decodes(i)
  /\ ki' = KiAfterHarvest(i, destination)
  /\ entry' = [entry EXCEPT ![i] = EntryHarvested(i)]
  /\ UNCHANGED <<epoch, blockVars, taken, token, metadata_authority, stake>>

\* Mutant: that there are Ki, but not how many, is looked at.
HasAnyKi(source, tokens) == ki[source] > 0

HasKi(source, tokens) == tokens \in 0..ki[source]

\* Instruction_LevelUp, of an entry that is staked or not.
UserLevelUp(i, owner, source) ==
  LET burnt == KiToBurn(entry[i].level)
  IN  /\ entry[i].level # MaxLevel
      /\ token[i] = owner
      /\ HasKi(source, burnt)
      /\ metadata_authority[i] = Authority
      /\ ki' = [ki EXCEPT ![source] = ki[source] - burnt]
      /\ entry' = [entry EXCEPT ![i].level = entry[i].level + 1]
      /\ UNCHANGED <<epoch, blockVars, taken, token, metadata_authority, stake>>

-----------------------------------------------------------------------------
(***************************************************************************)
(* The stake account goes back.                                            *)
(***************************************************************************)

\* Instruction_Destake: Ki are harvested first, then commission is charged.
UserDestake(i, owner, destination) ==
  LET a == entry[i].stake_account
  IN  /\ IsStaked(i)
      /\ token[i] = owner
      /\ Decodes(i)
      /\ CanCharge(i)
      /\ InHand(i)
      /\ ki' = KiAfterHarvest(i, destination)
      /\ stake' = [Charged(i) EXCEPT ![a] = Reauthorized(Charged(i)[a], owner)]
      /\ entry' = [entry EXCEPT ![i] = Destaked(EntryCharged(i))]
      /\ UNCHANGED <<epoch, blockVars, taken, token, metadata_authority>>

\* Instruction_ReAuthorize: admin and owner together hand over the metadata of
\* the entry, and the stake account if there is one.
Reauthorize(i, signer, owner, new_authority) ==
  LET a == entry[i].stake_account
  IN  /\ signer = admin
      /\ token[i] = owner
      /\ metadata_authority[i] = Authority
      /\ metadata_authority' = [metadata_authority EXCEPT ![i] = new_authority]
      /\ IF IsStaked(i)
         THEN /\ InHand(i)
              /\ stake' = [stake EXCEPT ![a] = Reauthorized(stake[a], new_authority)]
              /\ entry' = [entry EXCEPT ![i] = Destaked(entry[i])]
         ELSE UNCHANGED <<stake, entry>>
      /\ UNCHANGED <<epoch, blockVars, taken, token, ki>>

-----------------------------------------------------------------------------
(***************************************************************************)
(* The master stake account and the configuration.                         *)
(***************************************************************************)

\* Mutant: what the stake program requires is left, not the master's own minimum.
SplittableTooMuch(lamports) ==
  IF lamports = 0 THEN Subtract(stake[Master].delegation, MinimumDelegation) ELSE lamports

\* The lamports asked for, or all that there are above the minimum.
Splittable(lamports) ==
  IF lamports = 0 THEN Subtract(stake[Master].delegation, MasterMinimum) ELSE lamports

\* split_master_stake_signed: the new account into is the admin's.
SplitInto(s, into, lamports) ==
  /\ s[into].state = "Uninitialized"
  /\ CanSplit(s[Master], lamports)
  /\ stake' = [s EXCEPT ![Master] = Without(s[Master], lamports),
                        ![into] = Reauthorized(SplitOff(s[Master], lamports), admin)]

\* Instruction_SplitMasterStake with no account to merge first.
SplitMasterStake(signer, into, lamports) ==
  /\ signer = admin
  /\ lamports > 0 => lamports <= Subtract(stake[Master].delegation, MasterMinimum)
  /\ SplitInto(stake, into, Splittable(lamports))
  /\ UNCHANGED <<epoch, blockVars, taken, entry, token, metadata_authority, ki>>

\* With the account pre_merge, which is merged and drained; its stake is split
\* off too.  It can be any that the authority holds, one that an entry is staked
\* with included.  (If it is not delegated, its amount is undefined and the merge
\* fails.)
MergeAndSplitMasterStake(signer, pre_merge, into, lamports) ==
  LET n == stake[pre_merge].delegation
      merged == [stake EXCEPT ![Master] = With(stake[Master], n),
                              ![pre_merge] = NoStakeAccount]
  IN  /\ signer = admin
      /\ lamports > 0 => lamports <= Subtract(stake[Master].delegation, MasterMinimum)
      /\ CanMerge(stake[pre_merge], stake[Master])
      /\ into # pre_merge
      /\ SplitInto(merged, into, Splittable(lamports) + n)
      /\ taken' = taken \cup ({pre_merge} \cap {entry[i].stake_account : i \in Entries})
      /\ UNCHANGED <<epoch, blockVars, entry, token, metadata_authority, ki>>

\* Instruction_SetAdmin, by the superuser.
SetAdmin(new) ==
  /\ admin' = new
  /\ UNCHANGED <<epoch, commission, last_commission_change_epoch, taken, entry, token,
                 metadata_authority, stake, ki>>

-----------------------------------------------------------------------------
(***************************************************************************)
(* What happens outside of the program.                                    *)
(***************************************************************************)

\* The stake program, for the holder of an account: authorize, delegate, deactivate.
HolderActs(a, holder) ==
  /\ stake[a].withdrawer = holder
  /\ stake[a].state \in {"Initialized", "Stake"}
  /\ \/ \E to \in Recipients : stake' = [stake EXCEPT ![a] = Reauthorized(stake[a], to)]
     \/ \E voter \in Voters \ {Shinobi} :
          CanDelegate(stake[a]) /\ stake' = [stake EXCEPT ![a] = Delegated(stake[a], voter)]
     \/ CanDeactivate(stake[a]) /\ stake' = [stake EXCEPT ![a] = Deactivated(stake[a])]
  /\ UNCHANGED <<epoch, blockVars, taken, entry, token, metadata_authority, ki>>

\* The SPL token program: the token of an entry, staked or not, is sold.
TransferToken(i, from, to) ==
  /\ token[i] = from
  /\ token' = [token EXCEPT ![i] = to]
  /\ UNCHANGED <<epoch, blockVars, taken, entry, metadata_authority, stake, ki>>

\* The next epoch begins: the accounts of each validator get their reward.
EpochPasses(reward) ==
  /\ epoch < MaxEpoch
  /\ epoch' = epoch + 1
  /\ stake' = [a \in Accounts |->
                 AfterEpoch(stake[a], IF stake[a].voter = NoOne THEN 0 ELSE reward[stake[a].voter])]
  /\ UNCHANGED <<blockVars, taken, entry, token, metadata_authority, ki>>

-----------------------------------------------------------------------------
Next ==
  \/ \E i \in Entries, a \in StakeAccounts, owner \in Acting, signer \in Acting :
       UserStake(i, a, owner, signer)
  \/ \E i \in Entries : TakeCommissionOrDelegate(i)
  \/ \E signer \in Acting, new \in Commissions : SetBlockCommission(signer, new)
  \/ \E i \in Entries, owner \in Acting, destination \in KiOwners :
       \/ UserHarvest(i, owner, destination)
       \/ UserDestake(i, owner, destination)
       \/ UserLevelUp(i, owner, destination)
  \/ \E i \in Entries, signer \in Acting, owner \in Acting, to \in NewAuthorities :
       Reauthorize(i, signer, owner, to)
  \/ \E signer \in Acting, into \in StakeAccounts, lamports \in SplitAmounts :
       \/ SplitMasterStake(signer, into, lamports)
       \/ \E pre \in StakeAccounts : MergeAndSplitMasterStake(signer, pre, into, lamports)
  \/ \E new \in NewAdmins : SetAdmin(new)
  \/ \E a \in StakeAccounts, holder \in Acting : HolderActs(a, holder)
  \/ \E i \in Entries, from \in Acting, to \in Buyers : TransferToken(i, from, to)
  \/ \E reward \in [Voters -> Rewards] : EpochPasses(reward)

Spec == Init /\ [][Next]_vars
=============================================================================
