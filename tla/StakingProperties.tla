------------------------- MODULE StakingProperties --------------------------
(***************************************************************************)
(* What staking is for, and what it must never do.                         *)
(***************************************************************************)
EXTENDS Staking

(***************************************************************************)
(* Every variable has its type.  Delegations and Ki never become negative, *)
(* although the stake and token programs are asked to subtract from them.  *)
(***************************************************************************)
TypeOK ==
  /\ epoch \in Nat /\ last_commission_change_epoch \in Nat
  /\ admin \in Signers
  /\ commission \in 0..FullCommission
  /\ entry \in [Entries -> StakedEntry]
  /\ token \in [Entries -> Signers]
  /\ metadata_authority \in [Entries -> Holders]
  /\ stake \in [Accounts -> StakeAccount]
  /\ ki \in [Signers -> Nat]
  /\ taken \subseteq StakeAccounts

\* Nobody is promised anything of an account after the admin merged it into the
\* master while an entry was staked with it, be it gone or split off anew:
\* admin_split_master_stake checks only who holds the account.
IsLent(i) == IsStaked(i) /\ entry[i].stake_account \notin taken

(***************************************************************************)
(* A stake account is lent to at most one entry, and while it is, nobody   *)
(* but the program can withdraw or undelegate it: user_stake trusts the    *)
(* withdraw authority, and the handlers of a staked entry trust that the   *)
(* account is still the one that was staked.  The one way to lose it is    *)
(* that the admin names it in admin_split_master_stake.                    *)
(***************************************************************************)
StakedInCustody ==
  \A i \in Entries :
    /\ IsStaked(i) => entry[i].stake_account \in StakeAccounts
    /\ IsLent(i) =>
         /\ stake[entry[i].stake_account].state = "Stake"
         /\ stake[entry[i].stake_account].withdrawer = Authority
         /\ \A j \in Entries : entry[j].stake_account = entry[i].stake_account => j = i

(***************************************************************************)
(* Commission is charged on rewards alone: the account of a staked entry   *)
(* never holds less than at the last charge, nor than what was staked,     *)
(* although charge_commission subtracts and multiplies without checks and  *)
(* moves small amounts with a loan.  Again, unless the admin takes it.     *)
(***************************************************************************)
PrincipalKept ==
  \A i \in Entries : IsLent(i) =>
    /\ entry[i].stake_initial_lamports <= entry[i].last_commission_charge
    /\ entry[i].last_commission_charge <= Delegation(i)

(***************************************************************************)
(* entrypoint.c: the master stake account is never split to less than its  *)
(* minimum, and admin_split_master_stake relies on it when it subtracts    *)
(* the minimum; charges, loans and mergers of pre_merge accounts keep it.  *)
(***************************************************************************)
MasterKeepsMinimum == stake[Master].delegation >= MasterMinimum

(***************************************************************************)
(* The commission of the block and of every staked entry has risen by at   *)
(* most 2% for each epoch that has passed, whenever and however often      *)
(* admin_set_block_commission was called and the entries were charged.     *)
(***************************************************************************)
CommissionRaisesSlowly ==
  /\ commission <= InitialCommission + MaxRaise * epoch
  /\ \A i \in Entries : IsStaked(i) => entry[i].commission <= InitialCommission + MaxRaise * epoch

(***************************************************************************)
(* harvest_ki mints Ki only for rewards that an entry has earned, and for  *)
(* each reward once: afterwards they are counted as harvested, or the      *)
(* entry is not staked any more.  Up to the limit of its schedule it mints *)
(* no more than ki_factor for each SOL; beyond it nothing can be promised, *)
(* because its difference is not checked and wraps around.                 *)
(***************************************************************************)
KiForRewards(i, tokens) ==
  LET rewards == Delegation(i) - entry[i].last_ki_harvest
  IN  /\ IsStaked(i) /\ rewards > 0
      /\ rewards * KiFactorOf(i) <= KiLimit * LamportsPerSol =>
           tokens * LamportsPerSol <= 10 * KiFactorOf(i) * rewards
      /\ entry'[i].stake_account = Zeroes \/ entry'[i].last_ki_harvest = Delegation(i)

KiOnlyForRewards ==
  [][\A h \in Signers : ki'[h] > ki[h] => \E i \in Entries : KiForRewards(i, ki'[h] - ki[h])]_vars

(***************************************************************************)
(* The stake accounts and the master stake account behave as the abstract  *)
(* custody: what is staked belongs to its entry, and only what it has      *)
(* earned since it was staked, or was last charged, goes to the master by  *)
(* the instructions on entries; as a whole it goes there only if the admin *)
(* exchanges it.  Then it is nobody's, or its next withdrawer's.           *)
(***************************************************************************)
LentAs(i, a) == entry[i].stake_account = a /\ a \notin taken

Lender(a) ==
  IF \E i \in Entries : LentAs(i, a)
  THEN CHOOSE i \in Entries : LentAs(i, a)
  ELSE stake[a].withdrawer

Settled(a) == IF Lender(a) \in Entries THEN entry[Lender(a)].last_commission_charge ELSE 0

Custody == INSTANCE StakeCustody WITH
  Stakes <- StakeAccounts, People <- Signers, Nobody <- NoOne, Custodian <- Authority,
  PoolMinimum <- MasterMinimum,
  holder <- [a \in StakeAccounts |-> Lender(a)],
  worth <- [a \in StakeAccounts |-> stake[a].delegation],
  settled <- [a \in StakeAccounts |-> Settled(a)],
  pool <- stake[Master].delegation

CustodySpec == Custody!Spec

-----------------------------------------------------------------------------
(***************************************************************************)
(* Fairness.  Epochs pass until the bound; the owners of the entries in    *)
(* Leaving destake whenever they could go on doing so; the crank, which    *)
(* anybody can turn, is turned for the other entries.                      *)
(***************************************************************************)
FairSpec ==
  /\ Spec
  /\ WF_vars(\E reward \in [Voters -> Rewards] : EpochPasses(reward))
  /\ \A i \in Entries \ Leaving : WF_vars(TakeCommissionOrDelegate(i))
  /\ \A i \in Leaving :
       WF_vars(\E owner \in Acting, destination \in KiOwners : UserDestake(i, owner, destination))

\* An entry that earns with Shinobi Systems and has not been charged for all of it.
Owing(i) ==
  /\ IsLent(i)
  /\ stake[entry[i].stake_account].voter = Shinobi
  /\ stake[entry[i].stake_account].activity = "Active"
  /\ Delegation(i) # entry[i].last_commission_charge

(***************************************************************************)
(* The crank always gets to charge the rewards of an active stake account: *)
(* no amount is too small or too large for the bridge account, whatever    *)
(* the admin splits off the master stake account in between.               *)
(***************************************************************************)
RewardsAreCharged == \A i \in Entries \ Leaving : Owing(i) ~> ~Owing(i)

\* An entry staked with an account that is delegated to Shinobi Systems.
EarningEntry(i) ==
  /\ IsLent(i)
  /\ stake[entry[i].stake_account].voter = Shinobi
  /\ stake[entry[i].stake_account].activity \in {"Activating", "Active"}

(***************************************************************************)
(* charge_commission never fails for such an entry: whatever was staked,   *)
(* merged, split or charged before, the stake program lets the commission  *)
(* go to the master, with a loan or without, so that neither the crank nor *)
(* user_destake is ever refused because of it.                             *)
(***************************************************************************)
RewardsAreChargeable == \A i \in Entries : EarningEntry(i) => CanCharge(i)

(***************************************************************************)
(* The owner of an entry gets such a stake account back, whatever others   *)
(* do, the admin included, if the token is sold in between too, and unless *)
(* the admin takes it first: user_destake must be able to charge the       *)
(* commission.                                                             *)
(***************************************************************************)
OwnersCanLeave == \A i \in Leaving : EarningEntry(i) ~> ~IsLent(i)

-----------------------------------------------------------------------------
(***************************************************************************)
(* user_stake.c says of an account of another validator that it can be     *)
(* delegated to Shinobi Systems again in the next epoch, by the crank.     *)
(***************************************************************************)
ForeignStakeIsRedelegated ==
  \A i \in Entries \ Leaving :
    LET s == stake[entry[i].stake_account]
    IN  (IsLent(i) /\ s.voter # Shinobi /\ s.activity = "Inactive")
          ~> (~IsLent(i) \/ s.voter = Shinobi)

(***************************************************************************)
(* util_ki.c says that the harvest is zero if an overflow occurs at all,   *)
(* and that it occurs where the schedule would reduce the harvest to zero. *)
(***************************************************************************)
NoKiBeyondLimit ==
  \A i \in Entries :
    /\ IsLent(i)
    /\ Delegation(i) > entry[i].last_ki_harvest
    /\ EarnedKi(KiRewards(i), KiFactorOf(i)) > KiLimit
    => Harvested(KiRewards(i), KiFactorOf(i)) = 0
=============================================================================
