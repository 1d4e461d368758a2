----------------------------- MODULE MCStaking ------------------------------
(***************************************************************************)
(* Small instances of staking.                                             *)
(***************************************************************************)
EXTENDS StakingProperties, TLC

CONSTANTS alice, bob, away, e1, e2, shinobi, other, mine, yours

Validators == {shinobi, other}

FewAccounts == {mine, yours}

New(owner) ==
  [state |-> "Initialized", withdrawer |-> owner, voter |-> NoOne, delegation |-> 4,
   activity |-> "Inactive"]

Staked(owner, voter) ==
  [state |-> "Stake", withdrawer |-> owner, voter |-> voter, delegation |-> 4,
   activity |-> "Active"]

Beginning(a, o1, o2, mines, yourses) ==
  {[admin |-> a, token |-> (e1 :> o1) @@ (e2 :> o2), stake |-> (mine :> m) @@ (yours :> y)] :
     m \in mines, y \in yourses}

\* In two the admin, bob, acts and owns entries.  In the first he changes the
\* commission while alice's stake account, or none, is lent; there is no account to
\* split the master into.  In the second the authority was given yours to be merged,
\* and mine can be split off, staked with e1 or with e2, which is to be destaked,
\* merged and split off again.  In the third the admin is away, and two owners have
\* a stake account each.
AdminOrOwners ==
  Beginning(bob, bob, away, {Staked(alice, shinobi)}, {Staked(away, shinobi)}) \cup
  Beginning(bob, bob, bob, {NoStakeAccount}, {Staked(Authority, shinobi)}) \cup
  Beginning(away, alice, bob, {Staked(alice, shinobi)}, {New(bob)})

\* The account of alice is delegated to another validator.
ForeignStake ==
  Beginning(bob, alice, away, {Staked(alice, other)}, {NoStakeAccount})

\* The account of alice has been delegated to Shinobi Systems.
ActiveStake ==
  Beginning(bob, alice, away, {Staked(alice, shinobi)}, {NoStakeAccount})

\* The account yours is locked until the third epoch.
Lockups == (mine :> 0) @@ (yours :> 3)

\* The rewards of two epochs are worth more than KiLimit.
KiFactors == [n \in 0..MaxLevel |-> 6 + n]
=============================================================================
