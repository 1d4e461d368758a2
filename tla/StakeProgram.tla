---------------------------- MODULE StakeProgram ----------------------------
(***************************************************************************)
(* The stake program of Solana, as far as this program uses it.  It is not *)
(* part of the repository: each operator is what util_stake.c relies on    *)
(* when it invokes the instruction, or decodes a stake account.            *)
(*                                                                         *)
(* A stake account is a record.  Its two authorities are always set        *)
(* together by the program and are one field here, the withdrawer; the     *)
(* rent that an account holds beside its delegation is not counted.  All   *)
(* stake of an account becomes effective, or stops to be, at the end of    *)
(* the epoch.                                                              *)
(***************************************************************************)
EXTENDS Integers

CONSTANTS
  Holders,           \* who can be the authority of a stake account
  Voters,            \* the vote accounts of validators
  NoOne,             \* no authority, no vote account
  MinimumDelegation  \* what GetMinimumDelegation returns

ASSUME StakeProgramAssumption ==
  /\ MinimumDelegation \in Nat \ {0}
  /\ NoOne \notin Holders \cup Voters

StakeAccount ==
  [state : {"Uninitialized", "Initialized", "Stake"}, withdrawer : Holders \cup {NoOne},
   voter : Voters \cup {NoOne}, delegation : Nat,
   activity : {"Inactive", "Activating", "Active", "Deactivating"}]

NoStakeAccount ==
  [state |-> "Uninitialized", withdrawer |-> NoOne, voter |-> NoOne, delegation |-> 0,
   activity |-> "Inactive"]

\* Both authorities are set.
Reauthorized(s, to) == [s EXCEPT !.withdrawer = to]

\* DelegateStake: of an account that was never delegated, or not any more.
CanDelegate(s) ==
  /\ s.state \in {"Initialized", "Stake"} /\ s.activity = "Inactive"
  /\ s.delegation >= MinimumDelegation

Delegated(s, voter) ==
  [s EXCEPT !.state = "Stake", !.voter = voter, !.activity = "Activating"]

\* Deactivate: stake that is not active yet never will be.  The state stays "Stake".
CanDeactivate(s) == s.state = "Stake" /\ s.activity \in {"Activating", "Active"}

Deactivated(s) ==
  [s EXCEPT !.activity = IF s.activity = "Active" THEN "Deactivating" ELSE "Inactive"]

\* Split: neither part is smaller than the minimum.
CanSplit(s, lamports) ==
  /\ s.state = "Stake"
  /\ lamports >= MinimumDelegation
  /\ s.delegation - lamports >= MinimumDelegation

SplitOff(s, lamports) == [s EXCEPT !.delegation = lamports]

Without(s, lamports) == [s EXCEPT !.delegation = s.delegation - lamports]

\* Merge: of two accounts of one owner, of which both are active, or both are
\* becoming so, with the same validator.
CanMerge(from, to) ==
  /\ from.state = "Stake" /\ to.state = "Stake"
  /\ from.withdrawer = to.withdrawer
  /\ from.voter = to.voter
  /\ from.activity = to.activity /\ to.activity \in {"Activating", "Active"}

With(s, lamports) == [s EXCEPT !.delegation = s.delegation + lamports]

\* The end of an epoch: stake that was effective earns a reward.
AfterEpoch(s, reward) ==
  LET earning == s.state = "Stake" /\ s.activity \in {"Active", "Deactivating"}
  IN  [s EXCEPT !.delegation = IF earning THEN s.delegation + reward ELSE s.delegation,
                !.activity = CASE s.activity = "Activating"   -> "Active"
                               [] s.activity = "Deactivating" -> "Inactive"
                               [] OTHER                       -> s.activity]
=============================================================================
