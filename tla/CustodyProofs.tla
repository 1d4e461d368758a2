---------------------------- MODULE CustodyProofs ----------------------------
(***************************************************************************)
(* Staking implements the abstract custody: every step of an instruction   *)
(* lends, charges, pays out, exchanges or hands over a stake account, or   *)
(* is none of its business.                                                *)
(***************************************************************************)
EXTENDS StakingProofs

-----------------------------------------------------------------------------
(***************************************************************************)
(* The refinement mapping.                                                 *)
(***************************************************************************)

\* The lender that is chosen for an account that is lent is its only one.
LEMMA LentTo ==
  ASSUME StakingInv, NEW i \in Entries, NEW a \in StakeAccounts, LentAs(i, a)
  PROVE  /\ Lender(a) = i
         /\ Settled(a) = entry[i].last_commission_charge
<1>1. IsLent(i) /\ entry[i].stake_account = a
  BY StakingAssumption DEF IsLent, IsStaked, Accounts, LentAs
<1>2. \A j \in Entries : LentAs(j, a) => j = i
  BY <1>1 DEF StakingInv, StakedInCustody, LentAs
<1>3. Lender(a) = i
  BY <1>2 DEF Lender
<1> QED BY <1>3 DEF Settled

LEMMA LentToPrimed ==
  ASSUME StakingInv', NEW i \in Entries, NEW a \in StakeAccounts, LentAs(i, a)'
  PROVE  /\ Lender(a)' = i
         /\ Settled(a)' = entry'[i].last_commission_charge
<1>1. IsLent(i)' /\ entry'[i].stake_account = a
  BY StakingAssumption DEF IsLent, IsStaked, Accounts, LentAs
<1>2. \A j \in Entries : LentAs(j, a)' => j = i
  BY <1>1 DEF StakingInv, StakedInCustody, LentAs
<1>3. Lender(a)' = i
  BY <1>2 DEF Lender
<1> QED BY <1>3 DEF Settled

\* An account that is not lent is its withdrawer's.
LEMMA LentToNobody ==
  ASSUME StakingInv, NEW a \in StakeAccounts, \A j \in Entries : ~LentAs(j, a)
  PROVE  Lender(a) = stake[a].withdrawer /\ Lender(a) \notin Entries /\ Settled(a) = 0
<1>1. Lender(a) = stake[a].withdrawer
  BY DEF Lender
<1>2. stake[a].withdrawer \in Holders \cup {NoOne}
  BY DEF StakingInv, TypeOK, Accounts, StakeAccount
<1>3. Lender(a) \notin Entries
  BY <1>1, <1>2, StakingAssumption
<1> QED BY <1>1, <1>3 DEF Settled

LEMMA LentToNobodyPrimed ==
  ASSUME StakingInv', NEW a \in StakeAccounts, \A j \in Entries : ~LentAs(j, a)'
  PROVE  Lender(a)' = stake'[a].withdrawer /\ Settled(a)' = 0
<1>1. Lender(a)' = stake'[a].withdrawer
  BY DEF Lender
<1>2. stake'[a].withdrawer \in Holders \cup {NoOne}
  BY DEF StakingInv, TypeOK, Accounts, StakeAccount
<1>3. Lender(a)' \notin Entries
  BY <1>1, <1>2, StakingAssumption
<1> QED BY <1>1, <1>3 DEF Settled

\* An account that somebody else can withdraw, or that is gone, is not lent.
LEMMA FreeToUse ==
  ASSUME StakingInv, NEW a \in StakeAccounts,
         stake[a].withdrawer # Authority \/ stake[a].state # "Stake"
  PROVE  \A j \in Entries : ~LentAs(j, a)
  BY NotLent DEF LentAs, Accounts

\* What does not concern an account does not change its lender.
LEMMA LenderKept ==
  ASSUME StakingInv, StakingInv', NEW a \in StakeAccounts,
         stake'[a].withdrawer = stake[a].withdrawer,
         a \in taken' <=> a \in taken,
         a \notin taken =>
           \A j \in Entries :
             /\ entry'[j].stake_account = a <=> entry[j].stake_account = a
             /\ entry[j].stake_account = a =>
                  entry'[j].last_commission_charge = entry[j].last_commission_charge
  PROVE  Lender(a)' = Lender(a) /\ Settled(a)' = Settled(a)
<1>1. ASSUME NEW i \in Entries, LentAs(i, a)
      PROVE  Lender(a)' = Lender(a) /\ Settled(a)' = Settled(a)
  <2>1. /\ LentAs(i, a)'
        /\ entry'[i].last_commission_charge = entry[i].last_commission_charge
    BY <1>1 DEF LentAs
  <2> QED BY <1>1, <2>1, LentTo, LentToPrimed
<1>2. CASE \A i \in Entries : ~LentAs(i, a)
  <2>1. \A i \in Entries : ~LentAs(i, a)'
    BY <1>2 DEF LentAs
  <2> QED BY <1>2, <2>1, LentToNobody, LentToNobodyPrimed
<1> QED BY <1>1, <1>2

\* Nothing changes for the custody.
Unnoticed ==
  /\ \A a \in StakeAccounts :
       /\ Lender(a)' = Lender(a) /\ Settled(a)' = Settled(a)
       /\ stake'[a].delegation = stake[a].delegation
  /\ stake'[Master].delegation = stake[Master].delegation

LEMMA UnnoticedStep == Unnoticed => UNCHANGED Custody!custody
  BY DEF Unnoticed, Custody!custody

LEMMA EntriesAlone ==
  ASSUME StakingInv, StakingInv', UNCHANGED <<stake, taken>>,
         \A j \in Entries :
           /\ entry'[j].stake_account = entry[j].stake_account
           /\ entry'[j].last_commission_charge = entry[j].last_commission_charge
  PROVE  UNCHANGED Custody!custody
<1>1. ASSUME NEW a \in StakeAccounts PROVE Lender(a)' = Lender(a) /\ Settled(a)' = Settled(a)
  BY LenderKept
<1> QED BY <1>1, UnnoticedStep DEF Unnoticed

LEMMA CustodyInit == StakingInv /\ Init => Custody!Init
<1> SUFFICES ASSUME StakingInv, Init PROVE Custody!Init
  OBVIOUS
<1>1. \A i \in Entries : ~IsStaked(i)
  BY DEF Init, IsStaked
<1>2. PICK s \in Beginnings :
        stake = [a \in Accounts |->
                   IF a # Master THEN s.stake[a]
                   ELSE [state |-> "Stake", withdrawer |-> Authority, voter |-> Shinobi,
                         delegation |-> MasterMinimum, activity |-> "Activating"]]
  BY DEF Init
<1>3. stake[Master].delegation = MasterMinimum
  BY <1>2 DEF Accounts
<1>4. ASSUME NEW a \in StakeAccounts
      PROVE  /\ Lender(a) \in Signers \cup {NoOne, Authority} /\ Settled(a) = 0
             /\ stake[a].delegation \in Nat
  <2>1. a # Zeroes /\ a \in Accounts /\ stake[a] = s.stake[a]
    BY <1>2, StakingAssumption DEF Accounts
  <2>2. \A j \in Entries : ~LentAs(j, a)
    BY <1>1, <2>1 DEF IsStaked, LentAs
  <2>3. stake[a].withdrawer \in Signers \cup {NoOne, Authority}
    BY <2>1, StakingAssumption DEF NoStakeAccount
  <2> QED BY <2>1, <2>2, <2>3, LentToNobody DEF StakingInv, TypeOK, StakeAccount
<1> QED BY <1>3, <1>4 DEF Custody!Init

-----------------------------------------------------------------------------
(***************************************************************************)
(* Every action is a step of the custody, or unnoticed.                    *)
(***************************************************************************)

LEMMA StakeLends ==
  ASSUME StakingInv, StakingInv', NEW i \in Entries, NEW a \in StakeAccounts,
         NEW owner \in Acting, NEW signer \in Acting, UserStake(i, a, owner, signer)
  PROVE  Custody!Lend(a, i) \/ Custody!HandOver(a, Authority)
<1>1. /\ a \in Accounts /\ Master \in Accounts /\ a # Master /\ a # Zeroes
      /\ stake[a] \in StakeAccount /\ signer \in Signers /\ stake[a].withdrawer = signer
      /\ UNCHANGED taken
  BY StakingAssumption DEF Accounts, StakingInv, TypeOK, UserStake, WithdrawnBy
<1>2. \A j \in Entries : ~LentAs(j, a)
  BY <1>1, FreeToUse, StakingAssumption
<1>3. /\ stake' = [stake EXCEPT ![a] = AsStaked(stake[a])]
      /\ AsStaked(stake[a]).delegation = stake[a].delegation
      /\ AsStaked(stake[a]).withdrawer = Authority
  BY <1>1, AsStakedEffect DEF UserStake
<1>4. /\ \A b \in Accounts : b # a => stake'[b] = stake[b]
      /\ stake'[a].delegation = stake[a].delegation
      /\ stake'[a].withdrawer = Authority
  BY <1>1, <1>3 DEF StakingInv, TypeOK
<1>5. /\ entry[i].stake_account = Zeroes
      /\ entry'[i].stake_account = a /\ entry'[i].last_commission_charge = stake[a].delegation
      /\ \A j \in Entries \ {i} : entry'[j] = entry[j]
  <2> DEFINE n == stake[a].delegation
             e == [entry[i] EXCEPT !.stake_account = a, !.stake_initial_lamports = n,
                                   !.last_ki_harvest = n, !.last_commission_charge = n,
                                   !.commission = commission]
  <2>1. entry' = [entry EXCEPT ![i] = e] /\ entry[i].stake_account = Zeroes
    BY <1>3 DEF UserStake, IsStaked
  <2> HIDE DEF n
  <2>2. e.stake_account = a /\ e.last_commission_charge = n
    BY DEF StakingInv, TypeOK, StakedEntry
  <2> HIDE DEF e
  <2> QED BY <2>1, <2>2 DEF StakingInv, TypeOK, n
<1>6. Lender(a) = signer /\ Settled(a) = 0
  BY <1>1, <1>2, LentToNobody
<1>7. ASSUME NEW b \in StakeAccounts, b # a
      PROVE  /\ Lender(b)' = Lender(b) /\ Settled(b)' = Settled(b)
             /\ stake'[b].delegation = stake[b].delegation
  <2>1. stake'[b] = stake[b] /\ b # Zeroes
    BY <1>4, <1>7, StakingAssumption DEF Accounts
  <2>2. \A j \in Entries :
          /\ entry'[j].stake_account = b <=> entry[j].stake_account = b
          /\ entry[j].stake_account = b =>
               entry'[j].last_commission_charge = entry[j].last_commission_charge
    BY <1>5, <1>7, <2>1
  <2> QED BY <1>1, <2>1, <2>2, LenderKept
<1>8. CASE a \notin taken
  <2>1. LentAs(i, a)'
    BY <1>1, <1>5, <1>8 DEF LentAs
  <2>2. Lender(a)' = i /\ Settled(a)' = stake[a].delegation
    BY <1>5, <2>1, LentToPrimed
  <2>3. ASSUME NEW b \in StakeAccounts PROVE Lender(b) # i
    <3>1. ASSUME NEW j \in Entries, LentAs(j, b) PROVE Lender(b) # i
      <4>1. j # i
        BY <1>5, <3>1, StakingAssumption DEF Accounts, LentAs
      <4> QED BY <3>1, <4>1, LentTo
    <3>2. CASE \A j \in Entries : ~LentAs(j, b)
      BY <3>2, LentToNobody
    <3> QED BY <3>1, <3>2
  <2>4. Custody!Lend(a, i)
    BY <1>1, <1>4, <1>6, <1>7, <2>2, <2>3 DEF Custody!Lend
  <2> QED BY <2>4
<1>9. CASE a \in taken
  <2>1. \A j \in Entries : ~LentAs(j, a)'
    BY <1>1, <1>9 DEF LentAs
  <2>2. Lender(a)' = Authority /\ Settled(a)' = 0
    BY <1>4, <2>1, LentToNobodyPrimed
  <2>3. Custody!HandOver(a, Authority)
    BY <1>1, <1>4, <1>6, <1>7, <2>2 DEF Custody!HandOver
  <2> QED BY <2>3
<1> QED BY <1>8, <1>9

\* A charge of the account of an entry, with what becomes of the entry.
ChargeOf(i, c) ==
  LET a == entry[i].stake_account
  IN  /\ stake'[Master].delegation = stake[Master].delegation + c
      /\ stake'[a].delegation = stake[a].delegation - c
      /\ \A b \in Accounts \ {a, Master} : stake'[b] = stake[b]
      /\ \A j \in Entries \ {i} : entry'[j] = entry[j]
      /\ UNCHANGED taken
      /\ \/ /\ entry'[i].stake_account = a
            /\ entry'[i].last_commission_charge = stake[a].delegation - c
         \/ /\ entry'[i].stake_account = Zeroes
            /\ stake'[a].withdrawer \in Signers

\* It does not concern any other account.
LEMMA ChargeAlone ==
  ASSUME StakingInv, StakingInv', NEW i \in Entries, NEW c, ChargeOf(i, c),
         NEW b \in StakeAccounts, b # entry[i].stake_account
  PROVE  /\ Lender(b)' = Lender(b) /\ Settled(b)' = Settled(b)
         /\ stake'[b].delegation = stake[b].delegation
<1>1. stake'[b] = stake[b] /\ b # Zeroes
  BY StakingAssumption DEF Accounts, ChargeOf
<1>2. \A j \in Entries :
        /\ entry'[j].stake_account = b <=> entry[j].stake_account = b
        /\ entry[j].stake_account = b =>
             entry'[j].last_commission_charge = entry[j].last_commission_charge
  BY <1>1 DEF ChargeOf
<1> QED BY <1>1, <1>2, LenderKept DEF ChargeOf

LEMMA ChargeIsCharge ==
  ASSUME StakingInv, StakingInv', NEW i \in Entries, IsLent(i), NEW c \in Nat,
         c <= Delegation(i) - entry[i].last_commission_charge, ChargeOf(i, c)
  PROVE  \E a \in StakeAccounts : Custody!Charge(a)
<1>0. PICK a \in StakeAccounts : entry[i].stake_account = a
  BY StakedAccount, StakedEntryFacts
<1>1. /\ a \in Accounts /\ a # Master /\ a # Zeroes /\ a \notin taken
      /\ stake[a].delegation \in Nat /\ stake[Master].delegation \in Nat
      /\ c <= stake[a].delegation - entry[i].last_commission_charge
  BY <1>0, StakedAccount, MasterFacts, StakingAssumption DEF Accounts, Delegation
<1>2. /\ stake'[Master].delegation = stake[Master].delegation + c
      /\ stake'[a].delegation = stake[a].delegation - c
      /\ \A j \in Entries \ {i} : entry'[j] = entry[j]
      /\ UNCHANGED taken
      /\ \/ /\ entry'[i].stake_account = a
            /\ entry'[i].last_commission_charge = stake[a].delegation - c
         \/ /\ entry'[i].stake_account = Zeroes
            /\ stake'[a].withdrawer \in Signers
  BY <1>0 DEF ChargeOf
<1>3. \A j \in Entries \ {i} : entry[j].stake_account # a
  BY <1>0 DEF StakingInv, StakedInCustody
<1>4. Lender(a) = i /\ Settled(a) = entry[i].last_commission_charge
  BY <1>0, <1>1, LentTo DEF LentAs
<1>5. ASSUME NEW b \in StakeAccounts, b # a
      PROVE  /\ Lender(b)' = Lender(b) /\ Settled(b)' = Settled(b)
             /\ stake'[b].delegation = stake[b].delegation
  BY <1>0, <1>5, ChargeAlone
<1>6. \/ Lender(a)' = i /\ Settled(a)' = stake[a].delegation - c
      \/ Lender(a)' \in Signers /\ Settled(a)' = 0
  <2>1. CASE /\ entry'[i].stake_account = a
             /\ entry'[i].last_commission_charge = stake[a].delegation - c
    BY <1>1, <1>2, <2>1, LentToPrimed DEF LentAs
  <2>2. CASE entry'[i].stake_account = Zeroes /\ stake'[a].withdrawer \in Signers
    <3>1. \A j \in Entries : ~LentAs(j, a)'
      BY <1>1, <1>2, <1>3, <2>2 DEF LentAs
    <3> QED BY <2>2, <3>1, LentToNobodyPrimed
  <2> QED BY <1>2, <2>1, <2>2
<1>7. (stake'[Master].delegation - stake[Master].delegation) = c
  BY <1>1, <1>2
<1>8. Custody!Charge(a)
  <2>1. [b \in StakeAccounts |-> Lender(b)][a] \in Entries
    BY <1>1, <1>4
  <2>2. 0 <= c /\ c <= [b \in StakeAccounts |-> stake[b].delegation][a]
                       - [b \in StakeAccounts |-> Settled(b)][a]
    BY <1>1, <1>4
  <2>3. [b \in StakeAccounts |-> stake'[b].delegation] =
          [[b \in StakeAccounts |-> stake[b].delegation] EXCEPT ![a] = stake[a].delegation - c]
    BY <1>1, <1>2, <1>5
  <2>4. CASE Lender(a)' = i /\ Settled(a)' = stake[a].delegation - c
    <3>1. [b \in StakeAccounts |-> Settled(b)'] =
            [[b \in StakeAccounts |-> Settled(b)] EXCEPT ![a] = stake[a].delegation - c]
      BY <1>1, <1>5, <2>4
    <3>2. [b \in StakeAccounts |-> Lender(b)'] = [b \in StakeAccounts |-> Lender(b)]
      BY <1>1, <1>4, <1>5, <2>4
    <3> QED BY <1>1, <1>7, <2>1, <2>2, <2>3, <3>1, <3>2 DEF Custody!Charge
  <2>5. CASE Lender(a)' \in Signers /\ Settled(a)' = 0
    <3>1. [b \in StakeAccounts |-> Settled(b)'] =
            [[b \in StakeAccounts |-> Settled(b)] EXCEPT ![a] = 0]
      BY <1>1, <1>5, <2>5
    <3>2. [b \in StakeAccounts |-> Lender(b)'] =
            [[b \in StakeAccounts |-> Lender(b)] EXCEPT ![a] = Lender(a)']
      BY <1>1, <1>5
    <3> QED BY <1>1, <1>7, <2>1, <2>2, <2>3, <2>5, <3>1, <3>2 DEF Custody!Charge
  <2> QED BY <1>6, <2>4, <2>5
<1> QED BY <1>8

\* The program uses up an account that it has, and that is not lent any more.
Disposed ==
  \E a \in StakeAccounts, to \in Signers \cup {Authority} : Custody!Dispose(a, to)

\* What the handlers of a staked entry still do with an account that was taken.
LEMMA ChargeDisposes ==
  ASSUME StakingInv, StakingInv', NEW i \in Entries, IsStaked(i), ~IsLent(i), InHand(i),
         NEW c \in Nat, c <= Delegation(i), ChargeOf(i, c),
         stake'[entry[i].stake_account].withdrawer \in Signers \cup {Authority}
  PROVE  Disposed
<1>0. PICK a \in StakeAccounts : entry[i].stake_account = a
  BY StakedEntryFacts
<1>1. PICK to \in Signers \cup {Authority} : stake'[a].withdrawer = to
  BY <1>0
<1>2. /\ a \in taken /\ stake[a].withdrawer = Authority
      /\ c <= stake[a].delegation
      /\ stake[a].delegation \in Nat /\ stake[Master].delegation \in Nat
  BY <1>0, StakedEntryFacts, MasterFacts DEF IsLent, InHand, Delegation
<1>3. /\ stake'[Master].delegation = stake[Master].delegation + c
      /\ stake'[a].delegation = stake[a].delegation - c
      /\ UNCHANGED taken
  BY <1>0 DEF ChargeOf
<1>4. Lender(a) = Authority /\ Settled(a) = 0
  BY <1>2, LentToNobody DEF LentAs
<1>5. Lender(a)' = to /\ Settled(a)' = 0
  BY <1>1, <1>2, <1>3, LentToNobodyPrimed DEF LentAs
<1>6. ASSUME NEW b \in StakeAccounts, b # a
      PROVE  /\ Lender(b)' = Lender(b) /\ Settled(b)' = Settled(b)
             /\ stake'[b].delegation = stake[b].delegation
  BY <1>0, <1>6, ChargeAlone
<1>7. (stake'[Master].delegation - stake[Master].delegation) = c
  BY <1>2, <1>3
<1>8. /\ [b \in StakeAccounts |-> stake'[b].delegation] =
           [[b \in StakeAccounts |-> stake[b].delegation] EXCEPT ![a] = stake[a].delegation - c]
      /\ [b \in StakeAccounts |-> Lender(b)'] =
           [[b \in StakeAccounts |-> Lender(b)] EXCEPT ![a] = to]
      /\ [b \in StakeAccounts |-> Settled(b)'] = [b \in StakeAccounts |-> Settled(b)]
  BY <1>3, <1>4, <1>5, <1>6
<1>9. /\ [b \in StakeAccounts |-> Lender(b)][a] = Authority
      /\ [b \in StakeAccounts |-> stake[b].delegation][a] = stake[a].delegation
      /\ 0 <= c
  BY <1>4
<1>10. Custody!Dispose(a, to)
  BY <1>2, <1>7, <1>8, <1>9 DEF Custody!Dispose
<1> QED BY <1>2, <1>10 DEF Disposed

\* Commission goes to the master from no account but the program's.
LEMMA ChargedInHand ==
  ASSUME StakingInv, NEW i \in Entries, IsStaked(i), CanCharge(i), CommissionDue(i) # 0
  PROVE  InHand(i)
<1> DEFINE a == entry[i].stake_account
           m == MinimumDelegation
<1>1. stake[Master].withdrawer = Authority /\ stake[Master] \in StakeAccount
      /\ stake[a] \in StakeAccount
  BY MasterFacts, StakedEntryFacts
<1>2. CASE CanMove(stake, a, Master, CommissionDue(i))
  <2>1. SplitOff(stake[a], CommissionDue(i)).withdrawer = stake[Master].withdrawer
    BY <1>2 DEF CanMove, CanMerge
  <2> QED BY <1>1, <2>1 DEF SplitOff, StakeAccount, InHand
<1>3. CASE CanMove(stake, Master, a, m)
  <2>1. SplitOff(stake[Master], m).withdrawer = stake[a].withdrawer
    BY <1>3 DEF CanMove, CanMerge
  <2> QED BY <1>1, <2>1 DEF SplitOff, StakeAccount, InHand
<1> QED BY <1>2, <1>3 DEF CanCharge

LEMMA TakeCommissionCharges ==
  ASSUME StakingInv, StakingInv', NEW i \in Entries, TakeCommissionOrDelegate(i)
  PROVE  (\E a \in StakeAccounts : Custody!Charge(a)) \/ Disposed \/ UNCHANGED Custody!custody
<1> DEFINE a == entry[i].stake_account
<1>1. /\ IsStaked(i) /\ UNCHANGED taken
      /\ a \in StakeAccounts /\ a \in Accounts /\ a # Master /\ stake[a] \in StakeAccount
      /\ stake \in [Accounts -> StakeAccount] /\ entry \in [Entries -> StakedEntry]
      /\ Master \in Accounts
  BY StakedEntryFacts, MasterFacts DEF TakeCommissionOrDelegate, StakingInv, TypeOK
<1>2. CASE stake[a].state = "Initialized"
  <2> DEFINE e == [entry[i] EXCEPT !.last_ki_harvest = stake[a].delegation,
                                   !.last_commission_charge = stake[a].delegation]
             r == Delegated(stake[a], Shinobi)
  <2>1. /\ stake' = [stake EXCEPT ![a] = r] /\ entry' = [entry EXCEPT ![i] = e]
    BY <1>2 DEF TakeCommissionOrDelegate
  <2>2. r.withdrawer = stake[a].withdrawer /\ r.delegation = stake[a].delegation
    BY <1>1, StakingAssumption, DelegatedEffect
  <2>3. a \in taken
    BY <1>1, <1>2, StakedAccount DEF IsLent
  <2> HIDE DEF e, r
  <2>4. /\ \A b \in Accounts : /\ stake'[b].withdrawer = stake[b].withdrawer
                               /\ stake'[b].delegation = stake[b].delegation
        /\ \A j \in Entries \ {i} : entry'[j] = entry[j]
    BY <1>1, <2>1, <2>2
  <2>5. entry'[i].stake_account = a
    BY <1>1, <2>1 DEF e, StakedEntry
  <2>6. ASSUME NEW b \in StakeAccounts PROVE Lender(b)' = Lender(b) /\ Settled(b)' = Settled(b)
    <3>1. b \notin taken =>
            \A j \in Entries :
              /\ entry'[j].stake_account = b <=> entry[j].stake_account = b
              /\ entry[j].stake_account = b =>
                   entry'[j].last_commission_charge = entry[j].last_commission_charge
      BY <2>3, <2>4, <2>5
    <3> QED BY <1>1, <2>4, <3>1, LenderKept DEF Accounts
  <2>7. Unnoticed
    BY <1>1, <2>4, <2>6 DEF Unnoticed, Accounts
  <2> QED BY <2>7, UnnoticedStep
<1>3. CASE stake[a].state # "Initialized"
  <2>1. /\ CanCharge(i) /\ stake' = Charged(i)
        /\ entry' = [entry EXCEPT ![i] = EntryCharged(i)]
    BY <1>3 DEF TakeCommissionOrDelegate
  <2>2. entry'[i] = EntryCharged(i) /\ \A j \in Entries \ {i} : entry'[j] = entry[j]
    BY <1>1, <2>1
  <2>3. ChargeOf(i, CommissionDue(i))
    BY <1>1, <2>1, <2>2, ChargeEffect, AfterCharge DEF ChargeOf, Delegation
  <2>4. CASE IsLent(i)
    BY <2>3, <2>4, CommissionIsPart, ChargeIsCharge
  <2>5. CASE ~IsLent(i) /\ CommissionDue(i) # 0
    <3>1. InHand(i)
      BY <1>1, <2>1, <2>5, ChargedInHand
    <3>2. stake'[a].withdrawer = Authority
      BY <1>1, <2>1, <3>1, AfterCharge DEF InHand
    <3>3. CommissionDue(i) \in Nat /\ CommissionDue(i) <= Delegation(i)
      BY <1>1, <2>1, AfterCharge, StakedEntryFacts
    <3> QED BY <1>1, <2>3, <2>5, <3>1, <3>2, <3>3, ChargeDisposes
  <2>6. CASE ~IsLent(i) /\ CommissionDue(i) = 0
    <3>1. UNCHANGED stake
      BY <2>1, <2>6, StakeProgramAssumption DEF Charged
    <3>2. a \in taken /\ entry'[i].stake_account = a
      BY <1>1, <2>1, <2>2, <2>6, AfterCharge DEF IsLent
    <3>3. ASSUME NEW b \in StakeAccounts PROVE Lender(b)' = Lender(b) /\ Settled(b)' = Settled(b)
      <4>1. b \notin taken =>
              \A j \in Entries :
                /\ entry'[j].stake_account = b <=> entry[j].stake_account = b
                /\ entry[j].stake_account = b =>
                     entry'[j].last_commission_charge = entry[j].last_commission_charge
        BY <2>2, <3>2
      <4> QED BY <1>1, <3>1, <4>1, LenderKept
    <3>4. Unnoticed
      BY <3>1, <3>3 DEF Unnoticed
    <3> QED BY <3>4, UnnoticedStep
  <2> QED BY <2>4, <2>5, <2>6
<1> QED BY <1>2, <1>3

LEMMA DestakeCharges ==
  ASSUME StakingInv, StakingInv', NEW i \in Entries, NEW owner \in Acting,
         NEW destination \in KiOwners, UserDestake(i, owner, destination)
  PROVE  (\E a \in StakeAccounts : Custody!Charge(a)) \/ Disposed
<1> DEFINE a == entry[i].stake_account
           r == Reauthorized(Charged(i)[a], owner)
<1>1. /\ IsStaked(i) /\ CanCharge(i) /\ InHand(i) /\ stake' = [Charged(i) EXCEPT ![a] = r]
      /\ entry' = [entry EXCEPT ![i] = Destaked(EntryCharged(i))]
      /\ owner \in Signers /\ owner \in Holders /\ UNCHANGED taken
  BY StakingAssumption DEF UserDestake
<1>2. /\ Charged(i) \in [Accounts -> StakeAccount] /\ Charged(i)[a] \in StakeAccount
      /\ a \in Accounts /\ Master \in Accounts /\ a # Master
  BY <1>1, ChargeEffect, StakedEntryFacts, MasterFacts
<1>3. r.withdrawer = owner /\ r.delegation = Charged(i)[a].delegation
  BY <1>1, <1>2, ReauthorizedEffect
<1> HIDE DEF r
<1>4. /\ stake'[a] = r /\ stake'[Master] = Charged(i)[Master]
      /\ \A b \in Accounts \ {a, Master} : stake'[b] = stake[b]
  BY <1>1, <1>2, ChargeEffect
<1>5. Destaked(EntryCharged(i)).stake_account = Zeroes
  BY <1>1, AfterCharge DEF Destaked, StakedEntry
<1>6. entry'[i].stake_account = Zeroes /\ \A j \in Entries \ {i} : entry'[j] = entry[j]
  BY <1>1, <1>5 DEF StakingInv, TypeOK
<1>7. ChargeOf(i, CommissionDue(i))
  BY <1>1, <1>3, <1>4, <1>6, AfterCharge DEF ChargeOf, Delegation
<1>8. CASE IsLent(i)
  BY <1>7, <1>8, CommissionIsPart, ChargeIsCharge
<1>9. CASE ~IsLent(i)
  <2>1. stake'[a].withdrawer \in Signers \cup {Authority}
    BY <1>1, <1>3, <1>4
  <2>2. CommissionDue(i) \in Nat /\ CommissionDue(i) <= Delegation(i)
    BY <1>1, AfterCharge, StakedEntryFacts
  <2> QED BY <1>1, <1>7, <1>9, <2>1, <2>2, ChargeDisposes
<1> QED BY <1>8, <1>9

LEMMA ReauthorizeReturns ==
  ASSUME StakingInv, StakingInv', NEW i \in Entries, NEW signer \in Acting, NEW owner \in Acting,
         NEW to \in NewAuthorities, Reauthorize(i, signer, owner, to)
  PROVE  (\E a \in StakeAccounts : Custody!Charge(a)) \/ Disposed \/ UNCHANGED Custody!custody
<1>1. CASE IsStaked(i)
  <2> DEFINE a == entry[i].stake_account
             r == Reauthorized(stake[a], to)
  <2>1. /\ a \in Accounts /\ Master \in Accounts /\ a # Master
        /\ stake[a] \in StakeAccount /\ to \in Signers /\ to \in Holders
    BY <1>1, StakedEntryFacts, MasterFacts, StakingAssumption
  <2>2. r.withdrawer = to /\ r.delegation = stake[a].delegation
    BY <2>1, ReauthorizedEffect
  <2>3. /\ stake' = [stake EXCEPT ![a] = r] /\ entry' = [entry EXCEPT ![i] = Destaked(entry[i])]
        /\ InHand(i) /\ UNCHANGED taken
    BY <1>1 DEF Reauthorize
  <2> HIDE DEF r
  <2>4. stake'[a] = r /\ \A b \in Accounts \ {a} : stake'[b] = stake[b]
    BY <2>1, <2>3 DEF StakingInv, TypeOK
  <2>5. Destaked(entry[i]).stake_account = Zeroes
    BY DEF Destaked, StakedEntry, StakingInv, TypeOK
  <2>6. entry'[i].stake_account = Zeroes /\ \A j \in Entries \ {i} : entry'[j] = entry[j]
    BY <2>3, <2>5 DEF StakingInv, TypeOK
  <2>7. stake[Master].delegation + 0 = stake[Master].delegation
        /\ stake[a].delegation - 0 = stake[a].delegation
    BY <2>1, MasterFacts DEF StakeAccount
  <2>8. ChargeOf(i, 0)
    BY <2>1, <2>2, <2>3, <2>4, <2>6, <2>7 DEF ChargeOf
  <2>9. CASE IsLent(i)
    <3>1. 0 <= Delegation(i) - entry[i].last_commission_charge
      BY <2>9, StakedAccount
    <3> QED BY <2>8, <2>9, <3>1, ChargeIsCharge
  <2>10. CASE ~IsLent(i)
    <3>1. stake'[a].withdrawer \in Signers \cup {Authority} /\ 0 <= Delegation(i)
      BY <1>1, <2>1, <2>2, <2>4, StakedEntryFacts
    <3> QED BY <1>1, <2>3, <2>8, <2>10, <3>1, ChargeDisposes
  <2> QED BY <2>9, <2>10
<1>2. CASE ~IsStaked(i)
  BY <1>2, EntriesAlone DEF Reauthorize
<1> QED BY <1>1, <1>2

\* Entries and accounts other than those of a set A are as they were.
LEMMA OthersKept ==
  ASSUME StakingInv, StakingInv', UNCHANGED entry, NEW A \in SUBSET Accounts,
         \A b \in Accounts \ A : stake'[b] = stake[b],
         NEW b \in StakeAccounts \ A, b \in taken' <=> b \in taken
  PROVE  /\ Lender(b)' = Lender(b) /\ Settled(b)' = Settled(b)
         /\ stake'[b].delegation = stake[b].delegation
<1>1. stake'[b] = stake[b]
  BY DEF Accounts
<1> QED BY <1>1, LenderKept

LEMMA SplitPaysOut ==
  ASSUME StakingInv, StakingInv', NEW signer \in Acting, NEW into \in StakeAccounts,
         NEW lamports \in SplitAmounts, SplitMasterStake(signer, into, lamports),
         NEW p, p = admin
  PROVE  Custody!PayOut(into, p)
<1> DEFINE n == Splittable(lamports)
           r == Reauthorized(SplitOff(stake[Master], n), admin)
           m == Without(stake[Master], n)
<1>1. /\ into \in Accounts /\ Master \in Accounts /\ into # Master
      /\ stake[Master] \in StakeAccount /\ admin \in Signers /\ admin \in Holders
      /\ stake[into].state = "Uninitialized" /\ stake[Master].delegation \in Nat
  BY StakingAssumption, MasterFacts
     DEF Accounts, StakingInv, TypeOK, SplitMasterStake, SplitInto
<1>2. n \in Nat /\ n <= stake[Master].delegation - MasterMinimum
  BY SplittableFits DEF SplitMasterStake
<1>3. stake' = [stake EXCEPT ![Master] = m, ![into] = r] /\ UNCHANGED <<entry, taken>>
  BY DEF SplitMasterStake, SplitInto
<1> HIDE DEF n
<1>4. n <= stake[Master].delegation /\ stake[Master].delegation - n >= MasterMinimum
  BY <1>1, <1>2, MasterFacts
<1>5. m.delegation = stake[Master].delegation - n
  BY <1>1, <1>2, <1>4, WithoutEffect
<1>6. r.withdrawer = admin /\ r.delegation = n
  <2>1. SplitOff(stake[Master], n) \in StakeAccount /\ SplitOff(stake[Master], n).delegation = n
    BY <1>1, <1>2, SplitOffEffect
  <2> QED BY <1>1, <2>1, ReauthorizedEffect
<1> HIDE DEF m, r
<1>7. /\ stake'[Master] = m /\ stake'[into] = r
      /\ \A b \in Accounts \ {Master, into} : stake'[b] = stake[b]
  BY <1>1, <1>3 DEF StakingInv, TypeOK
<1>8. \A j \in Entries : ~LentAs(j, into) /\ ~LentAs(j, into)'
  BY <1>1, <1>3, FreeToUse DEF LentAs
<1>9. Lender(into) = NoOne /\ Settled(into) = 0
  BY <1>1, <1>8, LentToNobody DEF StakingInv, UnusedUnowned
<1>10. Lender(into)' = p /\ Settled(into)' = 0
  BY <1>3, <1>6, <1>7, <1>8, LentToNobodyPrimed
<1>11. ASSUME NEW b \in StakeAccounts, b # into
       PROVE  /\ Lender(b)' = Lender(b) /\ Settled(b)' = Settled(b)
              /\ stake'[b].delegation = stake[b].delegation
  <2>1. b \in StakeAccounts \ {Master, into} /\ {Master, into} \in SUBSET Accounts
    BY <1>1, <1>11, StakingAssumption
  <2> QED BY <1>3, <1>7, <2>1, OthersKept
<1>12. stake'[into].delegation = n /\ stake'[Master].delegation = stake[Master].delegation - n
  BY <1>5, <1>6, <1>7
<1>13. /\ [b \in StakeAccounts |-> Lender(b)'] =
            [[b \in StakeAccounts |-> Lender(b)] EXCEPT ![into] = p]
       /\ [b \in StakeAccounts |-> stake'[b].delegation] =
            [[b \in StakeAccounts |-> stake[b].delegation] EXCEPT ![into] = n]
       /\ [b \in StakeAccounts |-> Settled(b)'] = [b \in StakeAccounts |-> Settled(b)]
  BY <1>9, <1>10, <1>11, <1>12
<1>14. [b \in StakeAccounts |-> stake'[b].delegation][into] = n
  BY <1>12
<1>15. /\ [b \in StakeAccounts |-> Lender(b)][into] = NoOne
       /\ n >= 0
       /\ stake'[Master].delegation = stake[Master].delegation - n
  BY <1>2, <1>9, <1>12
<1> HIDE DEF n
<1> QED BY <1>4, <1>13, <1>14, <1>15, Zenon DEF Custody!PayOut

LEMMA MergeExchanges ==
  ASSUME StakingInv, StakingInv', NEW signer \in Acting, NEW pre \in StakeAccounts,
         NEW into \in StakeAccounts, NEW lamports \in SplitAmounts,
         MergeAndSplitMasterStake(signer, pre, into, lamports), NEW p, p = admin
  PROVE  Custody!Exchange(pre, into, p)
<1> DEFINE d == stake[pre].delegation
           n == Splittable(lamports) + d
           s == [stake EXCEPT ![Master] = With(stake[Master], d), ![pre] = NoStakeAccount]
           r == Reauthorized(SplitOff(s[Master], n), admin)
           m == Without(s[Master], n)
<1>1. /\ pre \in Accounts /\ into \in Accounts /\ Master \in Accounts
      /\ into # Master /\ pre # Master /\ into # pre
      /\ stake[Master] \in StakeAccount /\ admin \in Signers /\ admin \in Holders
      /\ stake[pre].withdrawer = Authority /\ d \in Nat /\ stake[Master].delegation \in Nat
      /\ UNCHANGED entry /\ SplitInto(s, into, n)
      /\ taken' = taken \cup ({pre} \cap {entry[j].stake_account : j \in Entries})
  BY StakingAssumption, MasterFacts
     DEF Accounts, StakingInv, TypeOK, StakeAccount, MergeAndSplitMasterStake, CanMerge
<1>2. Splittable(lamports) \in Nat /\ Splittable(lamports) <= stake[Master].delegation - MasterMinimum
  BY SplittableFits DEF MergeAndSplitMasterStake
<1> HIDE DEF d
<1>3. n \in Nat /\ stake[Master].delegation + d - n >= MasterMinimum
      /\ n <= stake[Master].delegation + d
  BY <1>1, <1>2, MasterFacts
<1>4. /\ With(stake[Master], d) \in StakeAccount
      /\ With(stake[Master], d).delegation = stake[Master].delegation + d
  BY <1>1, WithEffect
<1>5. /\ s[Master] = With(stake[Master], d) /\ s[pre] = NoStakeAccount
      /\ s \in [Accounts -> StakeAccount]
      /\ \A b \in Accounts \ {Master, pre} : s[b] = stake[b]
  BY <1>1, <1>4 DEF StakingInv, TypeOK, NoStakeAccount, StakeAccount
<1>6. stake' = [s EXCEPT ![Master] = m, ![into] = r] /\ s[into].state = "Uninitialized"
  BY <1>1 DEF SplitInto
<1> HIDE DEF n, s
<1>7. m.delegation = stake[Master].delegation + d - n
  <2>1. /\ s[Master] \in StakeAccount /\ n <= s[Master].delegation
        /\ s[Master].delegation = stake[Master].delegation + d
    BY <1>3, <1>4, <1>5
  <2>2. Without(s[Master], n).delegation = s[Master].delegation - n
    BY <1>3, <2>1, WithoutEffect
  <2>3. (stake[Master].delegation + d) - n = stake[Master].delegation + d - n
    BY <1>1, <1>3
  <2>4. m.delegation = (stake[Master].delegation + d) - n
    BY <2>1, <2>2, Zenon DEF m
  <2> QED BY <2>3, <2>4, Zenon
<1>8. r.withdrawer = admin /\ r.delegation = n
  <2>1. SplitOff(s[Master], n) \in StakeAccount /\ SplitOff(s[Master], n).delegation = n
    BY <1>3, <1>4, <1>5, SplitOffEffect
  <2> QED BY <1>1, <2>1, ReauthorizedEffect
<1> HIDE DEF m, r
<1>9. /\ stake'[Master] = m /\ stake'[into] = r /\ stake'[pre] = NoStakeAccount
      /\ \A b \in Accounts \ {Master, into, pre} : stake'[b] = stake[b]
  BY <1>1, <1>5, <1>6
<1>10. stake[into].state = "Uninitialized"
  BY <1>1, <1>5, <1>6
<1>11. \A j \in Entries : ~LentAs(j, into) /\ ~LentAs(j, into)' /\ ~LentAs(j, pre)'
  BY <1>1, <1>10, FreeToUse DEF LentAs
<1>12. /\ Lender(into) = NoOne /\ Settled(into) = 0
       /\ Lender(pre) \in Entries \cup {Authority}
  <2>1. ASSUME NEW j \in Entries, LentAs(j, pre) PROVE Lender(pre) \in Entries
    BY <2>1, LentTo
  <2>2. ASSUME \A j \in Entries : ~LentAs(j, pre) PROVE Lender(pre) = Authority
    BY <1>1, <2>2, LentToNobody
  <2>3. Lender(pre) \in Entries \cup {Authority}
    BY <2>1, <2>2
  <2> QED BY <1>10, <1>11, <2>3, LentToNobody DEF StakingInv, UnusedUnowned
<1>13. /\ Lender(into)' = p /\ Settled(into)' = 0
       /\ Lender(pre)' = NoOne /\ Settled(pre)' = 0
  BY <1>1, <1>8, <1>9, <1>11, LentToNobodyPrimed DEF NoStakeAccount
<1>14. ASSUME NEW b \in StakeAccounts, b # into, b # pre
       PROVE  /\ Lender(b)' = Lender(b) /\ Settled(b)' = Settled(b)
              /\ stake'[b].delegation = stake[b].delegation
  <2>1. /\ b \in StakeAccounts \ {Master, into, pre}
        /\ {Master, into, pre} \in SUBSET Accounts
        /\ b \in taken' <=> b \in taken
    BY <1>1, <1>14, StakingAssumption
  <2> QED BY <1>1, <1>9, <2>1, OthersKept
<1>15. /\ stake'[into].delegation = n /\ stake'[pre].delegation = 0
       /\ stake'[Master].delegation = stake[Master].delegation + d - n
       /\ stake[pre].delegation = d
  BY <1>7, <1>8, <1>9 DEF NoStakeAccount, d
<1>16. /\ [b \in StakeAccounts |-> Lender(b)'] =
            [[b \in StakeAccounts |-> Lender(b)] EXCEPT ![into] = p, ![pre] = NoOne]
       /\ [b \in StakeAccounts |-> stake'[b].delegation] =
            [[b \in StakeAccounts |-> stake[b].delegation] EXCEPT ![into] = n, ![pre] = 0]
       /\ [b \in StakeAccounts |-> Settled(b)'] =
            [[b \in StakeAccounts |-> Settled(b)] EXCEPT ![pre] = 0]
  BY <1>1, <1>12, <1>13, <1>14, <1>15
<1>17. /\ [b \in StakeAccounts |-> stake'[b].delegation][into] = n
       /\ [b \in StakeAccounts |-> stake[b].delegation][pre] = d
       /\ [b \in StakeAccounts |-> Lender(b)][pre] \in Entries \cup {Authority}
       /\ [b \in StakeAccounts |-> Lender(b)][into] = NoOne
  BY <1>1, <1>12, <1>15
<1>18. n >= 0
  BY <1>3
<1> QED BY <1>3, <1>15, <1>16, <1>17, <1>18, Zenon DEF Custody!Exchange

LEMMA HolderHandsOver ==
  ASSUME StakingInv, StakingInv', NEW a \in StakeAccounts, NEW holder \in Acting,
         HolderActs(a, holder)
  PROVE  \/ \E to \in Signers \cup {Authority} : Custody!HandOver(a, to)
         \/ UNCHANGED Custody!custody
<1>1. /\ a \in Accounts /\ Master \in Accounts /\ a # Master /\ stake[a] \in StakeAccount
      /\ holder \in Signers /\ stake[a].withdrawer = holder /\ UNCHANGED <<entry, taken>>
  BY StakingAssumption DEF Accounts, StakingInv, TypeOK, HolderActs
<1>2. \A j \in Entries : ~LentAs(j, a) /\ ~LentAs(j, a)'
  BY <1>1, FreeToUse, StakingAssumption DEF LentAs
<1>3. ASSUME NEW r, stake' = [stake EXCEPT ![a] = r], r.delegation = stake[a].delegation
      PROVE  /\ \A b \in StakeAccounts :
                  /\ b # a => Lender(b)' = Lender(b)
                  /\ Settled(b)' = Settled(b)
                  /\ stake'[b].delegation = stake[b].delegation
             /\ stake'[Master].delegation = stake[Master].delegation
             /\ Lender(a)' = r.withdrawer
  <2>1. stake'[a] = r /\ \A b \in Accounts \ {a} : stake'[b] = stake[b]
    BY <1>1, <1>3 DEF StakingInv, TypeOK
  <2>2. Lender(a)' = r.withdrawer /\ Settled(a)' = 0 /\ Settled(a) = 0
    BY <1>1, <1>2, <2>1, LentToNobody, LentToNobodyPrimed
  <2>3. ASSUME NEW b \in StakeAccounts, b # a
        PROVE  /\ Lender(b)' = Lender(b) /\ Settled(b)' = Settled(b)
               /\ stake'[b].delegation = stake[b].delegation
    BY <1>1, <2>1, <2>3, OthersKept, {a} \in SUBSET Accounts
  <2> QED BY <1>1, <1>3, <2>1, <2>2, <2>3
<1>4. Lender(a) = holder
  BY <1>1, <1>2, LentToNobody
<1>5. ASSUME NEW to \in Recipients, stake' = [stake EXCEPT ![a] = Reauthorized(stake[a], to)]
      PROVE  \E h \in Signers \cup {Authority} : Custody!HandOver(a, h)
  <2> DEFINE r == Reauthorized(stake[a], to)
  <2>1. to \in Holders /\ to \in Signers \cup {Authority}
    BY StakingAssumption
  <2>2. r.delegation = stake[a].delegation /\ r.withdrawer = to
    BY <1>1, <2>1, ReauthorizedEffect
  <2> HIDE DEF r
  <2>3. stake' = [stake EXCEPT ![a] = r]
    BY <1>5 DEF r
  <2>4. /\ \A b \in StakeAccounts :
             /\ b # a => Lender(b)' = Lender(b)
             /\ Settled(b)' = Settled(b)
             /\ stake'[b].delegation = stake[b].delegation
        /\ stake'[Master].delegation = stake[Master].delegation
        /\ Lender(a)' = to
    BY <1>3, <2>2, <2>3
  <2>5. Custody!HandOver(a, to)
    BY <1>1, <1>4, <2>4 DEF Custody!HandOver
  <2> QED BY <2>1, <2>5
<1>6. ASSUME NEW r, stake' = [stake EXCEPT ![a] = r], r.delegation = stake[a].delegation,
             r.withdrawer = stake[a].withdrawer
      PROVE  UNCHANGED Custody!custody
  <2>1. /\ \A b \in StakeAccounts :
             /\ b # a => Lender(b)' = Lender(b)
             /\ Settled(b)' = Settled(b)
             /\ stake'[b].delegation = stake[b].delegation
        /\ stake'[Master].delegation = stake[Master].delegation
        /\ Lender(a)' = r.withdrawer
    BY <1>3, <1>6
  <2>2. \A b \in StakeAccounts : Lender(b)' = Lender(b)
    BY <1>1, <1>4, <1>6, <2>1
  <2> QED BY <2>1, <2>2, UnnoticedStep DEF Unnoticed
<1>7. ASSUME NEW voter \in Voters, stake' = [stake EXCEPT ![a] = Delegated(stake[a], voter)]
      PROVE  UNCHANGED Custody!custody
  BY <1>1, <1>6, <1>7, DelegatedEffect
<1>8. ASSUME stake' = [stake EXCEPT ![a] = Deactivated(stake[a])]
      PROVE  UNCHANGED Custody!custody
  BY <1>1, <1>6, <1>8, DeactivatedEffect
<1> QED BY <1>5, <1>7, <1>8 DEF HolderActs

LEMMA EpochEarns ==
  ASSUME StakingInv, StakingInv', NEW reward \in [Voters -> Rewards], EpochPasses(reward)
  PROVE  Custody!Earn
<1> DEFINE earned(a) == IF stake[a].voter = NoOne THEN 0 ELSE reward[stake[a].voter]
<1>1. ASSUME NEW a \in Accounts
      PROVE  /\ stake[a] \in StakeAccount /\ earned(a) \in Nat
             /\ stake'[a] = AfterEpoch(stake[a], earned(a))
  BY StakingAssumption DEF EpochPasses, StakingInv, TypeOK, StakeAccount
<1> HIDE DEF earned
<1>2. ASSUME NEW a \in Accounts
      PROVE  /\ stake'[a].withdrawer = stake[a].withdrawer
             /\ stake'[a].delegation >= stake[a].delegation /\ stake'[a].delegation \in Nat
  <2>1. /\ stake'[a] \in StakeAccount /\ stake'[a].withdrawer = stake[a].withdrawer
        /\ stake'[a].delegation >= stake[a].delegation
    BY <1>1, AfterEpochEffect
  <2>2. stake'[a].delegation \in Nat
    BY <2>1 DEF StakeAccount
  <2> QED BY <2>1, <2>2
<1>3. ASSUME NEW a \in StakeAccounts
      PROVE  Lender(a)' = Lender(a) /\ Settled(a)' = Settled(a)
  BY <1>2, LenderKept DEF EpochPasses, Accounts
<1> QED BY <1>2, <1>3, MasterFacts DEF Custody!Earn, Accounts

LEMMA HarvestAlone ==
  ASSUME StakingInv, StakingInv', NEW i \in Entries, NEW x \in Acting, NEW y \in KiOwners,
         UserHarvest(i, x, y) \/ UserLevelUp(i, x, y)
  PROVE  UNCHANGED Custody!custody
<1> DEFINE e == [entry[i] EXCEPT !.level = entry[i].level + 1]
<1>1. /\ EntryHarvested(i).stake_account = entry[i].stake_account
      /\ EntryHarvested(i).last_commission_charge = entry[i].last_commission_charge
  BY DEF EntryHarvested, StakingInv, TypeOK, StakedEntry
<1>2. e.stake_account = entry[i].stake_account
      /\ e.last_commission_charge = entry[i].last_commission_charge
  BY DEF StakingInv, TypeOK, StakedEntry
<1>3. entry' = [entry EXCEPT ![i] = EntryHarvested(i)] \/ entry' = [entry EXCEPT ![i] = e]
  BY DEF UserHarvest, UserLevelUp
<1>4. UNCHANGED <<stake, taken>>
  BY DEF UserHarvest, UserLevelUp
<1> HIDE DEF e
<1>5. \A j \in Entries :
        /\ entry'[j].stake_account = entry[j].stake_account
        /\ entry'[j].last_commission_charge = entry[j].last_commission_charge
  BY <1>1, <1>2, <1>3 DEF StakingInv, TypeOK
<1> QED BY <1>4, <1>5, EntriesAlone

(***************************************************************************)
(* Staking implements the custody: stake accounts are lent and given back  *)
(* as it says, and the master gets no more than it says: of what is lent a *)
(* part of what it earns, unless the admin exchanges it for a new account  *)
(* in admin_split_master_stake, which nothing in the program prevents.     *)
(***************************************************************************)
THEOREM CustodyImplemented == Spec => CustodySpec
<1>1. StakingInv /\ Init => Custody!Init
  BY CustodyInit
<1>2. StakingInv /\ StakingInv' /\ [Next]_vars => [Custody!Next]_(Custody!custody)
  <2> SUFFICES ASSUME StakingInv, StakingInv', [Next]_vars
               PROVE  Custody!Next \/ UNCHANGED Custody!custody
    OBVIOUS
  <2>1. CASE UNCHANGED vars
    BY <2>1, EntriesAlone DEF vars
  <2>2. CASE Next
    <3>1. PICK p \in Signers : p = admin
      BY DEF StakingInv, TypeOK
    <3>2. ASSUME UNCHANGED <<entry, stake, taken>> PROVE UNCHANGED Custody!custody
      BY <3>2, EntriesAlone
    <3>3. ASSUME NEW signer \in Acting, NEW new \in Commissions, SetBlockCommission(signer, new)
          PROVE  UNCHANGED Custody!custody
      BY <3>2, <3>3 DEF SetBlockCommission
    <3>4. ASSUME NEW new \in NewAdmins, SetAdmin(new) PROVE UNCHANGED Custody!custody
      BY <3>2, <3>4 DEF SetAdmin
    <3>5. ASSUME NEW i \in Entries, NEW from \in Acting, NEW to \in Buyers,
                 TransferToken(i, from, to)
          PROVE  UNCHANGED Custody!custody
      BY <3>2, <3>5 DEF TransferToken
    <3>6. ASSUME NEW i \in Entries, NEW a \in StakeAccounts, NEW owner \in Acting,
                 NEW signer \in Acting, UserStake(i, a, owner, signer)
          PROVE  Custody!Next
      BY <3>6, StakeLends DEF Custody!Next
    <3>7. ASSUME (\E a \in StakeAccounts : Custody!Charge(a)) \/ Disposed
          PROVE  Custody!Next
      BY <3>7 DEF Custody!Next, Disposed
    <3>8. ASSUME NEW i \in Entries, TakeCommissionOrDelegate(i)
          PROVE  Custody!Next \/ UNCHANGED Custody!custody
      BY <3>7, <3>8, TakeCommissionCharges
    <3>9. ASSUME NEW i \in Entries, NEW x \in Acting, NEW y \in KiOwners,
                 UserHarvest(i, x, y) \/ UserDestake(i, x, y) \/ UserLevelUp(i, x, y)
          PROVE  Custody!Next \/ UNCHANGED Custody!custody
      BY <3>7, <3>9, DestakeCharges, HarvestAlone
    <3>10. ASSUME NEW i \in Entries, NEW signer \in Acting, NEW owner \in Acting,
                  NEW to \in NewAuthorities, Reauthorize(i, signer, owner, to)
           PROVE  Custody!Next \/ UNCHANGED Custody!custody
      BY <3>7, <3>10, ReauthorizeReturns
    <3>11. ASSUME NEW signer \in Acting, NEW into \in StakeAccounts, NEW lamports \in SplitAmounts,
                  SplitMasterStake(signer, into, lamports)
           PROVE  Custody!Next
      BY <3>1, <3>11, SplitPaysOut DEF Custody!Next
    <3>12. ASSUME NEW signer \in Acting, NEW into \in StakeAccounts, NEW lamports \in SplitAmounts,
                  NEW pre \in StakeAccounts,
                  MergeAndSplitMasterStake(signer, pre, into, lamports)
           PROVE  Custody!Next
      BY <3>1, <3>12, MergeExchanges DEF Custody!Next
    <3>13. ASSUME NEW a \in StakeAccounts, NEW holder \in Acting, HolderActs(a, holder)
           PROVE  Custody!Next \/ UNCHANGED Custody!custody
      BY <3>13, HolderHandsOver DEF Custody!Next
    <3>14. ASSUME NEW reward \in [Voters -> Rewards], EpochPasses(reward) PROVE Custody!Next
      BY <3>14, EpochEarns DEF Custody!Next
    <3> QED BY <2>2, <3>3, <3>4, <3>5, <3>6, <3>8, <3>9, <3>10, <3>11, <3>12, <3>13, <3>14
            DEF Next
  <2> QED BY <2>1, <2>2
<1> QED BY <1>1, <1>2, StakingInvHolds, PTL DEF Spec, CustodySpec, Custody!Spec
=============================================================================
