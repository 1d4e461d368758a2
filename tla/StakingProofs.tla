--------------------------- MODULE StakingProofs ----------------------------
(***************************************************************************)
(* What is proved of staking for any number of entries, accounts and       *)
(* epochs, and any rewards, commissions and word size.                     *)
(***************************************************************************)
EXTENDS StakingProperties, KiProofs

-----------------------------------------------------------------------------
(***************************************************************************)
(* The inductive invariant.                                                *)
(***************************************************************************)

\* The master stake account stays with the program.
MasterHeld == stake[Master].state = "Stake" /\ stake[Master].withdrawer = Authority

\* An account that does not exist belongs to nobody.
UnusedUnowned ==
  \A a \in StakeAccounts : stake[a].state = "Uninitialized" => stake[a].withdrawer = NoOne

StakingInv ==
  /\ TypeOK
  /\ StakedInCustody
  /\ PrincipalKept
  /\ MasterKeepsMinimum
  /\ MasterHeld
  /\ UnusedUnowned

\* What is known of a staked entry, and of the address it is staked with.
LEMMA StakedEntryFacts ==
  ASSUME StakingInv, NEW i \in Entries, IsStaked(i)
  PROVE  /\ entry[i] \in StakedEntry
         /\ entry[i].stake_account \in StakeAccounts
         /\ entry[i].stake_account \in Accounts \ {Master}
         /\ stake[entry[i].stake_account] \in StakeAccount
         /\ Delegation(i) \in Nat
         /\ entry[i].stake_initial_lamports \in Nat
         /\ entry[i].last_ki_harvest \in Nat
         /\ entry[i].last_commission_charge \in Nat
         /\ entry[i].commission \in Nat /\ entry[i].commission <= FullCommission
<1>1. entry[i].stake_account \in StakeAccounts
  BY DEF StakingInv, StakedInCustody
<1>2. entry[i].stake_account \in Accounts \ {Master}
  BY <1>1, StakingAssumption DEF Accounts
<1>3. stake[entry[i].stake_account] \in StakeAccount /\ entry[i] \in StakedEntry
  BY <1>2 DEF StakingInv, TypeOK
<1>4. Delegation(i) \in Nat
  BY <1>3 DEF Delegation, StakeAccount
<1>5. /\ entry[i].stake_initial_lamports \in Nat /\ entry[i].last_ki_harvest \in Nat
      /\ entry[i].last_commission_charge \in Nat
      /\ entry[i].commission \in Nat /\ entry[i].commission <= FullCommission
  BY <1>3, StakingAssumption DEF StakedEntry
<1> QED BY <1>1, <1>2, <1>3, <1>4, <1>5

\* Of an account that is lent more is known.
LEMMA StakedAccount ==
  ASSUME StakingInv, NEW i \in Entries, IsLent(i)
  PROVE  /\ IsStaked(i)
         /\ entry[i].stake_account \in Accounts \ {Master}
         /\ entry[i].stake_account \notin taken
         /\ stake[entry[i].stake_account].state = "Stake"
         /\ stake[entry[i].stake_account].withdrawer = Authority
         /\ Delegation(i) \in Nat
         /\ entry[i].last_commission_charge \in Nat
         /\ entry[i].stake_initial_lamports <= entry[i].last_commission_charge
         /\ entry[i].last_commission_charge <= Delegation(i)
<1>1. IsStaked(i) /\ entry[i].stake_account \notin taken
  BY DEF IsLent
<1> QED BY <1>1, StakedEntryFacts DEF StakingInv, StakedInCustody, PrincipalKept

LEMMA CommissionNat ==
  ASSUME StakingInv, NEW i \in Entries, IsStaked(i)
  PROVE  CommissionDue(i) \in Nat
<1> DEFINE r == Subtract(Delegation(i), entry[i].last_commission_charge)
           k == entry[i].commission
<1>1. r \in Nat /\ k \in Nat
  BY StakedEntryFacts, SubtractNat
<1>2. CommissionDue(i) = Multiply(r, k) \div FullCommission
  BY DEF CommissionDue
<1> HIDE DEF r, k
<1>3. Multiply(r, k) \in Nat /\ FullCommission \in Nat \ {0}
  BY <1>1, MultiplyFits, StakingAssumption
<1> QED BY <1>2, <1>3, Division

(***************************************************************************)
(* The commission that is due is a part of what was earned since the last  *)
(* charge, also if the product of charge_commission wraps around.          *)
(***************************************************************************)
LEMMA CommissionIsPart ==
  ASSUME StakingInv, NEW i \in Entries, IsLent(i)
  PROVE  /\ CommissionDue(i) \in Nat
         /\ CommissionDue(i) <= Delegation(i) - entry[i].last_commission_charge
<1> DEFINE r == Subtract(Delegation(i), entry[i].last_commission_charge)
           k == entry[i].commission
<1>1. r = Delegation(i) - entry[i].last_commission_charge /\ r \in Nat
  BY StakedAccount DEF Subtract
<1>2. k \in Nat /\ k <= FullCommission /\ FullCommission \in Nat \ {0}
  BY StakedAccount, StakedEntryFacts, StakingAssumption
<1>3. CommissionDue(i) = Multiply(r, k) \div FullCommission
  BY DEF CommissionDue
<1>4. CommissionDue(i) \in Nat
  BY StakedAccount, CommissionNat
<1> HIDE DEF r, k
<1>5. Multiply(r, k) \in Nat /\ Multiply(r, k) <= r * k
  BY <1>1, <1>2, MultiplyFits, MaxU64Assumption
<1>6. r * k <= r * FullCommission
  BY <1>1, <1>2, ProductMonotone
<1>7. r * FullCommission = FullCommission * r /\ r * k \in Nat /\ r * FullCommission \in Nat
  BY <1>1, <1>2, ProductNat, SMT
<1>8. Multiply(r, k) <= FullCommission * r
  BY <1>5, <1>6, <1>7
<1>9. Multiply(r, k) \div FullCommission <= r
  BY <1>1, <1>2, <1>5, <1>8, QuotientBounded
<1> QED BY <1>1, <1>3, <1>4, <1>9

\* Lamports move between two accounts.
LEMMA MoveEffect ==
  ASSUME NEW s \in [Accounts -> StakeAccount], NEW from \in Accounts, NEW to \in Accounts,
         from # to, NEW lamports \in Nat, CanMove(s, from, to, lamports)
  PROVE  /\ Moved(s, from, to, lamports) \in [Accounts -> StakeAccount]
         /\ Moved(s, from, to, lamports)[from] = Without(s[from], lamports)
         /\ Moved(s, from, to, lamports)[to] = With(s[to], lamports)
         /\ \A a \in Accounts \ {from, to} : Moved(s, from, to, lamports)[a] = s[a]
<1>1. s[from].delegation - lamports \in Nat
  BY StakeProgramAssumption DEF CanMove, CanSplit, StakeAccount
<1>2. s[to].delegation + lamports \in Nat
  BY DEF StakeAccount
<1>3. Without(s[from], lamports) \in StakeAccount /\ With(s[to], lamports) \in StakeAccount
  BY <1>1, <1>2 DEF StakeAccount, Without, With
<1> QED BY <1>3 DEF Moved

\* A loan cancels out.
LEMMA LoanCancels ==
  ASSUME NEW s \in StakeAccount, NEW m \in Nat, NEW c \in Nat
  PROVE  /\ Without(With(s, m), c + m) = Without(s, c)
         /\ With(Without(s, m), c + m) = With(s, c)
<1>1. /\ With(s, m).delegation = s.delegation + m
      /\ Without(s, m).delegation = s.delegation - m
  BY DEF StakeAccount, With, Without
<1>2. \A x : /\ [With(s, m) EXCEPT !.delegation = x] = [s EXCEPT !.delegation = x]
             /\ [Without(s, m) EXCEPT !.delegation = x] = [s EXCEPT !.delegation = x]
  BY DEF StakeAccount, With, Without
<1>3. /\ (s.delegation + m) - (c + m) = s.delegation - c
      /\ (s.delegation - m) + (c + m) = s.delegation + c
  BY DEF StakeAccount
<1>4. /\ Without(With(s, m), c + m) = [With(s, m) EXCEPT !.delegation = s.delegation - c]
      /\ With(Without(s, m), c + m) = [Without(s, m) EXCEPT !.delegation = s.delegation + c]
  BY <1>1, <1>3 DEF With, Without
<1> QED BY <1>2, <1>4 DEF With, Without

(***************************************************************************)
(* A charge moves the commission from the stake account to the master, and *)
(* nothing else: the loan of the minimum delegation cancels out.           *)
(***************************************************************************)
LEMMA ChargeEffect ==
  ASSUME StakingInv, NEW i \in Entries, IsStaked(i), CanCharge(i)
  PROVE  /\ Charged(i) \in [Accounts -> StakeAccount]
         /\ Charged(i)[entry[i].stake_account] =
              Without(stake[entry[i].stake_account], CommissionDue(i))
         /\ Charged(i)[Master] = With(stake[Master], CommissionDue(i))
         /\ \A a \in Accounts \ {entry[i].stake_account, Master} : Charged(i)[a] = stake[a]
<1> DEFINE a == entry[i].stake_account
           c == CommissionDue(i)
<1>1. /\ a \in Accounts /\ a # Master /\ Master \in Accounts
      /\ stake \in [Accounts -> StakeAccount]
      /\ Delegation(i) = stake[a].delegation
  BY StakedEntryFacts DEF StakingInv, TypeOK, Delegation, Accounts
<1>2. c \in Nat
  BY CommissionNat
<1>3. /\ stake[a] \in StakeAccount /\ stake[Master] \in StakeAccount
      /\ stake[a].delegation \in Nat /\ stake[Master].delegation \in Nat
  BY <1>1 DEF StakeAccount
<1>4. CASE c = 0
  <2>1. Charged(i) = stake
    BY <1>4, StakeProgramAssumption DEF Charged
  <2>2. Without(stake[a], 0) = stake[a] /\ With(stake[Master], 0) = stake[Master]
    BY <1>3 DEF StakeAccount, Without, With
  <2> QED BY <1>1, <1>4, <2>1, <2>2
<1>5. CASE c # 0 /\ c >= MinimumDelegation
  <2>1. CanMove(stake, a, Master, c)
    BY <1>2, <1>5, StakeProgramAssumption DEF CanCharge
  <2>2. Charged(i) = Moved(stake, a, Master, c)
    BY <1>5 DEF Charged
  <2> HIDE DEF a, c
  <2>3. /\ Charged(i) \in [Accounts -> StakeAccount]
        /\ Charged(i)[a] = Without(stake[a], c)
        /\ Charged(i)[Master] = With(stake[Master], c)
        /\ \A b \in Accounts \ {a, Master} : Charged(i)[b] = stake[b]
    BY <1>1, <1>2, <2>1, <2>2, MoveEffect
  <2> QED BY <1>1, <2>3 DEF a, c
<1>6. CASE c # 0 /\ c < MinimumDelegation
  <2> DEFINE m == MinimumDelegation
             l == Lent(i)
             n == c + m
  <2>1. /\ CanMove(stake, Master, a, m) /\ CanMove(l, a, Master, n)
        /\ m \in Nat /\ n \in Nat
    BY <1>2, <1>6, StakeProgramAssumption DEF CanCharge
  <2>2. Charged(i) = Moved(l, a, Master, n)
    BY <1>2, <1>6, StakeProgramAssumption DEF Charged
  <2>3. l = Moved(stake, Master, a, m)
    BY DEF Lent
  <2> HIDE DEF a, c, l, m, n
  <2>4. /\ l \in [Accounts -> StakeAccount]
        /\ l[Master] = Without(stake[Master], m)
        /\ l[a] = With(stake[a], m)
        /\ \A b \in Accounts \ {a, Master} : l[b] = stake[b]
    BY <1>1, <2>1, <2>3, MoveEffect
  <2>5. /\ Charged(i) \in [Accounts -> StakeAccount]
        /\ Charged(i)[a] = Without(l[a], n)
        /\ Charged(i)[Master] = With(l[Master], n)
        /\ \A b \in Accounts \ {a, Master} : Charged(i)[b] = l[b]
    BY <1>1, <2>1, <2>2, <2>4, MoveEffect
  <2>6. /\ Without(With(stake[a], m), n) = Without(stake[a], c)
        /\ With(Without(stake[Master], m), n) = With(stake[Master], c)
    BY <1>2, <1>3, <2>1, LoanCancels DEF n
  <2> QED BY <1>1, <2>4, <2>5, <2>6 DEF a, c
<1> QED BY <1>2, <1>4, <1>5, <1>6, StakeProgramAssumption

-----------------------------------------------------------------------------
(***************************************************************************)
(* What the instructions of the stake program do to an account.            *)
(***************************************************************************)

LEMMA ReauthorizedEffect ==
  ASSUME NEW s \in StakeAccount, NEW to \in Holders
  PROVE  /\ Reauthorized(s, to) \in StakeAccount
         /\ Reauthorized(s, to).withdrawer = to
         /\ Reauthorized(s, to).state = s.state
         /\ Reauthorized(s, to).voter = s.voter
         /\ Reauthorized(s, to).delegation = s.delegation
  BY DEF Reauthorized, StakeAccount

LEMMA DelegatedEffect ==
  ASSUME NEW s \in StakeAccount, NEW voter \in Voters
  PROVE  /\ Delegated(s, voter) \in StakeAccount
         /\ Delegated(s, voter).withdrawer = s.withdrawer
         /\ Delegated(s, voter).state = "Stake"
         /\ Delegated(s, voter).delegation = s.delegation
  BY DEF Delegated, StakeAccount

LEMMA DeactivatedEffect ==
  ASSUME NEW s \in StakeAccount
  PROVE  /\ Deactivated(s) \in StakeAccount
         /\ Deactivated(s).withdrawer = s.withdrawer
         /\ Deactivated(s).state = s.state
         /\ Deactivated(s).delegation = s.delegation
  BY DEF Deactivated, StakeAccount

LEMMA AfterEpochEffect ==
  ASSUME NEW s \in StakeAccount, NEW reward \in Nat
  PROVE  /\ AfterEpoch(s, reward) \in StakeAccount
         /\ AfterEpoch(s, reward).withdrawer = s.withdrawer
         /\ AfterEpoch(s, reward).state = s.state
         /\ AfterEpoch(s, reward).delegation >= s.delegation
<1> DEFINE d == IF s.state = "Stake" /\ s.activity \in {"Active", "Deactivating"}
                THEN s.delegation + reward ELSE s.delegation
           t == CASE s.activity = "Activating"   -> "Active"
                  [] s.activity = "Deactivating" -> "Inactive"
                  [] OTHER                       -> s.activity
<1>1. d \in Nat /\ d >= s.delegation
  BY DEF StakeAccount
<1>2. t \in {"Inactive", "Activating", "Active", "Deactivating"}
  BY DEF StakeAccount
<1>3. AfterEpoch(s, reward) = [s EXCEPT !.delegation = d, !.activity = t]
  BY DEF AfterEpoch
<1> HIDE DEF d, t
<1> QED BY <1>1, <1>2, <1>3 DEF StakeAccount

LEMMA WithEffect ==
  ASSUME NEW s \in StakeAccount, NEW n \in Nat
  PROVE  /\ With(s, n) \in StakeAccount
         /\ With(s, n).withdrawer = s.withdrawer
         /\ With(s, n).state = s.state
         /\ With(s, n).delegation = s.delegation + n
  BY DEF With, StakeAccount

LEMMA WithoutEffect ==
  ASSUME NEW s \in StakeAccount, NEW n \in Nat, n <= s.delegation
  PROVE  /\ Without(s, n) \in StakeAccount
         /\ Without(s, n).withdrawer = s.withdrawer
         /\ Without(s, n).state = s.state
         /\ Without(s, n).delegation = s.delegation - n
  BY DEF Without, StakeAccount

LEMMA SplitOffEffect ==
  ASSUME NEW s \in StakeAccount, NEW n \in Nat
  PROVE  /\ SplitOff(s, n) \in StakeAccount
         /\ SplitOff(s, n).state = s.state
         /\ SplitOff(s, n).delegation = n
  BY DEF SplitOff, StakeAccount

\* A stake account that user_stake takes: delegated to somebody, and the program's.
LEMMA AsStakedEffect ==
  ASSUME NEW s \in StakeAccount, Stakeable(s)
  PROVE  /\ AsStaked(s) \in StakeAccount
         /\ AsStaked(s).withdrawer = Authority
         /\ AsStaked(s).state = "Stake"
         /\ AsStaked(s).delegation = s.delegation
<1> DEFINE r == Reauthorized(s, Authority)
<1>1. Authority \in Holders /\ Shinobi \in Voters
  BY StakingAssumption
<1>2. /\ r \in StakeAccount /\ r.withdrawer = Authority
      /\ r.state = s.state /\ r.delegation = s.delegation
  BY <1>1, ReauthorizedEffect
<1> HIDE DEF r
<1>3. CASE s.state = "Initialized"
  <2>1. AsStaked(s) = Delegated(r, Shinobi)
    BY <1>3 DEF AsStaked, r
  <2> QED BY <1>1, <1>2, <2>1, DelegatedEffect
<1>4. CASE s.state = "Stake" /\ s.voter = Shinobi
  <2>1. AsStaked(s) = r
    BY <1>4 DEF AsStaked, r
  <2> QED BY <1>2, <1>4, <2>1
<1>5. CASE s.state = "Stake" /\ s.voter # Shinobi
  <2>1. AsStaked(s) = Deactivated(r)
    BY <1>5 DEF AsStaked, r
  <2> QED BY <1>2, <1>5, <2>1, DeactivatedEffect
<1>6. s.state \in {"Initialized", "Stake"}
  BY DEF Stakeable
<1> QED BY <1>3, <1>4, <1>5, <1>6

-----------------------------------------------------------------------------
(***************************************************************************)
(* The invariant is kept: what several actions have in common.             *)
(***************************************************************************)

\* An account that is not the program's, or has no stake, is not lent.
LEMMA NotLent ==
  ASSUME StakingInv, NEW a \in Accounts,
         stake[a].withdrawer # Authority \/ stake[a].state # "Stake"
  PROVE  \A j \in Entries : entry[j].stake_account = a => a \in taken
<1> SUFFICES ASSUME NEW j \in Entries, entry[j].stake_account = a, a \notin taken PROVE FALSE
  OBVIOUS
<1>1. IsLent(j)
  BY StakingAssumption DEF IsLent, IsStaked
<1> QED BY <1>1, StakedAccount

\* The account of an entry in the next state, if others change.
StillLent(j) ==
  /\ stake'[entry[j].stake_account].state = "Stake"
  /\ stake'[entry[j].stake_account].withdrawer = Authority
  /\ stake'[entry[j].stake_account].delegation >= stake[entry[j].stake_account].delegation

\* Entries stay as they are, and so does what is still lent to them, or it grows.
LEMMA EntriesUnchanged ==
  ASSUME StakingInv, UNCHANGED entry, taken \subseteq taken', stake' \in [Accounts -> StakeAccount],
         \A j \in Entries :
           IsLent(j) /\ entry[j].stake_account \notin taken' => StillLent(j)
  PROVE  StakedInCustody' /\ PrincipalKept'
<1>1. ASSUME NEW j \in Entries, IsLent(j)'
      PROVE  IsLent(j) /\ StillLent(j)
  BY <1>1 DEF IsLent, IsStaked
<1>2. StakedInCustody'
  BY <1>1 DEF StakingInv, StakedInCustody, StillLent, IsStaked
<1>3. PrincipalKept'
  <2> SUFFICES ASSUME NEW j \in Entries, IsLent(j)'
               PROVE  /\ entry[j].stake_initial_lamports <= entry[j].last_commission_charge
                      /\ entry[j].last_commission_charge <= Delegation(j)'
    BY DEF PrincipalKept
  <2>1. /\ entry[j].stake_initial_lamports <= entry[j].last_commission_charge
        /\ entry[j].last_commission_charge <= Delegation(j)
        /\ entry[j].last_commission_charge \in Nat /\ Delegation(j) \in Nat
        /\ entry[j].stake_account \in Accounts
    BY <1>1, StakedAccount
  <2>2. Delegation(j)' \in Nat /\ Delegation(j)' >= Delegation(j)
    BY <1>1, <2>1 DEF Delegation, StillLent, StakeAccount
  <2> QED BY <2>1, <2>2
<1> QED BY <1>2, <1>3

\* Nothing of it changes.
LEMMA CustodyUnchanged ==
  ASSUME StakingInv, UNCHANGED <<entry, stake, taken>>
  PROVE  StakedInCustody' /\ PrincipalKept'
<1>1. \A j \in Entries : IsLent(j) => StillLent(j)
  BY StakedAccount DEF StillLent, Delegation
<1>2. taken \subseteq taken' /\ stake' \in [Accounts -> StakeAccount]
  BY DEF StakingInv, TypeOK
<1> QED BY <1>1, <1>2, EntriesUnchanged

\* One entry changes, and no account is lent to two.
LEMMA EntryChanged ==
  ASSUME StakingInv, NEW i \in Entries, UNCHANGED taken,
         \A j \in Entries \ {i} : entry'[j] = entry[j],
         stake' \in [Accounts -> StakeAccount],
         \A j \in Entries \ {i} : IsLent(j) => StillLent(j),
         entry'[i].stake_account # Zeroes => entry'[i].stake_account \in StakeAccounts,
         entry'[i].stake_account \notin taken \cup {Zeroes} =>
           /\ stake'[entry'[i].stake_account].state = "Stake"
           /\ stake'[entry'[i].stake_account].withdrawer = Authority
           /\ \A j \in Entries \ {i} : entry[j].stake_account # entry'[i].stake_account
           /\ entry'[i].stake_initial_lamports <= entry'[i].last_commission_charge
           /\ entry'[i].last_commission_charge <= stake'[entry'[i].stake_account].delegation
  PROVE  StakedInCustody' /\ PrincipalKept'
<1>0. \A j \in Entries : IsLent(j)' <=> entry'[j].stake_account \notin taken \cup {Zeroes}
  BY DEF IsLent, IsStaked
<1>1. ASSUME NEW j \in Entries, j # i, IsLent(j)'
      PROVE  /\ stake'[entry'[j].stake_account].state = "Stake"
             /\ stake'[entry'[j].stake_account].withdrawer = Authority
             /\ \A k \in Entries : entry'[k].stake_account = entry'[j].stake_account => k = j
             /\ entry'[j].stake_initial_lamports <= entry'[j].last_commission_charge
             /\ entry'[j].last_commission_charge <= Delegation(j)'
  <2>1. entry'[j] = entry[j] /\ IsLent(j) /\ StillLent(j)
    BY <1>1 DEF IsLent, IsStaked
  <2>2. \A k \in Entries : entry[k].stake_account = entry[j].stake_account => k = j
    BY <2>1 DEF StakingInv, StakedInCustody
  <2>3. \A k \in Entries : entry'[k].stake_account = entry'[j].stake_account => k = j
    <3> SUFFICES ASSUME NEW k \in Entries, entry'[k].stake_account = entry[j].stake_account
                 PROVE  k = j
      BY <2>1
    <3>1. CASE k = i
      <4>1. entry'[i].stake_account \notin taken \cup {Zeroes}
        BY <1>0, <1>1, <2>1, <3>1
      <4> QED BY <1>1, <3>1, <4>1
    <3>2. CASE k # i
      BY <3>2, <2>2
    <3> QED BY <3>1, <3>2
  <2>4. /\ entry[j].stake_initial_lamports <= entry[j].last_commission_charge
        /\ entry[j].last_commission_charge <= Delegation(j)
        /\ entry[j].last_commission_charge \in Nat /\ Delegation(j) \in Nat
        /\ entry[j].stake_account \in Accounts
    BY <2>1, StakedAccount
  <2>5. Delegation(j)' \in Nat /\ Delegation(j)' >= Delegation(j)
    BY <2>1, <2>4 DEF Delegation, StillLent, StakeAccount
  <2> QED BY <2>1, <2>2, <2>3, <2>4, <2>5 DEF StillLent
<1>2. StakedInCustody'
  <2>1. ASSUME NEW j \in Entries, IsStaked(j)' PROVE entry'[j].stake_account \in StakeAccounts
    <3>1. CASE j = i
      BY <2>1, <3>1 DEF IsStaked
    <3>2. CASE j # i
      <4>1. entry'[j] = entry[j] /\ IsStaked(j)
        BY <2>1, <3>2 DEF IsStaked
      <4> QED BY <4>1, StakedEntryFacts
    <3> QED BY <3>1, <3>2
  <2>2. ASSUME NEW j \in Entries, IsLent(j)'
        PROVE  /\ stake'[entry'[j].stake_account].state = "Stake"
               /\ stake'[entry'[j].stake_account].withdrawer = Authority
               /\ \A k \in Entries :
                    entry'[k].stake_account = entry'[j].stake_account => k = j
    <3>1. CASE j # i
      BY <2>2, <3>1, <1>1
    <3>2. CASE j = i
      BY <2>2, <3>2, <1>0
    <3> QED BY <3>1, <3>2
  <2> QED BY <2>1, <2>2 DEF StakedInCustody
<1>3. PrincipalKept'
  <2> SUFFICES ASSUME NEW j \in Entries, IsLent(j)'
               PROVE  /\ entry'[j].stake_initial_lamports <= entry'[j].last_commission_charge
                      /\ entry'[j].last_commission_charge <= Delegation(j)'
    BY DEF PrincipalKept
  <2>1. CASE j # i
    BY <2>1, <1>1
  <2>2. CASE j = i
    BY <2>2, <1>0 DEF Delegation
  <2> QED BY <2>1, <2>2
<1> QED BY <1>2, <1>3

-----------------------------------------------------------------------------
(***************************************************************************)
(* The invariant is kept by each action.                                   *)
(***************************************************************************)

LEMMA MasterFacts ==
  ASSUME StakingInv
  PROVE  /\ Master \in Accounts /\ stake[Master] \in StakeAccount
         /\ stake[Master].state = "Stake" /\ stake[Master].withdrawer = Authority
         /\ stake[Master].delegation \in Nat /\ stake[Master].delegation >= MasterMinimum
         /\ MasterMinimum \in Nat /\ Authority \in Holders
  BY StakingAssumption
     DEF StakingInv, TypeOK, MasterHeld, MasterKeepsMinimum, Accounts, StakeAccount

LEMMA InitHolds == Init => StakingInv
<1> SUFFICES ASSUME Init PROVE StakingInv
  OBVIOUS
<1> USE StakingAssumption, StakeProgramAssumption, KiAssumption
<1>1. PICK s \in Beginnings :
        /\ admin = s.admin /\ token = s.token
        /\ stake = [a \in Accounts |->
                      IF a # Master THEN s.stake[a]
                      ELSE [state |-> "Stake", withdrawer |-> Authority, voter |-> Shinobi,
                            delegation |-> MasterMinimum, activity |-> "Activating"]]
  BY DEF Init
<1>2. /\ s \in [admin : Signers, token : [Entries -> Signers],
                stake : [StakeAccounts -> StakeAccount]]
      /\ \A a \in StakeAccounts :
           \/ s.stake[a] = NoStakeAccount
           \/ s.stake[a].state # "Uninitialized" /\ s.stake[a].withdrawer \in Holders
  OBVIOUS
<1>3. s.admin \in Signers /\ s.token \in [Entries -> Signers]
      /\ \A a \in StakeAccounts : s.stake[a] \in StakeAccount
  BY <1>2
<1>4. [state |-> "Stake", withdrawer |-> Authority, voter |-> Shinobi,
       delegation |-> MasterMinimum, activity |-> "Activating"] \in StakeAccount
  BY DEF StakeAccount
<1>5. stake \in [Accounts -> StakeAccount]
  BY <1>1, <1>3, <1>4 DEF Accounts
<1>6. entry \in [Entries -> StakedEntry]
  <2>1. [commission |-> 0, level |-> 0, stake_account |-> Zeroes, stake_initial_lamports |-> 0,
         last_ki_harvest |-> 0, last_commission_charge |-> 0] \in StakedEntry
    BY DEF StakedEntry
  <2> QED BY <2>1 DEF Init
<1>7. TypeOK
  BY <1>1, <1>3, <1>5, <1>6 DEF Init, TypeOK
<1>8. \A i \in Entries : ~IsStaked(i)
  BY DEF Init, IsStaked
<1>9. stake[Master] = [state |-> "Stake", withdrawer |-> Authority, voter |-> Shinobi,
                       delegation |-> MasterMinimum, activity |-> "Activating"]
  BY <1>1 DEF Accounts
<1>10. MasterHeld /\ MasterKeepsMinimum
  BY <1>9 DEF MasterHeld, MasterKeepsMinimum
<1>11. UnusedUnowned
  <2> SUFFICES ASSUME NEW a \in StakeAccounts, stake[a].state = "Uninitialized"
               PROVE  stake[a].withdrawer = NoOne
    BY DEF UnusedUnowned
  <2>1. stake[a] = s.stake[a]
    BY <1>1 DEF Accounts
  <2> QED BY <1>2, <2>1 DEF NoStakeAccount
<1>12. StakedInCustody /\ PrincipalKept
  BY <1>8 DEF StakedInCustody, PrincipalKept, IsLent
<1> QED BY <1>7, <1>10, <1>11, <1>12 DEF StakingInv

\* A harvest leaves everybody with a number of Ki tokens.
LEMMA KiStays ==
  ASSUME StakingInv, NEW i \in Entries, IsStaked(i), NEW destination \in Signers
  PROVE  KiAfterHarvest(i, destination) \in [Signers -> Nat]
<1>1. ki \in [Signers -> Nat]
  BY DEF StakingInv, TypeOK
<1>2. CASE IsHarvestable(i)
  <2>1. KiFactorOf(i) \in Nat
    BY StakedEntryFacts, KiAssumption DEF KiFactorOf, StakedEntry
  <2>2. KiRewards(i) \in Int
    BY StakedEntryFacts, SubtractNat DEF KiRewards
  <2>3. Harvested(KiRewards(i), KiFactorOf(i)) \in Nat
    BY <1>2, <2>1, <2>2, HarvestNat DEF IsHarvestable
  <2>4. ki[destination] + Harvested(KiRewards(i), KiFactorOf(i)) \in Nat
    BY <1>1, <2>3
  <2> QED BY <1>1, <1>2, <2>4 DEF KiAfterHarvest
<1>3. CASE ~IsHarvestable(i)
  BY <1>1, <1>3 DEF KiAfterHarvest
<1> QED BY <1>2, <1>3

LEMMA UserStakeKeeps ==
  ASSUME StakingInv, NEW i \in Entries, NEW a \in StakeAccounts, NEW owner \in Acting,
         NEW signer \in Acting, UserStake(i, a, owner, signer)
  PROVE  StakingInv'
<1> DEFINE n == stake[a].delegation
<1>1. a \in Accounts /\ a # Master /\ a # Zeroes /\ stake[a] \in StakeAccount /\ n \in Nat
  BY StakingAssumption DEF StakingInv, TypeOK, Accounts, StakeAccount
<1>2. stake[a].withdrawer # Authority
  BY StakingAssumption DEF UserStake, WithdrawnBy
<1>3. \A j \in Entries : entry[j].stake_account = a => a \in taken
  BY <1>1, <1>2, NotLent
<1>4. /\ AsStaked(stake[a]) \in StakeAccount
      /\ AsStaked(stake[a]).withdrawer = Authority
      /\ AsStaked(stake[a]).state = "Stake"
      /\ AsStaked(stake[a]).delegation = n
  BY <1>1, AsStakedEffect DEF UserStake
<1>5. /\ stake' \in [Accounts -> StakeAccount]
      /\ stake'[a] = AsStaked(stake[a])
      /\ \A b \in Accounts : b # a => stake'[b] = stake[b]
  BY <1>1, <1>4 DEF UserStake, StakingInv, TypeOK
<1>6. entry[i] \in StakedEntry /\ commission \in 0..FullCommission
  BY DEF StakingInv, TypeOK
<1>7. /\ entry' = [entry EXCEPT ![i] =
                     [entry[i] EXCEPT !.stake_account = a, !.stake_initial_lamports = n,
                                      !.last_ki_harvest = n, !.last_commission_charge = n,
                                      !.commission = commission]]
  BY <1>4 DEF UserStake
<1> HIDE DEF n
<1>8. /\ [entry[i] EXCEPT !.stake_account = a, !.stake_initial_lamports = n,
                          !.last_ki_harvest = n, !.last_commission_charge = n,
                          !.commission = commission] \in StakedEntry
  BY <1>1, <1>6 DEF StakedEntry
<1>9. /\ entry' \in [Entries -> StakedEntry]
      /\ \A j \in Entries \ {i} : entry'[j] = entry[j]
  BY <1>7, <1>8 DEF StakingInv, TypeOK
<1>10. /\ entry'[i].stake_account = a
       /\ entry'[i].stake_initial_lamports = n
       /\ entry'[i].last_commission_charge = n
  BY <1>6, <1>7 DEF StakingInv, TypeOK, StakedEntry
<1>11. TypeOK'
  BY <1>5, <1>9 DEF UserStake, StakingInv, TypeOK, blockVars
<1>12. \A j \in Entries \ {i} : IsLent(j) => StillLent(j)
  <2> SUFFICES ASSUME NEW j \in Entries \ {i}, IsLent(j) PROVE StillLent(j)
    OBVIOUS
  <2>1. entry[j].stake_account \in Accounts /\ entry[j].stake_account # a
    BY <1>3, StakedAccount
  <2>2. stake'[entry[j].stake_account] = stake[entry[j].stake_account]
    BY <1>5, <2>1
  <2> QED BY <2>2, StakedAccount DEF StillLent, Delegation
<1>13. StakedInCustody' /\ PrincipalKept'
  <2>1. UNCHANGED taken
    BY DEF UserStake
  <2> QED BY <1>1, <1>3, <1>4, <1>5, <1>9, <1>10, <1>12, <2>1, EntryChanged DEF n
<1>14. MasterKeepsMinimum' /\ MasterHeld'
  BY <1>1, <1>5, MasterFacts DEF MasterKeepsMinimum, MasterHeld
<1>15. UnusedUnowned'
  <2> SUFFICES ASSUME NEW b \in StakeAccounts, stake'[b].state = "Uninitialized"
               PROVE  stake'[b].withdrawer = NoOne
    BY DEF UnusedUnowned
  <2>1. b \in Accounts /\ b # a
    BY <1>4, <1>5 DEF Accounts
  <2> QED BY <1>5, <2>1 DEF StakingInv, UnusedUnowned
<1> QED BY <1>11, <1>13, <1>14, <1>15 DEF StakingInv

\* The stake program leaves the minimum in an account that is charged.
LEMMA ChargeLeaves ==
  ASSUME StakingInv, NEW i \in Entries, IsStaked(i), CanCharge(i), CommissionDue(i) # 0
  PROVE  Delegation(i) - CommissionDue(i) >= MinimumDelegation
<1> DEFINE a == entry[i].stake_account
           c == CommissionDue(i)
           d == Delegation(i)
           m == MinimumDelegation
<1>1. /\ a \in Accounts \ {Master} /\ Master \in Accounts
      /\ stake \in [Accounts -> StakeAccount] /\ stake[a] \in StakeAccount
      /\ c \in Nat /\ d \in Nat /\ m \in Nat /\ d = stake[a].delegation
  BY StakedEntryFacts, CommissionNat, StakeProgramAssumption
     DEF StakingInv, TypeOK, Accounts, Delegation
<1>2. CASE CanMove(stake, a, Master, c)
  BY <1>1, <1>2 DEF CanMove, CanSplit
<1>3. CASE CanMove(stake, Master, a, m) /\ CanMove(Lent(i), a, Master, c + m)
  <2> DEFINE l == Lent(i)
  <2>1. l = Moved(stake, Master, a, m)
    BY DEF Lent
  <2> HIDE DEF a, c, d, m, l
  <2>2. l[a] = With(stake[a], m)
    BY <1>1, <1>3, <2>1, MoveEffect
  <2>3. l[a].delegation = d + m
    BY <1>1, <2>2, WithEffect
  <2>4. l[a].delegation - (c + m) >= m
    BY <1>3 DEF CanMove, CanSplit, l, m
  <2>5. d - c >= m
    BY <1>1, <2>3, <2>4
  <2> QED BY <2>5 DEF c, d, m
<1> QED BY <1>2, <1>3 DEF CanCharge

\* The stake account, the master and the entry after a charge, if the account is
\* lent or not.
LEMMA AfterCharge ==
  ASSUME StakingInv, NEW i \in Entries, IsStaked(i), CanCharge(i)
  PROVE  /\ Charged(i)[entry[i].stake_account] \in StakeAccount
         /\ Charged(i)[entry[i].stake_account].state = stake[entry[i].stake_account].state
         /\ Charged(i)[entry[i].stake_account].withdrawer = stake[entry[i].stake_account].withdrawer
         /\ Charged(i)[entry[i].stake_account].delegation = Delegation(i) - CommissionDue(i)
         /\ Charged(i)[Master].state = "Stake"
         /\ Charged(i)[Master].withdrawer = Authority
         /\ Charged(i)[Master].delegation = stake[Master].delegation + CommissionDue(i)
         /\ EntryCharged(i) \in StakedEntry
         /\ EntryCharged(i).stake_account = entry[i].stake_account
         /\ EntryCharged(i).stake_initial_lamports = entry[i].stake_initial_lamports
         /\ EntryCharged(i).last_commission_charge = Delegation(i) - CommissionDue(i)
         /\ EntryCharged(i).commission = commission
         /\ CommissionDue(i) \in Nat
         /\ Delegation(i) - CommissionDue(i) \in Nat
<1> DEFINE d == Delegation(i) - CommissionDue(i)
<1>1. CommissionDue(i) \in Nat /\ CommissionDue(i) <= Delegation(i) /\ d \in Nat
  <2>1. CommissionDue(i) \in Nat /\ Delegation(i) \in Nat /\ MinimumDelegation \in Nat
    BY CommissionNat, StakedEntryFacts, StakeProgramAssumption
  <2>2. CommissionDue(i) # 0 => Delegation(i) - CommissionDue(i) >= MinimumDelegation
    BY ChargeLeaves
  <2> QED BY <2>1, <2>2
<1>2. /\ Charged(i)[entry[i].stake_account] \in StakeAccount
      /\ Charged(i)[entry[i].stake_account].state = stake[entry[i].stake_account].state
      /\ Charged(i)[entry[i].stake_account].withdrawer = stake[entry[i].stake_account].withdrawer
      /\ Charged(i)[entry[i].stake_account].delegation = d
  BY <1>1, ChargeEffect, StakedEntryFacts, WithoutEffect DEF Delegation
<1>3. /\ Charged(i)[Master].state = "Stake"
      /\ Charged(i)[Master].withdrawer = Authority
      /\ Charged(i)[Master].delegation = stake[Master].delegation + CommissionDue(i)
  <2>1. Charged(i)[Master] = With(stake[Master], CommissionDue(i))
    BY ChargeEffect
  <2>2. stake[Master] \in StakeAccount
    BY MasterFacts
  <2>3. /\ With(stake[Master], CommissionDue(i)).state = stake[Master].state
        /\ With(stake[Master], CommissionDue(i)).withdrawer = stake[Master].withdrawer
        /\ With(stake[Master], CommissionDue(i)).delegation =
             stake[Master].delegation + CommissionDue(i)
    BY <1>1, <2>2, WithEffect
  <2> QED BY <2>1, <2>3, MasterFacts
<1>4. EntryCharged(i) = [entry[i] EXCEPT !.last_commission_charge = d, !.commission = commission]
  BY <1>1, StakedEntryFacts DEF EntryCharged, Subtract
<1> HIDE DEF d
<1>5. /\ EntryCharged(i) \in StakedEntry
      /\ EntryCharged(i).stake_account = entry[i].stake_account
      /\ EntryCharged(i).stake_initial_lamports = entry[i].stake_initial_lamports
      /\ EntryCharged(i).last_commission_charge = d
      /\ EntryCharged(i).commission = commission
  BY <1>1, <1>4, StakedEntryFacts DEF StakedEntry, StakingInv, TypeOK
<1> QED BY <1>1, <1>2, <1>3, <1>5 DEF d

\* Nothing that was charged for before is charged again.
LEMMA ChargeKeepsSettled ==
  ASSUME StakingInv, NEW i \in Entries, IsLent(i)
  PROVE  entry[i].last_commission_charge <= Delegation(i) - CommissionDue(i)
  BY CommissionIsPart, StakedAccount

\* A charge does not touch an account that is lent to another entry.
LEMMA OthersStillLent ==
  ASSUME StakingInv, NEW i \in Entries,
         \A b \in Accounts \ {entry[i].stake_account, Master} : stake'[b] = stake[b]
  PROVE  \A j \in Entries \ {i} : IsLent(j) => StillLent(j)
<1> SUFFICES ASSUME NEW j \in Entries \ {i}, IsLent(j) PROVE StillLent(j)
  OBVIOUS
<1>1. entry[j].stake_account # entry[i].stake_account
  BY DEF StakingInv, StakedInCustody
<1>2. stake'[entry[j].stake_account] = stake[entry[j].stake_account]
  BY <1>1, StakedAccount
<1> QED BY <1>2, StakedAccount DEF StillLent, Delegation

\* Only accounts that are in use change.
LEMMA UnusedStay ==
  ASSUME StakingInv, NEW A \in SUBSET Accounts,
         \A b \in Accounts \ A : stake'[b] = stake[b],
         \A b \in A : stake'[b].state # "Uninitialized"
  PROVE  UnusedUnowned'
<1> SUFFICES ASSUME NEW b \in StakeAccounts, stake'[b].state = "Uninitialized"
             PROVE  stake'[b].withdrawer = NoOne
  BY DEF UnusedUnowned
<1>1. b \in Accounts \ A
  BY DEF Accounts
<1> QED BY <1>1 DEF StakingInv, UnusedUnowned

LEMMA TakeCommissionKeeps ==
  ASSUME StakingInv, NEW i \in Entries, TakeCommissionOrDelegate(i)
  PROVE  StakingInv'
<1> DEFINE a == entry[i].stake_account
<1>1. IsStaked(i) /\ a \in StakeAccounts /\ a \in Accounts \ {Master} /\ stake[a] \in StakeAccount
  BY StakedEntryFacts DEF TakeCommissionOrDelegate
<1>2. UNCHANGED <<epoch, blockVars, taken, token, metadata_authority, ki>>
  BY DEF TakeCommissionOrDelegate
<1>3. a \notin taken => IsLent(i)
  BY <1>1 DEF IsLent
<1>4. CASE stake[a].state = "Initialized"
  <2> DEFINE d == stake[a].delegation
             r == Delegated(stake[a], Shinobi)
             e == [entry[i] EXCEPT !.last_ki_harvest = d, !.last_commission_charge = d]
  <2>1. /\ stake' = [stake EXCEPT ![a] = r] /\ entry' = [entry EXCEPT ![i] = e]
    BY <1>4 DEF TakeCommissionOrDelegate
  <2>2. a \in taken
    BY <1>3, <1>4, StakedAccount
  <2>3. r \in StakeAccount /\ r.state = "Stake"
    BY <1>1, StakingAssumption, DelegatedEffect
  <2>4. d \in Nat
    BY <1>1 DEF StakeAccount
  <2> HIDE DEF d, r
  <2>5. e \in StakedEntry /\ e.stake_account = a
    BY <1>1, <2>4, StakedEntryFacts DEF StakedEntry
  <2> HIDE DEF e
  <2>6. /\ stake' \in [Accounts -> StakeAccount] /\ stake'[a] = r
        /\ \A b \in Accounts \ {a} : stake'[b] = stake[b]
    BY <1>1, <2>1, <2>3 DEF StakingInv, TypeOK
  <2>7. /\ entry' \in [Entries -> StakedEntry] /\ entry'[i] = e
        /\ \A j \in Entries \ {i} : entry'[j] = entry[j]
    BY <2>1, <2>5 DEF StakingInv, TypeOK
  <2>8. TypeOK'
    BY <1>2, <2>6, <2>7 DEF StakingInv, TypeOK, blockVars
  <2>9. \A j \in Entries \ {i} : IsLent(j) => StillLent(j)
    BY <2>6, OthersStillLent
  <2> HIDE DEF a
  <2>10. StakedInCustody' /\ PrincipalKept'
    BY <1>1, <1>2, <2>2, <2>5, <2>6, <2>7, <2>9, EntryChanged
  <2>11. MasterKeepsMinimum' /\ MasterHeld'
    BY <1>1, <2>6, MasterFacts DEF MasterKeepsMinimum, MasterHeld
  <2>12. UnusedUnowned'
    BY <1>1, <2>3, <2>6, UnusedStay, {a} \in SUBSET Accounts
  <2> QED BY <2>8, <2>10, <2>11, <2>12 DEF StakingInv
<1>5. CASE stake[a].state # "Initialized"
  <2>1. /\ CanCharge(i) /\ stake' = Charged(i)
        /\ entry' = [entry EXCEPT ![i] = EntryCharged(i)]
        /\ stake[a].state # "Uninitialized"
    BY <1>5 DEF TakeCommissionOrDelegate, Decodes
  <2>2. /\ stake' \in [Accounts -> StakeAccount]
        /\ \A b \in Accounts \ {a, Master} : stake'[b] = stake[b]
    BY <1>1, <2>1, ChargeEffect
  <2>3. /\ entry' \in [Entries -> StakedEntry]
        /\ entry'[i] = EntryCharged(i)
        /\ \A j \in Entries \ {i} : entry'[j] = entry[j]
    BY <1>1, <2>1, AfterCharge DEF StakingInv, TypeOK
  <2>4. TypeOK'
    BY <1>2, <2>2, <2>3 DEF StakingInv, TypeOK, blockVars
  <2>5. \A j \in Entries \ {i} : IsLent(j) => StillLent(j)
    BY <2>2, OthersStillLent
  <2>6. /\ EntryCharged(i).stake_account = a
        /\ stake'[a].state = stake[a].state
        /\ stake'[a].withdrawer = stake[a].withdrawer
        /\ EntryCharged(i).last_commission_charge = stake'[a].delegation
        /\ EntryCharged(i).stake_initial_lamports = entry[i].stake_initial_lamports
        /\ stake'[a].delegation = Delegation(i) - CommissionDue(i)
        /\ stake'[a].delegation \in Nat
    BY <1>1, <2>1, AfterCharge
  <2>7. a \notin taken =>
          /\ stake[a].state = "Stake" /\ stake[a].withdrawer = Authority
          /\ \A j \in Entries \ {i} : entry[j].stake_account # a
          /\ entry[i].stake_initial_lamports <= stake'[a].delegation
    <3> SUFFICES ASSUME a \notin taken
                 PROVE  /\ stake[a].state = "Stake" /\ stake[a].withdrawer = Authority
                        /\ \A j \in Entries \ {i} : entry[j].stake_account # a
                        /\ entry[i].stake_initial_lamports <= stake'[a].delegation
      OBVIOUS
    <3>1. IsLent(i)
      BY <1>3
    <3>2. \A j \in Entries \ {i} : entry[j].stake_account # a
      BY <3>1 DEF StakingInv, StakedInCustody
    <3>3. entry[i].stake_initial_lamports <= stake'[a].delegation
      BY <1>1, <2>6, <3>1, ChargeKeepsSettled, StakedAccount, StakedEntryFacts
    <3> QED BY <3>1, <3>2, <3>3, StakedAccount
  <2> HIDE DEF a
  <2>8. StakedInCustody' /\ PrincipalKept'
    BY <1>1, <1>2, <2>2, <2>3, <2>5, <2>6, <2>7, EntryChanged
  <2>9. MasterKeepsMinimum' /\ MasterHeld'
    BY <1>1, <2>1, AfterCharge, MasterFacts DEF MasterKeepsMinimum, MasterHeld
  <2>10. UnusedUnowned'
    <3>1. stake'[Master].state = "Stake"
      BY <2>9 DEF MasterHeld
    <3> QED BY <1>1, <2>1, <2>2, <2>6, <3>1, UnusedStay, MasterFacts, {a, Master} \in SUBSET Accounts
  <2> QED BY <2>4, <2>8, <2>9, <2>10 DEF StakingInv
<1> QED BY <1>4, <1>5

LEMMA UserDestakeKeeps ==
  ASSUME StakingInv, NEW i \in Entries, NEW owner \in Acting, NEW destination \in KiOwners,
         UserDestake(i, owner, destination)
  PROVE  StakingInv'
<1> DEFINE a == entry[i].stake_account
           r == Reauthorized(Charged(i)[a], owner)
<1>1. /\ IsStaked(i) /\ CanCharge(i) /\ a \in Accounts \ {Master}
      /\ stake[a].state # "Uninitialized"
      /\ owner \in Holders /\ destination \in Signers
  BY StakedEntryFacts, StakingAssumption DEF UserDestake, Decodes
<1>2. /\ stake' = [Charged(i) EXCEPT ![a] = r]
      /\ entry' = [entry EXCEPT ![i] = Destaked(EntryCharged(i))]
      /\ ki' = KiAfterHarvest(i, destination)
      /\ UNCHANGED <<epoch, blockVars, taken, token, metadata_authority>>
  BY DEF UserDestake
<1>3. /\ Charged(i) \in [Accounts -> StakeAccount]
      /\ \A b \in Accounts \ {a, Master} : Charged(i)[b] = stake[b]
  BY <1>1, ChargeEffect
<1>4. r \in StakeAccount /\ r.state # "Uninitialized"
  BY <1>1, <1>3, AfterCharge, ReauthorizedEffect
<1>5. /\ stake' \in [Accounts -> StakeAccount]
      /\ stake'[a] = r /\ stake'[Master] = Charged(i)[Master]
      /\ \A b \in Accounts \ {a, Master} : stake'[b] = stake[b]
  BY <1>1, <1>2, <1>3, <1>4, MasterFacts
<1>6. Destaked(EntryCharged(i)) \in StakedEntry /\ Destaked(EntryCharged(i)).stake_account = Zeroes
  BY <1>1, AfterCharge DEF Destaked, StakedEntry
<1>7. /\ entry' \in [Entries -> StakedEntry]
      /\ entry'[i].stake_account = Zeroes
      /\ \A j \in Entries \ {i} : entry'[j] = entry[j]
  BY <1>2, <1>6 DEF StakingInv, TypeOK
<1>8. ki' \in [Signers -> Nat]
  BY <1>1, <1>2, KiStays
<1>9. TypeOK'
  BY <1>2, <1>5, <1>7, <1>8 DEF StakingInv, TypeOK, blockVars
<1>10. \A j \in Entries \ {i} : IsLent(j) => StillLent(j)
  BY <1>5, OthersStillLent
<1> HIDE DEF a, r
<1>11. StakedInCustody' /\ PrincipalKept'
  BY <1>2, <1>5, <1>7, <1>10, EntryChanged
<1>12. MasterKeepsMinimum' /\ MasterHeld'
  BY <1>1, <1>5, AfterCharge, MasterFacts DEF MasterKeepsMinimum, MasterHeld
<1>13. UnusedUnowned'
  <2>1. stake'[Master].state = "Stake"
    BY <1>12 DEF MasterHeld
  <2> QED BY <1>1, <1>4, <1>5, <2>1, UnusedStay, MasterFacts, {a, Master} \in SUBSET Accounts
<1> QED BY <1>9, <1>11, <1>12, <1>13 DEF StakingInv

LEMMA SetBlockCommissionKeeps ==
  ASSUME StakingInv, NEW signer \in Acting, NEW new \in Commissions, SetBlockCommission(signer, new)
  PROVE  StakingInv'
<1>1. TypeOK'
  BY StakingAssumption DEF SetBlockCommission, ChangeEpoch, StakingInv, TypeOK
<1>2. UNCHANGED <<entry, stake, taken>>
  BY DEF SetBlockCommission
<1>3. StakedInCustody' /\ PrincipalKept'
  BY <1>2, CustodyUnchanged
<1> QED BY <1>1, <1>2, <1>3 DEF StakingInv, MasterHeld, MasterKeepsMinimum, UnusedUnowned

\* An entry changes in what the other entries and the stake accounts do not depend on.
LEMMA EntryOnly ==
  ASSUME StakingInv, NEW i \in Entries, NEW e \in StakedEntry, UNCHANGED <<stake, taken>>, TypeOK',
         entry' = [entry EXCEPT ![i] = e],
         /\ e.stake_account = entry[i].stake_account
         /\ e.stake_initial_lamports = entry[i].stake_initial_lamports
         /\ e.last_commission_charge = entry[i].last_commission_charge
  PROVE  StakingInv'
<1>1. /\ entry'[i] = e
      /\ \A j \in Entries \ {i} : entry'[j] = entry[j]
  BY DEF StakingInv, TypeOK
<1>2. \A j \in Entries \ {i} : IsLent(j) => StillLent(j)
  BY StakedAccount DEF StillLent, Delegation
<1>3. e.stake_account # Zeroes => e.stake_account \in StakeAccounts
  BY StakedEntryFacts DEF IsStaked
<1>4. e.stake_account \notin taken \cup {Zeroes} =>
        /\ stake'[e.stake_account].state = "Stake"
        /\ stake'[e.stake_account].withdrawer = Authority
        /\ \A j \in Entries \ {i} : entry[j].stake_account # e.stake_account
        /\ e.stake_initial_lamports <= e.last_commission_charge
        /\ e.last_commission_charge <= stake'[e.stake_account].delegation
  <2> SUFFICES ASSUME IsLent(i)
               PROVE  /\ stake[entry[i].stake_account].state = "Stake"
                      /\ stake[entry[i].stake_account].withdrawer = Authority
                      /\ \A j \in Entries \ {i} : entry[j].stake_account # entry[i].stake_account
                      /\ entry[i].stake_initial_lamports <= entry[i].last_commission_charge
                      /\ entry[i].last_commission_charge <= Delegation(i)
    BY DEF IsLent, IsStaked, Delegation
  <2> QED BY StakedAccount DEF StakingInv, StakedInCustody
<1>5. StakedInCustody' /\ PrincipalKept'
  BY <1>1, <1>2, <1>3, <1>4, EntryChanged DEF StakingInv, TypeOK
<1> QED BY <1>5 DEF StakingInv, MasterHeld, MasterKeepsMinimum, UnusedUnowned

LEMMA UserHarvestKeeps ==
  ASSUME StakingInv, NEW i \in Entries, NEW owner \in Acting, NEW destination \in KiOwners,
         UserHarvest(i, owner, destination)
  PROVE  StakingInv'
<1>1. IsStaked(i) /\ destination \in Signers /\ entry[i] \in StakedEntry
  BY StakingAssumption, StakedEntryFacts DEF UserHarvest
<1>2. /\ EntryHarvested(i) \in StakedEntry
      /\ EntryHarvested(i).stake_account = entry[i].stake_account
      /\ EntryHarvested(i).stake_initial_lamports = entry[i].stake_initial_lamports
      /\ EntryHarvested(i).last_commission_charge = entry[i].last_commission_charge
  <2>1. CASE IsHarvestable(i)
    <3> DEFINE d == Delegation(i)
    <3>1. d \in Nat /\ EntryHarvested(i) = [entry[i] EXCEPT !.last_ki_harvest = d]
      BY <1>1, <2>1, StakedEntryFacts DEF EntryHarvested
    <3> HIDE DEF d
    <3> QED BY <1>1, <3>1 DEF StakedEntry
  <2>2. CASE ~IsHarvestable(i)
    BY <1>1, <2>2 DEF EntryHarvested
  <2> QED BY <2>1, <2>2
<1>3. ki' \in [Signers -> Nat]
  BY <1>1, KiStays DEF UserHarvest
<1>4. entry' = [entry EXCEPT ![i] = EntryHarvested(i)] /\ UNCHANGED <<stake, taken>>
  BY DEF UserHarvest
<1>5. TypeOK'
  BY <1>2, <1>3 DEF UserHarvest, StakingInv, TypeOK, blockVars
<1> HIDE DEF EntryHarvested
<1> QED BY <1>2, <1>4, <1>5, EntryOnly

LEMMA UserLevelUpKeeps ==
  ASSUME StakingInv, NEW i \in Entries, NEW owner \in Acting, NEW source \in KiOwners,
         UserLevelUp(i, owner, source)
  PROVE  StakingInv'
<1> DEFINE burnt == KiToBurn(entry[i].level)
           e == [entry[i] EXCEPT !.level = entry[i].level + 1]
<1>1. source \in Signers /\ entry[i] \in StakedEntry /\ ki \in [Signers -> Nat]
  BY StakingAssumption DEF StakingInv, TypeOK
<1>2. entry[i].level \in 0..MaxLevel /\ entry[i].level + 1 \in 0..MaxLevel
  <2>1. entry[i].level \in 0..MaxLevel
    BY <1>1 DEF StakedEntry
  <2>2. entry[i].level # MaxLevel
    BY DEF UserLevelUp
  <2> QED BY <2>1, <2>2, KiAssumption
<1>3. burnt \in 0..ki[source] /\ ki' = [ki EXCEPT ![source] = ki[source] - burnt]
      /\ entry' = [entry EXCEPT ![i] = e]
  BY DEF UserLevelUp, HasKi
<1> HIDE DEF burnt
<1>4. ki[source] - burnt \in Nat
  BY <1>1, <1>3
<1>5. ki' \in [Signers -> Nat]
  BY <1>1, <1>3, <1>4
<1>6. /\ e \in StakedEntry
      /\ e.stake_account = entry[i].stake_account
      /\ e.stake_initial_lamports = entry[i].stake_initial_lamports
      /\ e.last_commission_charge = entry[i].last_commission_charge
  BY <1>1, <1>2 DEF StakedEntry
<1> HIDE DEF e
<1>7. TypeOK' /\ UNCHANGED <<stake, taken>>
  BY <1>3, <1>5, <1>6 DEF UserLevelUp, StakingInv, TypeOK, blockVars
<1> QED BY <1>3, <1>6, <1>7, EntryOnly

LEMMA ReauthorizeKeeps ==
  ASSUME StakingInv, NEW i \in Entries, NEW signer \in Acting, NEW owner \in Acting,
         NEW to \in NewAuthorities, Reauthorize(i, signer, owner, to)
  PROVE  StakingInv'
<1> DEFINE a == entry[i].stake_account
           r == Reauthorized(stake[a], to)
<1>1. to \in Holders
  BY StakingAssumption
<1>2. metadata_authority' \in [Entries -> Holders]
  BY <1>1 DEF Reauthorize, StakingInv, TypeOK
<1>3. CASE IsStaked(i)
  <2>0. a \in Accounts \ {Master} /\ a \in StakeAccounts /\ stake[a] \in StakeAccount
    BY <1>3, StakedEntryFacts
  <2>1. stake[a].state # "Uninitialized"
    <3>1. stake[a].withdrawer = Authority /\ Authority \in Holders /\ NoOne \notin Holders
      BY <1>3, StakingAssumption, StakeProgramAssumption DEF Reauthorize, InHand
    <3> QED BY <2>0, <3>1 DEF StakingInv, UnusedUnowned
  <2>2. r \in StakeAccount /\ r.state # "Uninitialized"
    BY <1>1, <2>0, <2>1, ReauthorizedEffect
  <2>3. /\ stake' = [stake EXCEPT ![a] = r]
        /\ entry' = [entry EXCEPT ![i] = Destaked(entry[i])]
        /\ UNCHANGED taken
    BY <1>3 DEF Reauthorize
  <2>4. /\ stake' \in [Accounts -> StakeAccount] /\ stake'[a] = r
        /\ \A b \in Accounts \ {a} : stake'[b] = stake[b]
    BY <2>0, <2>2, <2>3 DEF StakingInv, TypeOK
  <2>5. Destaked(entry[i]) \in StakedEntry /\ Destaked(entry[i]).stake_account = Zeroes
    BY <1>3, StakedEntryFacts DEF Destaked, StakedEntry
  <2>6. /\ entry' \in [Entries -> StakedEntry]
        /\ entry'[i].stake_account = Zeroes
        /\ \A j \in Entries \ {i} : entry'[j] = entry[j]
    BY <2>3, <2>5 DEF StakingInv, TypeOK
  <2>7. TypeOK'
    BY <1>2, <2>4, <2>6 DEF Reauthorize, StakingInv, TypeOK, blockVars
  <2>8. \A j \in Entries \ {i} : IsLent(j) => StillLent(j)
    BY <2>4, OthersStillLent
  <2> HIDE DEF a, r
  <2>9. StakedInCustody' /\ PrincipalKept'
    BY <2>3, <2>4, <2>6, <2>8, EntryChanged
  <2>10. MasterKeepsMinimum' /\ MasterHeld'
    BY <2>0, <2>4, MasterFacts DEF MasterKeepsMinimum, MasterHeld
  <2>11. UnusedUnowned'
    BY <2>0, <2>2, <2>4, UnusedStay, {a} \in SUBSET Accounts
  <2> QED BY <2>7, <2>9, <2>10, <2>11 DEF StakingInv
<1>4. CASE ~IsStaked(i)
  <2>1. UNCHANGED <<entry, stake, taken>>
    BY <1>4 DEF Reauthorize
  <2>2. TypeOK'
    BY <1>2, <2>1 DEF Reauthorize, StakingInv, TypeOK, blockVars
  <2>3. StakedInCustody' /\ PrincipalKept'
    BY <2>1, CustodyUnchanged
  <2> QED BY <2>1, <2>2, <2>3 DEF StakingInv, MasterHeld, MasterKeepsMinimum, UnusedUnowned
<1> QED BY <1>3, <1>4

\* Not more is split off than there is above the minimum.
LEMMA SplittableFits ==
  ASSUME StakingInv, NEW lamports \in SplitAmounts,
         lamports > 0 => lamports <= Subtract(stake[Master].delegation, MasterMinimum)
  PROVE  /\ Splittable(lamports) \in Nat
         /\ Splittable(lamports) <= stake[Master].delegation - MasterMinimum
<1>1. Subtract(stake[Master].delegation, MasterMinimum) = stake[Master].delegation - MasterMinimum
  BY MasterFacts DEF Subtract
<1>2. lamports \in Nat
  BY StakingAssumption
<1> QED BY <1>1, <1>2, MasterFacts DEF Splittable

\* A new account is split off the master in s, which is the present, or the
\* present after a merge.
LEMMA SplitKeeps ==
  ASSUME StakingInv, NEW s \in [Accounts -> StakeAccount], NEW into \in StakeAccounts,
         NEW n \in Nat, SplitInto(s, into, n), stake[into].state = "Uninitialized",
         s[Master].state = "Stake", s[Master].withdrawer = Authority,
         s[Master].delegation - n >= MasterMinimum,
         taken \subseteq taken', taken' \subseteq StakeAccounts,
         \A j \in Entries : IsLent(j) /\ entry[j].stake_account \notin taken' =>
           s[entry[j].stake_account] = stake[entry[j].stake_account],
         \A b \in StakeAccounts : s[b].state = "Uninitialized" => s[b].withdrawer = NoOne,
         UNCHANGED <<epoch, blockVars, entry, token, metadata_authority, ki>>
  PROVE  StakingInv'
<1> DEFINE m == Without(s[Master], n)
           r == Reauthorized(SplitOff(s[Master], n), admin)
<1>1. /\ into \in Accounts /\ Master \in Accounts /\ into # Master
      /\ s[Master] \in StakeAccount /\ admin \in Holders
  BY StakingAssumption, MasterFacts DEF Accounts, StakingInv, TypeOK
<1>2. n <= s[Master].delegation /\ s[Master].delegation \in Nat
  BY <1>1, MasterFacts DEF StakeAccount
<1>3. /\ m \in StakeAccount /\ m.state = "Stake" /\ m.withdrawer = Authority
      /\ m.delegation = s[Master].delegation - n
  BY <1>1, <1>2, WithoutEffect
<1>4. r \in StakeAccount /\ r.state = "Stake"
  <2>1. /\ SplitOff(s[Master], n) \in StakeAccount
        /\ SplitOff(s[Master], n).state = "Stake"
    BY <1>1, SplitOffEffect
  <2> QED BY <1>1, <2>1, ReauthorizedEffect
<1>5. stake' = [s EXCEPT ![Master] = m, ![into] = r]
  BY DEF SplitInto
<1> HIDE DEF m, r
<1>6. /\ stake' \in [Accounts -> StakeAccount] /\ stake'[Master] = m /\ stake'[into] = r
      /\ \A b \in Accounts \ {Master, into} : stake'[b] = s[b]
  BY <1>1, <1>3, <1>4, <1>5
<1>7. TypeOK'
  BY <1>6 DEF StakingInv, TypeOK, blockVars
<1>8. \A j \in Entries : IsLent(j) /\ entry[j].stake_account \notin taken' => StillLent(j)
  <2> SUFFICES ASSUME NEW j \in Entries, IsLent(j), entry[j].stake_account \notin taken'
               PROVE  StillLent(j)
    OBVIOUS
  <2>1. entry[j].stake_account \in Accounts \ {Master, into}
    BY StakedAccount
  <2>2. stake'[entry[j].stake_account] = stake[entry[j].stake_account]
    BY <1>6, <2>1
  <2> QED BY <2>2, StakedAccount DEF StillLent, Delegation
<1>9. StakedInCustody' /\ PrincipalKept'
  BY <1>6, <1>8, EntriesUnchanged
<1>10. MasterKeepsMinimum' /\ MasterHeld'
  BY <1>3, <1>6 DEF MasterKeepsMinimum, MasterHeld
<1>11. UnusedUnowned'
  <2> SUFFICES ASSUME NEW b \in StakeAccounts, stake'[b].state = "Uninitialized"
               PROVE  stake'[b].withdrawer = NoOne
    BY DEF UnusedUnowned
  <2>1. b \in Accounts \ {Master, into}
    BY <1>3, <1>4, <1>6 DEF Accounts
  <2> QED BY <1>6, <2>1
<1> QED BY <1>7, <1>9, <1>10, <1>11 DEF StakingInv

LEMMA SplitMasterStakeKeeps ==
  ASSUME StakingInv, NEW signer \in Acting, NEW into \in StakeAccounts,
         NEW lamports \in SplitAmounts, SplitMasterStake(signer, into, lamports)
  PROVE  StakingInv'
<1> DEFINE n == Splittable(lamports)
<1>1. n \in Nat /\ n <= stake[Master].delegation - MasterMinimum
  BY SplittableFits DEF SplitMasterStake
<1>2. /\ SplitInto(stake, into, n) /\ stake[into].state = "Uninitialized"
      /\ UNCHANGED <<epoch, blockVars, taken, entry, token, metadata_authority, ki>>
  BY DEF SplitMasterStake, SplitInto
<1>3. /\ stake \in [Accounts -> StakeAccount]
      /\ \A b \in StakeAccounts : stake[b].state = "Uninitialized" => stake[b].withdrawer = NoOne
  BY DEF StakingInv, TypeOK, UnusedUnowned
<1> HIDE DEF n
<1>4. /\ stake[Master].state = "Stake" /\ stake[Master].withdrawer = Authority
      /\ stake[Master].delegation - n >= MasterMinimum
  BY <1>1, MasterFacts
<1>5. taken \subseteq taken' /\ taken' \subseteq StakeAccounts
  BY <1>2 DEF StakingInv, TypeOK
<1> QED BY <1>1, <1>2, <1>3, <1>4, <1>5, SplitKeeps

LEMMA MergeAndSplitKeeps ==
  ASSUME StakingInv, NEW signer \in Acting, NEW pre \in StakeAccounts, NEW into \in StakeAccounts,
         NEW lamports \in SplitAmounts, MergeAndSplitMasterStake(signer, pre, into, lamports)
  PROVE  StakingInv'
<1> DEFINE d == stake[pre].delegation
           n == Splittable(lamports) + d
           s == [stake EXCEPT ![Master] = With(stake[Master], d), ![pre] = NoStakeAccount]
<1>1. /\ pre \in Accounts /\ into \in Accounts /\ pre # Master /\ into # Master
      /\ stake[pre] \in StakeAccount /\ d \in Nat
  BY StakingAssumption DEF Accounts, StakingInv, TypeOK, StakeAccount
<1>2. /\ SplitInto(s, into, n) /\ into # pre
      /\ UNCHANGED <<epoch, blockVars, entry, token, metadata_authority, ki>>
  BY DEF MergeAndSplitMasterStake
<1>3. Splittable(lamports) \in Nat /\ Splittable(lamports) <= stake[Master].delegation - MasterMinimum
  BY SplittableFits DEF MergeAndSplitMasterStake
<1>4. NoStakeAccount \in StakeAccount /\ NoStakeAccount.withdrawer = NoOne
  BY DEF NoStakeAccount, StakeAccount
<1> HIDE DEF d
<1>5. /\ With(stake[Master], d) \in StakeAccount
      /\ With(stake[Master], d).state = "Stake" /\ With(stake[Master], d).withdrawer = Authority
      /\ With(stake[Master], d).delegation = stake[Master].delegation + d
  BY <1>1, MasterFacts, WithEffect
<1>6. /\ s \in [Accounts -> StakeAccount] /\ s[Master] = With(stake[Master], d)
      /\ s[pre] = NoStakeAccount
      /\ \A b \in Accounts \ {Master, pre} : s[b] = stake[b]
  BY <1>1, <1>4, <1>5, MasterFacts DEF StakingInv, TypeOK
<1> HIDE DEF s
<1>7. n \in Nat /\ s[Master].delegation - n >= MasterMinimum
  BY <1>1, <1>3, <1>5, <1>6, MasterFacts
<1>8. stake[into].state = "Uninitialized"
  BY <1>1, <1>2, <1>6 DEF SplitInto
<1>9. /\ taken \subseteq taken' /\ taken' \subseteq StakeAccounts
      /\ \A j \in Entries : IsLent(j) /\ entry[j].stake_account \notin taken' =>
           s[entry[j].stake_account] = stake[entry[j].stake_account]
  <2>1. taken' = taken \cup ({pre} \cap {entry[j].stake_account : j \in Entries})
    BY DEF MergeAndSplitMasterStake
  <2>2. \A j \in Entries : entry[j].stake_account \notin taken' => entry[j].stake_account # pre
    BY <2>1
  <2> QED BY <1>6, <2>1, <2>2, StakedAccount DEF StakingInv, TypeOK
<1>10. \A b \in StakeAccounts : s[b].state = "Uninitialized" => s[b].withdrawer = NoOne
  <2> SUFFICES ASSUME NEW b \in StakeAccounts, s[b].state = "Uninitialized"
               PROVE  s[b].withdrawer = NoOne
    OBVIOUS
  <2>1. CASE b = pre
    BY <2>1, <1>4, <1>6
  <2>2. CASE b # pre
    BY <2>2, <1>6, StakingAssumption DEF Accounts, StakingInv, UnusedUnowned
  <2> QED BY <2>1, <2>2
<1> HIDE DEF n
<1> QED BY <1>2, <1>5, <1>6, <1>7, <1>8, <1>9, <1>10, SplitKeeps

LEMMA SetAdminKeeps ==
  ASSUME StakingInv, NEW new \in NewAdmins, SetAdmin(new)
  PROVE  StakingInv'
<1>1. TypeOK'
  BY StakingAssumption DEF SetAdmin, StakingInv, TypeOK
<1>2. UNCHANGED <<entry, stake, taken>>
  BY DEF SetAdmin
<1>3. StakedInCustody' /\ PrincipalKept'
  BY <1>2, CustodyUnchanged
<1> QED BY <1>1, <1>2, <1>3 DEF StakingInv, MasterHeld, MasterKeepsMinimum, UnusedUnowned

LEMMA HolderActsKeeps ==
  ASSUME StakingInv, NEW a \in StakeAccounts, NEW holder \in Acting, HolderActs(a, holder)
  PROVE  StakingInv'
<1>1. a \in Accounts /\ a # Master /\ stake[a] \in StakeAccount
  BY StakingAssumption DEF Accounts, StakingInv, TypeOK
<1>2. PICK r \in StakeAccount : r.state # "Uninitialized" /\ stake' = [stake EXCEPT ![a] = r]
  <2>1. stake[a].state # "Uninitialized"
    BY DEF HolderActs
  <2>2. ASSUME NEW to \in Recipients, stake' = [stake EXCEPT ![a] = Reauthorized(stake[a], to)]
        PROVE  \E r \in StakeAccount :
                 r.state # "Uninitialized" /\ stake' = [stake EXCEPT ![a] = r]
    <3>1. to \in Holders
      BY StakingAssumption
    <3> QED BY <1>1, <2>1, <2>2, <3>1, ReauthorizedEffect
  <2>3. ASSUME NEW voter \in Voters, stake' = [stake EXCEPT ![a] = Delegated(stake[a], voter)]
        PROVE  \E r \in StakeAccount :
                 r.state # "Uninitialized" /\ stake' = [stake EXCEPT ![a] = r]
    <3>1. Delegated(stake[a], voter) \in StakeAccount /\ Delegated(stake[a], voter).state = "Stake"
      BY <1>1, DelegatedEffect
    <3> QED BY <2>3, <3>1
  <2>4. ASSUME stake' = [stake EXCEPT ![a] = Deactivated(stake[a])]
        PROVE  \E r \in StakeAccount :
                 r.state # "Uninitialized" /\ stake' = [stake EXCEPT ![a] = r]
    BY <1>1, <2>1, <2>4, DeactivatedEffect
  <2> QED BY <2>2, <2>3, <2>4 DEF HolderActs
<1>3. /\ stake' \in [Accounts -> StakeAccount] /\ stake'[a] = r
      /\ \A b \in Accounts \ {a} : stake'[b] = stake[b]
      /\ UNCHANGED <<epoch, blockVars, taken, entry, token, metadata_authority, ki>>
  BY <1>1, <1>2 DEF HolderActs, StakingInv, TypeOK
<1>4. \A j \in Entries : entry[j].stake_account = a => a \in taken
  <2>1. stake[a].withdrawer # Authority
    BY StakingAssumption DEF HolderActs
  <2> QED BY <1>1, <2>1, NotLent
<1>5. TypeOK'
  BY <1>3 DEF StakingInv, TypeOK, blockVars
<1>6. \A j \in Entries : IsLent(j) => StillLent(j)
  BY <1>3, <1>4, StakedAccount DEF StillLent, Delegation
<1>7. StakedInCustody' /\ PrincipalKept'
  BY <1>3, <1>6, EntriesUnchanged
<1>8. MasterKeepsMinimum' /\ MasterHeld'
  BY <1>1, <1>3, MasterFacts DEF MasterKeepsMinimum, MasterHeld
<1>9. UnusedUnowned'
  BY <1>1, <1>2, <1>3, UnusedStay, {a} \in SUBSET Accounts
<1> QED BY <1>5, <1>7, <1>8, <1>9 DEF StakingInv

LEMMA TransferTokenKeeps ==
  ASSUME StakingInv, NEW i \in Entries, NEW from \in Acting, NEW to \in Buyers,
         TransferToken(i, from, to)
  PROVE  StakingInv'
<1>1. TypeOK'
  BY StakingAssumption DEF TransferToken, StakingInv, TypeOK, blockVars
<1>2. UNCHANGED <<entry, stake, taken>>
  BY DEF TransferToken
<1>3. StakedInCustody' /\ PrincipalKept'
  BY <1>2, CustodyUnchanged
<1> QED BY <1>1, <1>2, <1>3 DEF StakingInv, MasterHeld, MasterKeepsMinimum, UnusedUnowned

LEMMA EpochPassesKeeps ==
  ASSUME StakingInv, NEW reward \in [Voters -> Rewards], EpochPasses(reward)
  PROVE  StakingInv'
<1> DEFINE earned(a) == IF stake[a].voter = NoOne THEN 0 ELSE reward[stake[a].voter]
<1>1. ASSUME NEW a \in Accounts
      PROVE  /\ stake[a] \in StakeAccount /\ earned(a) \in Nat
             /\ stake'[a] = AfterEpoch(stake[a], earned(a))
  BY StakingAssumption DEF EpochPasses, StakingInv, TypeOK, StakeAccount
<1> HIDE DEF earned
<1>2. ASSUME NEW a \in Accounts
      PROVE  /\ stake'[a] \in StakeAccount
             /\ stake'[a].withdrawer = stake[a].withdrawer /\ stake'[a].state = stake[a].state
             /\ stake'[a].delegation >= stake[a].delegation
  BY <1>1, AfterEpochEffect
<1>3. stake' \in [Accounts -> StakeAccount]
  BY <1>2 DEF EpochPasses
<1>4. TypeOK'
  BY <1>3 DEF EpochPasses, StakingInv, TypeOK, blockVars
<1>5. \A j \in Entries : IsLent(j) => StillLent(j)
  BY <1>2, StakedAccount DEF StillLent
<1>6. StakedInCustody' /\ PrincipalKept'
  BY <1>3, <1>5, EntriesUnchanged DEF EpochPasses
<1>7. MasterKeepsMinimum' /\ MasterHeld'
  <2>1. stake'[Master].delegation \in Nat
    BY <1>2, MasterFacts DEF StakeAccount
  <2> QED BY <1>2, <2>1, MasterFacts DEF MasterKeepsMinimum, MasterHeld
<1>8. UnusedUnowned'
  BY <1>2 DEF StakingInv, UnusedUnowned, Accounts
<1> QED BY <1>4, <1>6, <1>7, <1>8 DEF StakingInv

LEMMA StakingInvHolds == Spec => []StakingInv
<1>1. Init => StakingInv
  BY InitHolds
<1>2. StakingInv /\ [Next]_vars => StakingInv'
  <2> SUFFICES ASSUME StakingInv, [Next]_vars PROVE StakingInv'
    OBVIOUS
  <2>1. CASE UNCHANGED vars
    <3>1. UNCHANGED <<entry, stake, taken>> /\ TypeOK'
      BY <2>1 DEF vars, StakingInv, TypeOK
    <3>2. StakedInCustody' /\ PrincipalKept'
      BY <3>1, CustodyUnchanged
    <3> QED BY <3>1, <3>2 DEF StakingInv, MasterHeld, MasterKeepsMinimum, UnusedUnowned
  <2>2. CASE Next
    BY <2>2, UserStakeKeeps, TakeCommissionKeeps, SetBlockCommissionKeeps, UserHarvestKeeps,
       UserDestakeKeeps, UserLevelUpKeeps, ReauthorizeKeeps, SplitMasterStakeKeeps,
       MergeAndSplitKeeps, SetAdminKeeps, HolderActsKeeps, TransferTokenKeeps, EpochPassesKeeps
       DEF Next
  <2> QED BY <2>1, <2>2
<1> QED BY <1>1, <1>2, PTL DEF Spec

(***************************************************************************)
(* Delegations and Ki never become negative, for any commission, rewards,  *)
(* and size of the word in which they are computed.                        *)
(***************************************************************************)
THEOREM StakingTypeCorrect == Spec => []TypeOK
<1>1. StakingInv => TypeOK
  BY DEF StakingInv
<1> QED BY <1>1, StakingInvHolds, PTL

(***************************************************************************)
(* The account of a staked entry is delegated, the program's, and no other *)
(* entry's, whoever does what with stake accounts outside of the program;  *)
(* only the admin can take it.                                             *)
(***************************************************************************)
THEOREM StakesInCustody == Spec => []StakedInCustody
<1>1. StakingInv => StakedInCustody
  BY DEF StakingInv
<1> QED BY <1>1, StakingInvHolds, PTL

(***************************************************************************)
(* The commission never touches what was staked, nor the rewards that it   *)
(* was taken of before, unless the admin takes the account as a whole.     *)
(***************************************************************************)
THEOREM PrincipalIsKept == Spec => []PrincipalKept
<1>1. StakingInv => PrincipalKept
  BY DEF StakingInv
<1> QED BY <1>1, StakingInvHolds, PTL

(***************************************************************************)
(* The master stake account is never split to less than its minimum.       *)
(***************************************************************************)
THEOREM MasterMinimumKept == Spec => []MasterKeepsMinimum
<1>1. StakingInv => MasterKeepsMinimum
  BY DEF StakingInv
<1> QED BY <1>1, StakingInvHolds, PTL

-----------------------------------------------------------------------------
(***************************************************************************)
(* The commission.  What is inductive is the bound of the block's for the  *)
(* epoch of its last change: the change itself makes up for one epoch.     *)
(***************************************************************************)

CommissionInv ==
  /\ last_commission_change_epoch <= epoch
  /\ commission <= InitialCommission + MaxRaise * last_commission_change_epoch
  /\ \A i \in Entries : IsStaked(i) => entry[i].commission <= InitialCommission + MaxRaise * epoch

\* A staked entry keeps its commission, or gets the block's.
EntryCommissionsStep ==
  \A i \in Entries : IsStaked(i)' =>
    \/ entry'[i].commission = commission
    \/ IsStaked(i) /\ entry'[i].commission = entry[i].commission

LEMMA BoundGrows ==
  ASSUME NEW x \in Nat, NEW y \in Nat, NEW z \in Nat, x <= y,
         z <= InitialCommission + MaxRaise * x
  PROVE  z <= InitialCommission + MaxRaise * y
<1>1. MaxRaise \in Nat /\ InitialCommission \in Nat
  BY StakingAssumption
<1>2. MaxRaise * x <= MaxRaise * y /\ MaxRaise * x \in Nat /\ MaxRaise * y \in Nat
  BY <1>1, ProductMonotone, ProductNat
<1> QED BY <1>1, <1>2

LEMMA EntryCommissionsKept ==
  ASSUME StakingInv, Next
  PROVE  EntryCommissionsStep
<1>1. entry \in [Entries -> StakedEntry]
  BY DEF StakingInv, TypeOK
<1>2. ASSUME NEW i \in Entries, NEW e, entry' = [entry EXCEPT ![i] = e],
             \/ e.stake_account = Zeroes
             \/ e.commission = commission
             \/ e.stake_account = entry[i].stake_account /\ e.commission = entry[i].commission
      PROVE  EntryCommissionsStep
  <2> SUFFICES ASSUME NEW j \in Entries, IsStaked(j)'
               PROVE  \/ entry'[j].commission = commission
                      \/ IsStaked(j) /\ entry'[j].commission = entry[j].commission
    BY DEF EntryCommissionsStep
  <2>1. CASE j = i
    <3>1. entry'[j] = e
      BY <1>1, <1>2, <2>1
    <3> QED BY <1>2, <2>1, <3>1 DEF IsStaked
  <2>2. CASE j # i
    <3>1. entry'[j] = entry[j]
      BY <1>1, <1>2, <2>2
    <3> QED BY <3>1 DEF IsStaked
  <2> QED BY <2>1, <2>2
<1>3. ASSUME UNCHANGED entry PROVE EntryCommissionsStep
  BY <1>3 DEF EntryCommissionsStep, IsStaked
<1>4. ASSUME NEW i \in Entries, NEW a \in StakeAccounts, NEW owner \in Acting,
             NEW signer \in Acting, UserStake(i, a, owner, signer)
      PROVE  EntryCommissionsStep
  <2> DEFINE n == AsStaked(stake[a]).delegation
             e == [entry[i] EXCEPT !.stake_account = a, !.stake_initial_lamports = n,
                                   !.last_ki_harvest = n, !.last_commission_charge = n,
                                   !.commission = commission]
  <2>1. entry' = [entry EXCEPT ![i] = e]
    BY <1>4 DEF UserStake
  <2> HIDE DEF n
  <2>2. e.commission = commission
    BY <1>1 DEF StakedEntry
  <2> HIDE DEF e
  <2> QED BY <1>2, <2>1, <2>2
<1>5. ASSUME NEW i \in Entries, TakeCommissionOrDelegate(i)
      PROVE  EntryCommissionsStep
  <2> DEFINE d == stake[entry[i].stake_account].delegation
             e == [entry[i] EXCEPT !.last_ki_harvest = d, !.last_commission_charge = d]
  <2>1. \/ /\ IsStaked(i) /\ CanCharge(i)
           /\ entry' = [entry EXCEPT ![i] = EntryCharged(i)]
        \/ entry' = [entry EXCEPT ![i] = e]
    BY <1>5 DEF TakeCommissionOrDelegate
  <2> HIDE DEF d
  <2>2. e.stake_account = entry[i].stake_account /\ e.commission = entry[i].commission
    BY <1>1 DEF StakedEntry
  <2> HIDE DEF e
  <2>3. CASE entry' = [entry EXCEPT ![i] = e]
    BY <1>2, <2>2, <2>3
  <2>4. CASE /\ IsStaked(i) /\ CanCharge(i)
             /\ entry' = [entry EXCEPT ![i] = EntryCharged(i)]
    <3>1. EntryCharged(i).commission = commission
      BY <2>4, AfterCharge
    <3> QED BY <1>2, <2>4, <3>1
  <2> QED BY <2>1, <2>3, <2>4
<1>6. ASSUME NEW i \in Entries, NEW owner \in Acting, NEW destination \in KiOwners,
             UserHarvest(i, owner, destination)
      PROVE  EntryCommissionsStep
  <2>1. entry' = [entry EXCEPT ![i] = EntryHarvested(i)]
    BY <1>6 DEF UserHarvest
  <2>2. /\ EntryHarvested(i).stake_account = entry[i].stake_account
        /\ EntryHarvested(i).commission = entry[i].commission
    BY <1>1 DEF EntryHarvested, StakedEntry
  <2> QED BY <1>2, <2>1, <2>2
<1>7. ASSUME NEW i \in Entries, NEW owner \in Acting, NEW destination \in KiOwners,
             UserDestake(i, owner, destination)
      PROVE  EntryCommissionsStep
  <2>1. entry' = [entry EXCEPT ![i] = Destaked(EntryCharged(i))] /\ IsStaked(i) /\ CanCharge(i)
    BY <1>7 DEF UserDestake
  <2>2. Destaked(EntryCharged(i)).stake_account = Zeroes
    BY <2>1, AfterCharge DEF Destaked, StakedEntry
  <2> QED BY <1>2, <2>1, <2>2
<1>8. ASSUME NEW i \in Entries, NEW owner \in Acting, NEW source \in KiOwners,
             UserLevelUp(i, owner, source)
      PROVE  EntryCommissionsStep
  <2> DEFINE e == [entry[i] EXCEPT !.level = entry[i].level + 1]
  <2>1. entry' = [entry EXCEPT ![i] = e]
    BY <1>8 DEF UserLevelUp
  <2>2. e.stake_account = entry[i].stake_account /\ e.commission = entry[i].commission
    BY <1>1 DEF StakedEntry
  <2> HIDE DEF e
  <2> QED BY <1>2, <2>1, <2>2
<1>9. ASSUME NEW i \in Entries, NEW signer \in Acting, NEW owner \in Acting,
             NEW to \in NewAuthorities, Reauthorize(i, signer, owner, to)
      PROVE  EntryCommissionsStep
  <2>1. CASE IsStaked(i)
    <3>1. entry' = [entry EXCEPT ![i] = Destaked(entry[i])]
      BY <1>9, <2>1 DEF Reauthorize
    <3>2. Destaked(entry[i]).stake_account = Zeroes
      BY <1>1 DEF Destaked, StakedEntry
    <3> QED BY <1>2, <3>1, <3>2
  <2>2. CASE ~IsStaked(i)
    BY <1>3, <1>9, <2>2 DEF Reauthorize
  <2> QED BY <2>1, <2>2
<1>10. CASE UNCHANGED entry
  BY <1>3, <1>10
<1> QED BY <1>3, <1>4, <1>5, <1>6, <1>7, <1>8, <1>9
        DEF Next, SetBlockCommission, SplitMasterStake, MergeAndSplitMasterStake, SetAdmin,
            HolderActs, TransferToken, EpochPasses

\* The commission of the block, and the epoch, in each step.
LEMMA BlockCommissionStep ==
  ASSUME StakingInv, Next
  PROVE  \/ /\ \E signer \in Acting, new \in Commissions : SetBlockCommission(signer, new)
            /\ UNCHANGED epoch
         \/ UNCHANGED <<commission, last_commission_change_epoch>> /\ epoch' \in {epoch, epoch + 1}
<1> DEFINE Same == /\ UNCHANGED <<commission, last_commission_change_epoch>>
                   /\ epoch' \in {epoch, epoch + 1}
<1>1. ASSUME UNCHANGED <<epoch, blockVars>> PROVE Same
  BY <1>1 DEF blockVars
<1>2. ASSUME NEW new \in NewAdmins, SetAdmin(new) PROVE Same
  BY <1>2 DEF SetAdmin
<1>3. ASSUME NEW reward \in [Voters -> Rewards], EpochPasses(reward) PROVE Same
  BY <1>3 DEF EpochPasses, blockVars
<1>4. ASSUME NEW i \in Entries, TakeCommissionOrDelegate(i) PROVE Same
  BY <1>1, <1>4 DEF TakeCommissionOrDelegate
<1>5. ASSUME NEW i \in Entries, NEW a \in StakeAccounts, NEW owner \in Acting,
             NEW signer \in Acting, UserStake(i, a, owner, signer)
      PROVE  Same
  BY <1>1, <1>5 DEF UserStake
<1>6. ASSUME NEW i \in Entries, NEW x \in Acting, NEW y \in KiOwners,
             UserHarvest(i, x, y) \/ UserDestake(i, x, y) \/ UserLevelUp(i, x, y)
      PROVE  Same
  BY <1>1, <1>6 DEF UserHarvest, UserDestake, UserLevelUp
<1>7. ASSUME NEW i \in Entries, NEW signer \in Acting, NEW owner \in Acting,
             NEW to \in NewAuthorities, Reauthorize(i, signer, owner, to)
      PROVE  Same
  BY <1>1, <1>7 DEF Reauthorize
<1>8. ASSUME NEW signer \in Acting, NEW into \in StakeAccounts, NEW lamports \in SplitAmounts,
             SplitMasterStake(signer, into, lamports)
      PROVE  Same
  BY <1>1, <1>8 DEF SplitMasterStake
<1>9. ASSUME NEW signer \in Acting, NEW into \in StakeAccounts, NEW lamports \in SplitAmounts,
             NEW pre \in StakeAccounts, MergeAndSplitMasterStake(signer, pre, into, lamports)
      PROVE  Same
  BY <1>1, <1>9 DEF MergeAndSplitMasterStake
<1>10. ASSUME NEW a \in StakeAccounts, NEW holder \in Acting, HolderActs(a, holder) PROVE Same
  BY <1>1, <1>10 DEF HolderActs
<1>11. ASSUME NEW i \in Entries, NEW from \in Acting, NEW to \in Buyers, TransferToken(i, from, to)
       PROVE  Same
  BY <1>1, <1>11 DEF TransferToken
<1>12. ASSUME NEW signer \in Acting, NEW new \in Commissions, SetBlockCommission(signer, new)
       PROVE  UNCHANGED epoch
  BY <1>12 DEF SetBlockCommission
<1> HIDE DEF Same
<1>13. Same \/ /\ \E signer \in Acting, new \in Commissions : SetBlockCommission(signer, new)
               /\ UNCHANGED epoch
  BY <1>2, <1>3, <1>4, <1>5, <1>6, <1>7, <1>8, <1>9, <1>10, <1>11, <1>12 DEF Next
<1> QED BY <1>13 DEF Same

LEMMA CommissionInvHolds == Spec => [](StakingInv /\ CommissionInv)
<1>1. Init => CommissionInv
  <2> SUFFICES ASSUME Init PROVE CommissionInv
    OBVIOUS
  <2>1. \A i \in Entries : ~IsStaked(i)
    BY DEF Init, IsStaked
  <2>2. MaxRaise * 0 = 0 /\ InitialCommission \in Nat
    BY StakingAssumption
  <2> QED BY <2>1, <2>2 DEF Init, CommissionInv
<1>2. StakingInv /\ StakingInv' /\ CommissionInv /\ [Next]_vars => CommissionInv'
  <2> SUFFICES ASSUME StakingInv, StakingInv', CommissionInv, [Next]_vars PROVE CommissionInv'
    OBVIOUS
  <2>1. CASE UNCHANGED vars
    BY <2>1 DEF CommissionInv, IsStaked, vars
  <2>2. CASE Next
    <3>1. /\ epoch \in Nat /\ epoch' \in Nat /\ commission \in Nat /\ commission' \in Nat
          /\ last_commission_change_epoch \in Nat /\ last_commission_change_epoch' \in Nat
          /\ InitialCommission \in Nat /\ MaxRaise \in Nat
          /\ \A i \in Entries : entry[i].commission \in Nat /\ entry'[i].commission \in Nat
      BY StakingAssumption DEF StakingInv, TypeOK, StakedEntry
    <3>2. epoch <= epoch'
      BY <2>2, <3>1, BlockCommissionStep
    <3>3. /\ last_commission_change_epoch' <= epoch'
          /\ commission' <= InitialCommission + MaxRaise * last_commission_change_epoch'
      <4>1. CASE UNCHANGED <<commission, last_commission_change_epoch>>
        BY <3>1, <3>2, <4>1 DEF CommissionInv
      <4>2. ASSUME NEW signer \in Acting, NEW new \in Commissions, SetBlockCommission(signer, new)
            PROVE  /\ last_commission_change_epoch' <= epoch'
                   /\ commission' <= InitialCommission + MaxRaise * last_commission_change_epoch'
        <5>1. /\ last_commission_change_epoch' = epoch /\ epoch' = epoch
              /\ last_commission_change_epoch + 1 <= epoch
              /\ commission' <= commission + MaxRaise
          BY <3>1, <4>2 DEF SetBlockCommission, ChangeEpoch, CommissionInv
        <5>2. MaxRaise * (last_commission_change_epoch + 1) =
                MaxRaise * last_commission_change_epoch + MaxRaise
          BY <3>1, SMT
        <5>3. MaxRaise * last_commission_change_epoch \in Nat
          BY <3>1, ProductNat
        <5>4. commission' <= InitialCommission + MaxRaise * (last_commission_change_epoch + 1)
          BY <3>1, <5>1, <5>2, <5>3 DEF CommissionInv
        <5> QED BY <3>1, <5>1, <5>4, BoundGrows
      <4> QED BY <2>2, <4>1, <4>2, BlockCommissionStep
    <3>4. ASSUME NEW i \in Entries, IsStaked(i)'
          PROVE  entry'[i].commission <= InitialCommission + MaxRaise * epoch'
      <4>1. commission <= InitialCommission + MaxRaise * epoch
        BY <3>1, BoundGrows DEF CommissionInv
      <4>2. entry'[i].commission <= InitialCommission + MaxRaise * epoch
        BY <2>2, <3>4, <4>1, EntryCommissionsKept DEF EntryCommissionsStep, CommissionInv
      <4> QED BY <3>1, <3>2, <4>2, BoundGrows
    <3> QED BY <3>3, <3>4 DEF CommissionInv
  <2> QED BY <2>1, <2>2
<1> QED BY <1>1, <1>2, StakingInvHolds, PTL DEF Spec

(***************************************************************************)
(* No commission, of the block or of an entry, rises faster than by 2% for *)
(* each epoch.                                                             *)
(***************************************************************************)
THEOREM CommissionsRaiseSlowly == Spec => []CommissionRaisesSlowly
<1>1. StakingInv /\ CommissionInv => CommissionRaisesSlowly
  <2> SUFFICES ASSUME StakingInv, CommissionInv PROVE CommissionRaisesSlowly
    OBVIOUS
  <2>1. epoch \in Nat /\ commission \in Nat /\ last_commission_change_epoch \in Nat
    BY StakingAssumption DEF StakingInv, TypeOK
  <2>2. commission <= InitialCommission + MaxRaise * epoch
    BY <2>1, BoundGrows DEF CommissionInv
  <2> QED BY <2>2 DEF CommissionInv, CommissionRaisesSlowly
<1> QED BY <1>1, CommissionInvHolds, PTL

-----------------------------------------------------------------------------
(***************************************************************************)
(* Ki.  A difference that wrapped around earns nothing because there are   *)
(* far fewer lamports than a word can count: Supply bounds what a stake    *)
(* account holds, and therefore what was harvested for.                    *)
(***************************************************************************)

WithinSupply(Supply)   == \A a \in Accounts : stake[a].delegation <= Supply
HarvestedBelow(Supply) == \A i \in Entries : entry[i].last_ki_harvest <= Supply

LEMMA HarvestedBelowStep ==
  ASSUME NEW Supply \in Nat, StakingInv, WithinSupply(Supply), HarvestedBelow(Supply), Next
  PROVE  HarvestedBelow(Supply)'
<1>1. /\ entry \in [Entries -> StakedEntry]
      /\ \A i \in Entries : entry[i] \in StakedEntry /\ entry[i].last_ki_harvest <= Supply
  BY DEF StakingInv, TypeOK, HarvestedBelow
<1>2. ASSUME NEW i \in Entries, NEW e, entry' = [entry EXCEPT ![i] = e],
             e.last_ki_harvest <= Supply
      PROVE  HarvestedBelow(Supply)'
  <2> SUFFICES ASSUME NEW j \in Entries PROVE entry'[j].last_ki_harvest <= Supply
    BY DEF HarvestedBelow
  <2>1. CASE j = i
    BY <1>1, <1>2, <2>1
  <2>2. CASE j # i
    BY <1>1, <1>2, <2>2
  <2> QED BY <2>1, <2>2
<1>3. ASSUME UNCHANGED entry PROVE HarvestedBelow(Supply)'
  BY <1>3 DEF HarvestedBelow
<1>4. ASSUME NEW i \in Entries, IsStaked(i) PROVE Delegation(i) <= Supply
  BY <1>4, StakedEntryFacts DEF WithinSupply, Delegation
<1>5. ASSUME NEW i \in Entries, NEW a \in StakeAccounts, NEW owner \in Acting,
             NEW signer \in Acting, UserStake(i, a, owner, signer)
      PROVE  HarvestedBelow(Supply)'
  <2> DEFINE n == AsStaked(stake[a]).delegation
             e == [entry[i] EXCEPT !.stake_account = a, !.stake_initial_lamports = n,
                                   !.last_ki_harvest = n, !.last_commission_charge = n,
                                   !.commission = commission]
  <2>1. entry' = [entry EXCEPT ![i] = e] /\ Stakeable(stake[a])
    BY <1>5 DEF UserStake
  <2>2. a \in Accounts /\ stake[a] \in StakeAccount
    BY DEF StakingInv, TypeOK, Accounts
  <2>3. n <= Supply
    BY <2>1, <2>2, AsStakedEffect DEF WithinSupply
  <2> HIDE DEF n
  <2>4. e.last_ki_harvest = n
    BY <1>1 DEF StakedEntry
  <2> HIDE DEF e
  <2> QED BY <1>2, <2>1, <2>3, <2>4
<1>6. ASSUME NEW i \in Entries, TakeCommissionOrDelegate(i)
      PROVE  HarvestedBelow(Supply)'
  <2> DEFINE d == Delegation(i)
             e == [entry[i] EXCEPT !.last_ki_harvest = d, !.last_commission_charge = d]
  <2>1. /\ IsStaked(i)
        /\ \/ entry' = [entry EXCEPT ![i] = EntryCharged(i)]
           \/ entry' = [entry EXCEPT ![i] = e]
    BY <1>6 DEF TakeCommissionOrDelegate, Delegation
  <2>2. d <= Supply
    BY <1>4, <2>1
  <2> HIDE DEF d
  <2>3. e.last_ki_harvest <= Supply
    BY <1>1, <2>2 DEF StakedEntry
  <2> HIDE DEF e
  <2>4. EntryCharged(i).last_ki_harvest = entry[i].last_ki_harvest
    BY <1>1 DEF EntryCharged, StakedEntry
  <2> QED BY <1>1, <1>2, <2>1, <2>3, <2>4
<1>7. ASSUME NEW i \in Entries, NEW owner \in Acting, NEW destination \in KiOwners,
             UserHarvest(i, owner, destination)
      PROVE  HarvestedBelow(Supply)'
  <2>1. entry' = [entry EXCEPT ![i] = EntryHarvested(i)] /\ IsStaked(i)
    BY <1>7 DEF UserHarvest
  <2>2. EntryHarvested(i).last_ki_harvest \in {Delegation(i), entry[i].last_ki_harvest}
    BY <1>1 DEF EntryHarvested, StakedEntry
  <2>3. EntryHarvested(i).last_ki_harvest <= Supply
    BY <1>1, <1>4, <2>1, <2>2
  <2> QED BY <1>2, <2>1, <2>3
<1>8. ASSUME NEW i \in Entries, NEW owner \in Acting, NEW destination \in KiOwners,
             UserDestake(i, owner, destination)
      PROVE  HarvestedBelow(Supply)'
  <2>1. entry' = [entry EXCEPT ![i] = Destaked(EntryCharged(i))] /\ IsStaked(i) /\ CanCharge(i)
    BY <1>8 DEF UserDestake
  <2>2. Destaked(EntryCharged(i)).last_ki_harvest = 0
    BY <2>1, AfterCharge DEF Destaked, StakedEntry
  <2>3. Destaked(EntryCharged(i)).last_ki_harvest <= Supply
    BY <2>2
  <2> QED BY <1>2, <2>1, <2>3
<1>9. ASSUME NEW i \in Entries, NEW owner \in Acting, NEW source \in KiOwners,
             UserLevelUp(i, owner, source)
      PROVE  HarvestedBelow(Supply)'
  <2> DEFINE e == [entry[i] EXCEPT !.level = entry[i].level + 1]
  <2>1. entry' = [entry EXCEPT ![i] = e]
    BY <1>9 DEF UserLevelUp
  <2>2. e.last_ki_harvest = entry[i].last_ki_harvest
    BY <1>1 DEF StakedEntry
  <2> HIDE DEF e
  <2> QED BY <1>1, <1>2, <2>1, <2>2
<1>10. ASSUME NEW i \in Entries, NEW signer \in Acting, NEW owner \in Acting,
              NEW to \in NewAuthorities, Reauthorize(i, signer, owner, to)
       PROVE  HarvestedBelow(Supply)'
  <2>1. CASE IsStaked(i)
    <3>1. entry' = [entry EXCEPT ![i] = Destaked(entry[i])]
      BY <1>10, <2>1 DEF Reauthorize
    <3>2. Destaked(entry[i]).last_ki_harvest = 0
      BY <1>1 DEF Destaked, StakedEntry
    <3>3. Destaked(entry[i]).last_ki_harvest <= Supply
      BY <3>2
    <3> QED BY <1>2, <3>1, <3>3
  <2>2. CASE ~IsStaked(i)
    BY <1>3, <1>10, <2>2 DEF Reauthorize
  <2> QED BY <2>1, <2>2
<1> QED BY <1>3, <1>5, <1>6, <1>7, <1>8, <1>9, <1>10
        DEF Next, SetBlockCommission, SplitMasterStake, MergeAndSplitMasterStake, SetAdmin,
            HolderActs, TransferToken, EpochPasses

\* What is assumed of the schedule of harvest_ki and of the supply of lamports:
\* with the program's constants it holds of any supply up to 14 * 10^18 lamports,
\* 14 billion SOL.
SupplyFits(Supply) ==
  /\ Supply \in 0..MaxU64
  /\ ((MaxU64 - Supply) \div LamportsPerSol) * ((MaxU64 - Supply) \div LamportsPerSol) > MaxU64
  /\ KiLimit * KiLimit <= MaxU64 /\ KiLimit <= KiDivisor

\* A harvest that mints something is for rewards.
LEMMA HarvestForRewards ==
  ASSUME NEW Supply, SupplyFits(Supply), StakingInv, WithinSupply(Supply),
         HarvestedBelow(Supply), NEW i \in Entries, IsStaked(i), IsHarvestable(i),
         NEW tokens \in Nat \ {0}, tokens = Harvested(KiRewards(i), KiFactorOf(i))
  PROVE  /\ Delegation(i) - entry[i].last_ki_harvest > 0
         /\ (Delegation(i) - entry[i].last_ki_harvest) * KiFactorOf(i) <= KiLimit * LamportsPerSol =>
              tokens * LamportsPerSol <=
                10 * KiFactorOf(i) * (Delegation(i) - entry[i].last_ki_harvest)
<1> DEFINE d == Delegation(i)
           l == entry[i].last_ki_harvest
           f == KiFactorOf(i)
           r == KiRewards(i)
<1>1. d \in Nat /\ l \in Nat /\ l <= Supply /\ f \in Nat
  BY StakedEntryFacts, KiAssumption DEF StakedEntry, HarvestedBelow, KiFactorOf
<1>2. Supply \in 0..MaxU64 /\ MaxU64 \in Nat
  BY MaxU64Assumption DEF SupplyFits
<1>3. r = IF d >= l THEN d - l ELSE MaxU64 - (l - d - 1)
  <2>1. r = Subtract(d, l)
    BY DEF KiRewards
  <2> HIDE DEF d, l, r
  <2>2. CASE d >= l
    BY <2>1, <2>2 DEF Subtract
  <2>3. CASE d < l
    BY <1>1, <1>2, <2>1, <2>3, SubtractWraps
  <2> QED BY <1>1, <2>2, <2>3
<1>4. EarnedKi(r, f) > 0 /\ tokens = Harvested(r, f)
  BY DEF IsHarvestable
<1> HIDE DEF d, l, f, r
<1>5. d >= l
  <2> SUFFICES ASSUME ~(d >= l) PROVE FALSE
    OBVIOUS
  <2>1. r \in Nat /\ r >= MaxU64 - Supply
    BY <1>1, <1>2, <1>3
  <2>2. Harvested(r, f) = 0
    BY <1>1, <1>2, <1>4, <2>1, WrappedHarvestIsZero DEF SupplyFits
  <2> QED BY <1>4, <2>2
<1>6. r = d - l /\ r \in Nat
  BY <1>1, <1>3, <1>5
<1>7. r > 0
  <2> SUFFICES ASSUME r = 0 PROVE FALSE
    BY <1>6
  <2>1. Multiply(0, f) = 0
    <3>1. Multiply(0, f) \in Nat /\ Multiply(0, f) <= 0 * f
      BY <1>1, MultiplyFits
    <3>2. 0 * f = 0
      BY <1>1, SMT
    <3> QED BY <3>1, <3>2
  <2>2. 0 \div LamportsPerSol = 0
    BY KiAssumption, SMT
  <2> QED BY <1>4, <2>1, <2>2 DEF EarnedKi
<1>8. r * f <= KiLimit * LamportsPerSol => tokens * LamportsPerSol <= 10 * f * r
  BY <1>1, <1>4, <1>6, HarvestIsEarned DEF SupplyFits
<1> QED BY <1>6, <1>7, <1>8 DEF d, l, f

\* Ki are minted by the two instructions that harvest, and the rewards are counted.
LEMMA KiStep ==
  ASSUME NEW Supply, SupplyFits(Supply), StakingInv, WithinSupply(Supply),
         HarvestedBelow(Supply), Next, NEW h \in Signers, ki'[h] > ki[h]
  PROVE  \E i \in Entries : KiForRewards(i, ki'[h] - ki[h])
<1>1. /\ ki \in [Signers -> Nat] /\ entry \in [Entries -> StakedEntry]
      /\ \A i \in Entries : entry[i] \in StakedEntry
  BY DEF StakingInv, TypeOK
<1>2. ASSUME UNCHANGED ki PROVE FALSE
  BY <1>1, <1>2
<1>3. ASSUME NEW i \in Entries, NEW owner \in Acting, NEW source \in KiOwners,
             UserLevelUp(i, owner, source)
      PROVE  FALSE
  <2> DEFINE burnt == KiToBurn(entry[i].level)
  <2>1. /\ ki' = [ki EXCEPT ![source] = ki[source] - burnt] /\ burnt \in 0..ki[source]
        /\ source \in Signers
    BY <1>3, StakingAssumption DEF UserLevelUp, HasKi
  <2> HIDE DEF burnt
  <2>2. ki'[h] <= ki[h]
    BY <1>1, <2>1
  <2> QED BY <1>1, <2>1, <2>2
<1>4. ASSUME NEW i \in Entries, NEW destination \in KiOwners, IsStaked(i),
             ki' = KiAfterHarvest(i, destination),
             entry'[i].stake_account = Zeroes
               \/ (IsHarvestable(i) => entry'[i].last_ki_harvest = Delegation(i))
      PROVE  KiForRewards(i, ki'[h] - ki[h])
  <2>1. IsHarvestable(i)
    BY <1>2, <1>4 DEF KiAfterHarvest
  <2> DEFINE tokens == Harvested(KiRewards(i), KiFactorOf(i))
  <2>2. ki' = [ki EXCEPT ![destination] = ki[destination] + tokens] /\ destination \in Signers
    BY <1>4, <2>1, StakingAssumption DEF KiAfterHarvest
  <2>3. tokens \in Nat
    <3>1. KiFactorOf(i) \in Nat
      BY <1>1, KiAssumption DEF KiFactorOf, StakedEntry
    <3>2. KiRewards(i) \in Int
      BY <1>4, StakedEntryFacts, SubtractNat DEF KiRewards
    <3> QED BY <2>1, <3>1, <3>2, HarvestNat DEF IsHarvestable
  <2> HIDE DEF tokens
  <2>4. h = destination /\ ki'[h] = ki[h] + tokens
    BY <1>1, <2>2
  <2>5. tokens \in Nat \ {0} /\ ki'[h] - ki[h] = tokens
    BY <1>1, <2>2, <2>3, <2>4
  <2>6. /\ Delegation(i) - entry[i].last_ki_harvest > 0
        /\ (Delegation(i) - entry[i].last_ki_harvest) * KiFactorOf(i) <= KiLimit * LamportsPerSol =>
             tokens * LamportsPerSol <=
               10 * KiFactorOf(i) * (Delegation(i) - entry[i].last_ki_harvest)
    BY <1>4, <2>1, <2>5, HarvestForRewards DEF tokens
  <2> QED BY <1>4, <2>1, <2>5, <2>6 DEF KiForRewards
<1>5. ASSUME NEW i \in Entries, NEW owner \in Acting, NEW destination \in KiOwners,
             UserHarvest(i, owner, destination)
      PROVE  KiForRewards(i, ki'[h] - ki[h])
  <2>1. /\ IsStaked(i) /\ ki' = KiAfterHarvest(i, destination)
        /\ entry' = [entry EXCEPT ![i] = EntryHarvested(i)]
    BY <1>5 DEF UserHarvest
  <2>2. IsHarvestable(i) => entry'[i].last_ki_harvest = Delegation(i)
    <3>1. entry'[i] = EntryHarvested(i)
      BY <1>1, <2>1
    <3> QED BY <1>1, <3>1 DEF EntryHarvested, StakedEntry
  <2> QED BY <1>4, <2>1, <2>2
<1>6. ASSUME NEW i \in Entries, NEW owner \in Acting, NEW destination \in KiOwners,
             UserDestake(i, owner, destination)
      PROVE  KiForRewards(i, ki'[h] - ki[h])
  <2>1. /\ IsStaked(i) /\ ki' = KiAfterHarvest(i, destination) /\ CanCharge(i)
        /\ entry' = [entry EXCEPT ![i] = Destaked(EntryCharged(i))]
    BY <1>6 DEF UserDestake
  <2>2. entry'[i].stake_account = Zeroes
    <3>1. entry'[i] = Destaked(EntryCharged(i))
      BY <1>1, <2>1
    <3>2. Destaked(EntryCharged(i)).stake_account = Zeroes
      BY <2>1, AfterCharge DEF Destaked, StakedEntry
    <3> QED BY <3>1, <3>2
  <2> QED BY <1>4, <2>1, <2>2
<1>7. ASSUME NEW i \in Entries, NEW a \in StakeAccounts, NEW owner \in Acting,
             NEW signer \in Acting, UserStake(i, a, owner, signer)
      PROVE  FALSE
  BY <1>2, <1>7 DEF UserStake
<1>8. ASSUME NEW i \in Entries, TakeCommissionOrDelegate(i)
      PROVE  FALSE
  BY <1>2, <1>8 DEF TakeCommissionOrDelegate
<1>9. ASSUME NEW i \in Entries, NEW signer \in Acting, NEW owner \in Acting,
             NEW to \in NewAuthorities, Reauthorize(i, signer, owner, to)
      PROVE  FALSE
  BY <1>2, <1>9 DEF Reauthorize
<1>10. ASSUME NEW signer \in Acting, NEW into \in StakeAccounts, NEW lamports \in SplitAmounts,
              \/ SplitMasterStake(signer, into, lamports)
              \/ \E pre \in StakeAccounts : MergeAndSplitMasterStake(signer, pre, into, lamports)
       PROVE  FALSE
  BY <1>2, <1>10 DEF SplitMasterStake, MergeAndSplitMasterStake
<1>11. \E i \in Entries, owner \in Acting, destination \in KiOwners :
         \/ UserHarvest(i, owner, destination)
         \/ UserDestake(i, owner, destination)
         \/ UserLevelUp(i, owner, destination)
  BY <1>2, <1>7, <1>8, <1>9, <1>10
     DEF Next, SetBlockCommission, SetAdmin, HolderActs, TransferToken, EpochPasses
<1> QED BY <1>3, <1>5, <1>6, <1>11

(***************************************************************************)
(* Ki are minted for rewards alone, and for each reward once, as long as   *)
(* no stake account holds more than the supply of lamports.  That a stake  *)
(* account can be worth less than at its last harvest, and the difference  *)
(* wraps around, does no harm: so large a harvest overflows.               *)
(***************************************************************************)
THEOREM KiAreForRewards ==
  ASSUME NEW Supply, SupplyFits(Supply)
  PROVE  Spec /\ []WithinSupply(Supply) => KiOnlyForRewards
<1>0. Supply \in Nat
  BY MaxU64Assumption DEF SupplyFits
<1>1. Init => HarvestedBelow(Supply)
  BY <1>0 DEF Init, HarvestedBelow
<1>2. StakingInv /\ WithinSupply(Supply) /\ HarvestedBelow(Supply) /\ [Next]_vars
        => HarvestedBelow(Supply)'
  <2> SUFFICES ASSUME StakingInv, WithinSupply(Supply), HarvestedBelow(Supply), [Next]_vars
               PROVE  HarvestedBelow(Supply)'
    OBVIOUS
  <2>1. CASE UNCHANGED vars
    BY <2>1 DEF HarvestedBelow, vars
  <2>2. CASE Next
    BY <1>0, <2>2, HarvestedBelowStep
  <2> QED BY <2>1, <2>2
<1>3. StakingInv /\ WithinSupply(Supply) /\ HarvestedBelow(Supply) /\ [Next]_vars
        => [\A h \in Signers : ki'[h] > ki[h] => \E i \in Entries : KiForRewards(i, ki'[h] - ki[h])]_vars
  BY KiStep
<1> QED BY <1>1, <1>2, <1>3, StakingInvHolds, PTL DEF Spec, KiOnlyForRewards
-----------------------------------------------------------------------------
(***************************************************************************)
(* Charges can be made.  The merge with the master requires that both      *)
(* accounts are active: the master is from the second epoch on, and before *)
(* that, or before the account is active, nothing was earned.  What the    *)
(* stake program requires to stay in the account was there when it was     *)
(* staked, and was not charged since.                                      *)
(***************************************************************************)

MasterEarns ==
  /\ stake[Master].voter = Shinobi
  /\ stake[Master].activity = IF epoch = 1 THEN "Activating" ELSE "Active"

MinimumDelegated ==
  \A a \in StakeAccounts :
    stake[a].state = "Stake" => stake[a].delegation >= MinimumDelegation

NothingEarnedYet(i) ==
  (epoch = 1 \/ stake[entry[i].stake_account].activity = "Activating")
    => entry[i].last_commission_charge = Delegation(i)

ChargeInv ==
  /\ epoch \in Nat \ {0}
  /\ MasterEarns
  /\ MinimumDelegated
  /\ \A i \in Entries : IsLent(i) =>
       entry[i].last_commission_charge >= MinimumDelegation /\ NothingEarnedYet(i)

\* The stake program lets lamports move between active accounts.
LEMMA ActiveCanMove ==
  ASSUME NEW s \in [Accounts -> StakeAccount], NEW from \in Accounts, NEW to \in Accounts,
         NEW n \in Nat, n >= MinimumDelegation, s[from].delegation - n >= MinimumDelegation,
         s[from].state = "Stake", s[to].state = "Stake",
         s[from].withdrawer = s[to].withdrawer, s[from].voter = s[to].voter,
         s[from].activity = "Active", s[to].activity = "Active"
  PROVE  CanMove(s, from, to, n)
<1>1. s[from] \in StakeAccount
  OBVIOUS
<1>2. /\ SplitOff(s[from], n).state = s[from].state
      /\ SplitOff(s[from], n).withdrawer = s[from].withdrawer
      /\ SplitOff(s[from], n).voter = s[from].voter
      /\ SplitOff(s[from], n).activity = s[from].activity
  BY <1>1 DEF SplitOff, StakeAccount
<1> QED BY <1>2 DEF CanMove, CanSplit, CanMerge

\* Adding or taking lamports leaves everything else of an account.
LEMMA LamportsOnly ==
  ASSUME NEW s \in StakeAccount, NEW n
  PROVE  /\ With(s, n).state = s.state
         /\ With(s, n).withdrawer = s.withdrawer
         /\ With(s, n).voter = s.voter
         /\ With(s, n).activity = s.activity
         /\ With(s, n).delegation = s.delegation + n
         /\ Without(s, n).state = s.state
         /\ Without(s, n).withdrawer = s.withdrawer
         /\ Without(s, n).voter = s.voter
         /\ Without(s, n).activity = s.activity
         /\ Without(s, n).delegation = s.delegation - n
  BY DEF With, Without, StakeAccount

LEMMA EarningCanBeCharged ==
  ASSUME StakingInv, ChargeInv, NEW i \in Entries, EarningEntry(i)
  PROVE  CanCharge(i)
<1> DEFINE a == entry[i].stake_account
           c == CommissionDue(i)
           d == Delegation(i)
           m == MinimumDelegation
<1>1. /\ IsLent(i) /\ a \in Accounts /\ a # Master /\ Master \in Accounts
      /\ stake \in [Accounts -> StakeAccount]
      /\ stake[a] \in StakeAccount /\ stake[Master] \in StakeAccount
      /\ stake[a].state = "Stake" /\ stake[Master].state = "Stake"
      /\ stake[a].withdrawer = stake[Master].withdrawer
      /\ stake[a].delegation = d /\ d \in Nat
  BY StakedAccount, StakedEntryFacts, MasterFacts DEF EarningEntry, Delegation, StakingInv, TypeOK
<1>2. c \in Nat /\ m \in Nat \ {0} /\ d - c >= m
  BY <1>1, CommissionIsPart, StakedAccount, StakeProgramAssumption DEF ChargeInv
<1>3. stake[Master].delegation \in Nat /\ stake[Master].delegation - m >= m
  BY <1>2, MasterFacts, LoanAssumption
<1>4. CASE c = 0
  BY <1>4 DEF CanCharge
<1>5. CASE c # 0
  <2>1. d # entry[i].last_commission_charge
    BY <1>1, <1>2, <1>5, CommissionIsPart
  <2>2. epoch # 1 /\ stake[a].activity # "Activating"
    BY <1>1, <2>1 DEF ChargeInv, NothingEarnedYet
  <2>3. /\ stake[a].activity = "Active" /\ stake[Master].activity = "Active"
        /\ stake[a].voter = stake[Master].voter
    BY <2>2 DEF EarningEntry, ChargeInv, MasterEarns
  <2>4. CASE c >= m
    <3> HIDE DEF a, c, d, m
    <3>1. CanMove(stake, a, Master, c)
      BY <1>1, <1>2, <2>3, <2>4, ActiveCanMove DEF m
    <3> QED BY <2>4, <3>1 DEF CanCharge, a, c, m
  <2>5. CASE c < m
    <3> DEFINE l == Lent(i)
               n == c + m
    <3>0. l = Moved(stake, Master, a, m)
      BY DEF Lent
    <3> HIDE DEF a, c, d, m, l
    <3>1. CanMove(stake, Master, a, m)
      BY <1>1, <1>2, <1>3, <2>3, ActiveCanMove DEF m
    <3>2. /\ l \in [Accounts -> StakeAccount]
          /\ l[Master] = Without(stake[Master], m) /\ l[a] = With(stake[a], m)
      BY <1>1, <1>2, <3>0, <3>1, MoveEffect
    <3>3. n \in Nat /\ n >= m /\ (d + m) - n >= m
      BY <1>1, <1>2
    <3> HIDE DEF n
    <3>4. /\ l[a].state = "Stake" /\ l[Master].state = "Stake"
          /\ l[a].withdrawer = l[Master].withdrawer /\ l[a].voter = l[Master].voter
          /\ l[a].activity = "Active" /\ l[Master].activity = "Active"
          /\ l[a].delegation = d + m
      BY <1>1, <2>3, <3>2, LamportsOnly
    <3>5. CanMove(l, a, Master, n)
      BY <1>1, <3>2, <3>3, <3>4, ActiveCanMove DEF m
    <3> QED BY <2>5, <3>1, <3>5 DEF CanCharge, a, c, m, l, n
  <2> QED BY <1>2, <2>4, <2>5
<1> QED BY <1>4, <1>5

LEMMA ChargeInitHolds == Init => ChargeInv
<1> SUFFICES ASSUME Init PROVE ChargeInv
  OBVIOUS
<1>1. PICK s \in Beginnings :
        stake = [a \in Accounts |->
                   IF a # Master THEN s.stake[a]
                   ELSE [state |-> "Stake", withdrawer |-> Authority, voter |-> Shinobi,
                         delegation |-> MasterMinimum, activity |-> "Activating"]]
  BY DEF Init
<1>2. epoch = 1 /\ \A i \in Entries : ~IsStaked(i)
  BY DEF Init, IsStaked
<1>3. MasterEarns
  BY <1>1, <1>2 DEF MasterEarns, Accounts
<1>4. MinimumDelegated
  BY <1>1, StakingAssumption, LoanAssumption DEF MinimumDelegated, Accounts
<1> QED BY <1>2, <1>3, <1>4 DEF ChargeInv, IsLent

\* An entry stays as it is with its account, or nothing is left to be charged.
Steady(j) ==
  \/ entry'[j].last_commission_charge = stake'[entry'[j].stake_account].delegation
  \/ /\ IsLent(j)
     /\ entry'[j].stake_account = entry[j].stake_account
     /\ entry'[j].last_commission_charge = entry[j].last_commission_charge
     /\ stake'[entry[j].stake_account] = stake[entry[j].stake_account]

\* What the actions have in common, but for the end of an epoch.
LEMMA ChargeInvKept ==
  ASSUME StakingInv, StakingInv', ChargeInv, UNCHANGED epoch,
         stake'[Master].voter = stake[Master].voter,
         stake'[Master].activity = stake[Master].activity,
         MinimumDelegated',
         \A j \in Entries : IsLent(j)' => Steady(j)
  PROVE  ChargeInv'
<1>1. epoch' \in Nat \ {0} /\ MasterEarns'
  BY DEF ChargeInv, MasterEarns
<1>2. ASSUME NEW j \in Entries, IsLent(j)'
      PROVE  /\ entry'[j].last_commission_charge >= MinimumDelegation
             /\ NothingEarnedYet(j)'
  <2>1. /\ entry'[j].stake_account \in StakeAccounts
        /\ stake'[entry'[j].stake_account].state = "Stake"
    BY <1>2 DEF StakingInv, StakedInCustody, IsLent
  <2>2. stake'[entry'[j].stake_account].delegation >= MinimumDelegation
    BY <2>1 DEF MinimumDelegated
  <2>3. CASE entry'[j].last_commission_charge = stake'[entry'[j].stake_account].delegation
    BY <2>2, <2>3 DEF NothingEarnedYet, Delegation
  <2>4. CASE /\ IsLent(j)
             /\ entry'[j].stake_account = entry[j].stake_account
             /\ entry'[j].last_commission_charge = entry[j].last_commission_charge
             /\ stake'[entry[j].stake_account] = stake[entry[j].stake_account]
    BY <2>4 DEF ChargeInv, NothingEarnedYet, Delegation
  <2> QED BY <1>2, <2>3, <2>4 DEF Steady
<1> QED BY <1>1, <1>2 DEF ChargeInv

LEMMA StakeChargeable ==
  ASSUME StakingInv, StakingInv', ChargeInv, NEW i \in Entries, NEW a \in StakeAccounts,
         NEW owner \in Acting, NEW signer \in Acting, UserStake(i, a, owner, signer)
  PROVE  ChargeInv'
<1> DEFINE n == AsStaked(stake[a]).delegation
<1>1. a \in Accounts /\ a # Master /\ Master \in Accounts /\ stake[a] \in StakeAccount
  BY StakingAssumption DEF StakingInv, TypeOK, Accounts
<1>2. \A j \in Entries : entry[j].stake_account = a => a \in taken
  <2>1. stake[a].withdrawer # Authority
    BY StakingAssumption DEF UserStake, WithdrawnBy
  <2> QED BY <1>1, <2>1, NotLent
<1>3. n = stake[a].delegation /\ n >= MinimumDelegation
  <2>1. Stakeable(stake[a]) /\ n = stake[a].delegation
    BY <1>1, AsStakedEffect DEF UserStake
  <2>2. CASE stake[a].state = "Initialized"
    BY <2>1, <2>2 DEF Stakeable, CanDelegate
  <2>3. CASE stake[a].state = "Stake"
    BY <2>1, <2>3 DEF ChargeInv, MinimumDelegated
  <2> QED BY <2>1, <2>2, <2>3 DEF Stakeable
<1>4. /\ stake' = [stake EXCEPT ![a] = AsStaked(stake[a])]
      /\ entry' = [entry EXCEPT ![i] =
                     [entry[i] EXCEPT !.stake_account = a, !.stake_initial_lamports = n,
                                      !.last_ki_harvest = n, !.last_commission_charge = n,
                                      !.commission = commission]]
      /\ UNCHANGED <<epoch, taken>>
  BY DEF UserStake
<1>5. /\ stake'[a] = AsStaked(stake[a])
      /\ \A b \in Accounts \ {a} : stake'[b] = stake[b]
  BY <1>1, <1>4 DEF StakingInv, TypeOK
<1>6. MinimumDelegated'
  BY <1>3, <1>5 DEF ChargeInv, MinimumDelegated, Accounts
<1>7. stake'[a].delegation = n
  BY <1>5
<1> HIDE DEF n
<1>8. /\ entry'[i].stake_account = a /\ entry'[i].last_commission_charge = n
      /\ \A j \in Entries \ {i} : entry'[j] = entry[j]
  BY <1>4 DEF StakingInv, TypeOK, StakedEntry
<1>9. ASSUME NEW j \in Entries, IsLent(j)' PROVE Steady(j)
  <2>1. CASE j = i
    BY <1>7, <1>8, <2>1 DEF Steady
  <2>2. CASE j # i
    <3>1. entry'[j] = entry[j] /\ IsLent(j)
      BY <1>4, <1>8, <1>9, <2>2 DEF IsLent, IsStaked
    <3>2. entry[j].stake_account \in Accounts \ {a}
      BY <1>2, <3>1, StakedAccount
    <3> QED BY <1>5, <3>1, <3>2 DEF Steady
  <2> QED BY <2>1, <2>2
<1> QED BY <1>1, <1>4, <1>5, <1>6, <1>9, ChargeInvKept

\* The accounts after a charge: the account that is charged keeps the minimum,
\* and the master what it is delegated to.
LEMMA AccountsAfterCharge ==
  ASSUME StakingInv, ChargeInv, NEW i \in Entries, IsStaked(i), CanCharge(i)
  PROVE  /\ Charged(i)[entry[i].stake_account].state = "Stake" =>
              Charged(i)[entry[i].stake_account].delegation >= MinimumDelegation
         /\ Charged(i)[Master].voter = stake[Master].voter
         /\ Charged(i)[Master].activity = stake[Master].activity
<1> DEFINE a == entry[i].stake_account
<1>1. Charged(i)[a].state = "Stake" => Charged(i)[a].delegation >= MinimumDelegation
  <2>1. /\ Charged(i)[a].delegation = Delegation(i) - CommissionDue(i)
        /\ Charged(i)[a].state = stake[a].state
        /\ CommissionDue(i) \in Nat /\ Delegation(i) \in Nat /\ a \in StakeAccounts
    BY AfterCharge, StakedEntryFacts
  <2>2. CASE CommissionDue(i) = 0
    <3>1. stake[a].state = "Stake" => Delegation(i) >= MinimumDelegation
      BY <2>1 DEF ChargeInv, MinimumDelegated, Delegation
    <3>2. Charged(i)[a].delegation = Delegation(i)
      BY <2>1, <2>2
    <3> QED BY <2>1, <3>1, <3>2
  <2>3. CASE CommissionDue(i) # 0
    BY <2>1, <2>3, ChargeLeaves
  <2> QED BY <2>2, <2>3
<1>2. Charged(i)[Master] = With(stake[Master], CommissionDue(i))
  BY ChargeEffect
<1> QED BY <1>1, <1>2, MasterFacts, LamportsOnly

\* The other entries when one is charged, or loses its account.
LEMMA OthersSteady ==
  ASSUME StakingInv, NEW i \in Entries, UNCHANGED taken,
         \A b \in Accounts \ {entry[i].stake_account, Master} : stake'[b] = stake[b],
         \A j \in Entries \ {i} : entry'[j] = entry[j]
  PROVE  \A j \in Entries \ {i} : IsLent(j)' => Steady(j)
<1> SUFFICES ASSUME NEW j \in Entries \ {i}, IsLent(j)' PROVE Steady(j)
  OBVIOUS
<1>1. entry'[j] = entry[j] /\ IsLent(j)
  BY DEF IsLent, IsStaked
<1>2. entry[j].stake_account # entry[i].stake_account
  BY <1>1 DEF StakingInv, StakedInCustody
<1>3. entry[j].stake_account \in Accounts \ {entry[i].stake_account, Master}
  BY <1>1, <1>2, StakedAccount
<1> QED BY <1>1, <1>3 DEF Steady

LEMMA TakeCommissionChargeable ==
  ASSUME StakingInv, StakingInv', ChargeInv, NEW i \in Entries, TakeCommissionOrDelegate(i)
  PROVE  ChargeInv'
<1> DEFINE a == entry[i].stake_account
<1>1. /\ IsStaked(i) /\ a \in Accounts \ {Master} /\ stake[a] \in StakeAccount
      /\ Master \in Accounts /\ UNCHANGED <<epoch, taken>>
  BY StakedEntryFacts, MasterFacts DEF TakeCommissionOrDelegate
<1>2. CASE stake[a].state = "Initialized"
  <2> DEFINE d == stake[a].delegation
             r == Delegated(stake[a], Shinobi)
             e == [entry[i] EXCEPT !.last_ki_harvest = d, !.last_commission_charge = d]
  <2>1. /\ CanDelegate(stake[a])
        /\ stake' = [stake EXCEPT ![a] = r] /\ entry' = [entry EXCEPT ![i] = e]
    BY <1>2 DEF TakeCommissionOrDelegate
  <2>2. r.delegation = d /\ d >= MinimumDelegation
    BY <1>1, <2>1, StakingAssumption, DelegatedEffect DEF CanDelegate
  <2> HIDE DEF d, r
  <2>3. e.last_commission_charge = d /\ e.stake_account = a
    BY <1>1, StakedEntryFacts DEF StakedEntry
  <2> HIDE DEF e
  <2>4. /\ stake'[a] = r /\ \A b \in Accounts \ {a} : stake'[b] = stake[b]
        /\ entry'[i] = e /\ \A j \in Entries \ {i} : entry'[j] = entry[j]
    BY <1>1, <2>1 DEF StakingInv, TypeOK
  <2>5. Steady(i)
    BY <2>2, <2>3, <2>4 DEF Steady
  <2>6. \A j \in Entries : IsLent(j)' => Steady(j)
    BY <1>1, <2>4, <2>5, OthersSteady
  <2>7. MinimumDelegated'
    BY <2>2, <2>4 DEF ChargeInv, MinimumDelegated, Accounts
  <2> QED BY <1>1, <2>4, <2>6, <2>7, ChargeInvKept
<1>3. CASE stake[a].state # "Initialized"
  <2>1. /\ CanCharge(i) /\ stake' = Charged(i)
        /\ entry' = [entry EXCEPT ![i] = EntryCharged(i)]
    BY <1>3 DEF TakeCommissionOrDelegate
  <2>2. \A b \in Accounts \ {a, Master} : stake'[b] = stake[b]
    BY <1>1, <2>1, ChargeEffect
  <2>3. /\ entry'[i] = EntryCharged(i)
        /\ \A j \in Entries \ {i} : entry'[j] = entry[j]
    BY <2>1 DEF StakingInv, TypeOK
  <2>4. Steady(i)
    BY <1>1, <2>1, <2>3, AfterCharge DEF Steady
  <2>5. \A j \in Entries : IsLent(j)' => Steady(j)
    BY <1>1, <2>2, <2>3, <2>4, OthersSteady
  <2>6. MinimumDelegated'
    BY <1>1, <2>1, <2>2, AccountsAfterCharge, StakingAssumption
       DEF ChargeInv, MinimumDelegated, Accounts
  <2> QED BY <1>1, <2>1, <2>5, <2>6, AccountsAfterCharge, ChargeInvKept
<1> QED BY <1>2, <1>3

LEMMA DestakeChargeable ==
  ASSUME StakingInv, StakingInv', ChargeInv, NEW i \in Entries, NEW owner \in Acting,
         NEW destination \in KiOwners, UserDestake(i, owner, destination)
  PROVE  ChargeInv'
<1> DEFINE a == entry[i].stake_account
           r == Reauthorized(Charged(i)[a], owner)
<1>1. /\ IsStaked(i) /\ CanCharge(i) /\ a \in Accounts \ {Master} /\ Master \in Accounts
      /\ owner \in Holders
  BY StakedEntryFacts, MasterFacts, StakingAssumption DEF UserDestake
<1>2. /\ stake' = [Charged(i) EXCEPT ![a] = r] /\ UNCHANGED <<epoch, taken>>
      /\ entry' = [entry EXCEPT ![i] = Destaked(EntryCharged(i))]
  BY DEF UserDestake
<1>3. /\ Charged(i) \in [Accounts -> StakeAccount]
      /\ \A b \in Accounts \ {a, Master} : Charged(i)[b] = stake[b]
  BY <1>1, ChargeEffect
<1>4. r.state = "Stake" => r.delegation >= MinimumDelegation
  BY <1>1, <1>3, AccountsAfterCharge, ReauthorizedEffect
<1>5. /\ stake'[a] = r /\ stake'[Master] = Charged(i)[Master]
      /\ \A b \in Accounts \ {a, Master} : stake'[b] = stake[b]
  BY <1>1, <1>2, <1>3
<1>6. /\ entry'[i] = Destaked(EntryCharged(i))
      /\ \A j \in Entries \ {i} : entry'[j] = entry[j]
  BY <1>2 DEF StakingInv, TypeOK
<1>7. ~IsLent(i)'
  BY <1>1, <1>6, AfterCharge DEF IsLent, IsStaked, Destaked, StakedEntry
<1>8. \A j \in Entries : IsLent(j)' => Steady(j)
  BY <1>2, <1>5, <1>6, <1>7, OthersSteady
<1> HIDE DEF r
<1>9. MinimumDelegated'
  BY <1>4, <1>5, StakingAssumption DEF ChargeInv, MinimumDelegated, Accounts
<1> QED BY <1>1, <1>2, <1>5, <1>8, <1>9, AccountsAfterCharge, ChargeInvKept

LEMMA ReauthorizeChargeable ==
  ASSUME StakingInv, StakingInv', ChargeInv, NEW i \in Entries, NEW signer \in Acting,
         NEW owner \in Acting, NEW to \in NewAuthorities, Reauthorize(i, signer, owner, to),
         IsStaked(i)
  PROVE  ChargeInv'
<1> DEFINE a == entry[i].stake_account
           r == Reauthorized(stake[a], to)
<1>1. /\ a \in StakeAccounts /\ a \in Accounts \ {Master} /\ stake[a] \in StakeAccount
      /\ to \in Holders /\ Master \in Accounts
  BY StakedEntryFacts, MasterFacts, StakingAssumption
<1>2. /\ stake' = [stake EXCEPT ![a] = r] /\ UNCHANGED <<epoch, taken>>
      /\ entry' = [entry EXCEPT ![i] = Destaked(entry[i])]
  BY DEF Reauthorize
<1>3. r.state = "Stake" => r.delegation >= MinimumDelegation
  BY <1>1, ReauthorizedEffect DEF ChargeInv, MinimumDelegated
<1>4. /\ stake'[a] = r /\ \A b \in Accounts \ {a} : stake'[b] = stake[b]
  BY <1>1, <1>2 DEF StakingInv, TypeOK
<1>5. /\ entry'[i] = Destaked(entry[i])
      /\ \A j \in Entries \ {i} : entry'[j] = entry[j]
  BY <1>2 DEF StakingInv, TypeOK
<1>6. ~IsLent(i)'
  BY <1>5, StakedEntryFacts DEF IsLent, IsStaked, Destaked, StakedEntry
<1>7. \A j \in Entries : IsLent(j)' => Steady(j)
  BY <1>2, <1>4, <1>5, <1>6, OthersSteady
<1> HIDE DEF r
<1>8. MinimumDelegated'
  BY <1>3, <1>4 DEF ChargeInv, MinimumDelegated, Accounts
<1> QED BY <1>1, <1>2, <1>4, <1>7, <1>8, ChargeInvKept

\* The stake accounts stay as they are, and so does what the entries owe.
LEMMA StakesStayChargeable ==
  ASSUME StakingInv, StakingInv', ChargeInv, UNCHANGED <<epoch, stake, taken>>,
         \A j \in Entries :
           /\ entry'[j].stake_account = entry[j].stake_account
           /\ entry'[j].last_commission_charge = entry[j].last_commission_charge
  PROVE  ChargeInv'
<1>1. \A j \in Entries : IsLent(j)' => Steady(j)
  BY DEF Steady, IsLent, IsStaked
<1>2. MinimumDelegated'
  BY DEF ChargeInv, MinimumDelegated
<1> QED BY <1>1, <1>2, ChargeInvKept

\* Accounts that are not lent change.
LEMMA FreeAccountsChangeable ==
  ASSUME StakingInv, StakingInv', ChargeInv, UNCHANGED <<epoch, entry>>, taken \subseteq taken',
         stake'[Master].voter = stake[Master].voter,
         stake'[Master].activity = stake[Master].activity,
         \A j \in Entries : IsLent(j) /\ entry[j].stake_account \notin taken' =>
           stake'[entry[j].stake_account] = stake[entry[j].stake_account],
         MinimumDelegated'
  PROVE  ChargeInv'
<1>1. \A j \in Entries : IsLent(j)' => Steady(j)
  BY DEF Steady, IsLent, IsStaked
<1> QED BY <1>1, ChargeInvKept

LEMMA SplitChargeable ==
  ASSUME StakingInv, StakingInv', ChargeInv, NEW s \in [Accounts -> StakeAccount],
         NEW into \in StakeAccounts, NEW n \in Nat, SplitInto(s, into, n),
         stake[into].state = "Uninitialized",
         s[Master].voter = stake[Master].voter, s[Master].activity = stake[Master].activity,
         \A j \in Entries : IsLent(j) /\ entry[j].stake_account \notin taken' =>
           s[entry[j].stake_account] = stake[entry[j].stake_account],
         \A b \in StakeAccounts : s[b].state = "Stake" => s[b].delegation >= MinimumDelegation,
         UNCHANGED <<epoch, entry>>, taken \subseteq taken'
  PROVE  ChargeInv'
<1> DEFINE r == Reauthorized(SplitOff(s[Master], n), admin)
<1>1. /\ into \in Accounts /\ Master \in Accounts /\ into # Master
      /\ s[Master] \in StakeAccount /\ admin \in Holders
  BY StakingAssumption, MasterFacts DEF Accounts, StakingInv, TypeOK
<1>2. r.delegation = n /\ n >= MinimumDelegation
  <2>1. /\ SplitOff(s[Master], n) \in StakeAccount
        /\ SplitOff(s[Master], n).delegation = n
    BY <1>1, SplitOffEffect
  <2>2. n >= MinimumDelegation
    BY DEF SplitInto, CanSplit
  <2> QED BY <1>1, <2>1, <2>2, ReauthorizedEffect
<1>3. stake' = [s EXCEPT ![Master] = Without(s[Master], n), ![into] = r]
  BY DEF SplitInto
<1> HIDE DEF r
<1>4. /\ stake'[Master] = Without(s[Master], n) /\ stake'[into] = r
      /\ \A b \in Accounts \ {Master, into} : stake'[b] = s[b]
  BY <1>1, <1>3
<1>5. stake'[Master].voter = stake[Master].voter /\ stake'[Master].activity = stake[Master].activity
  BY <1>1, <1>4, LamportsOnly
<1>6. ASSUME NEW j \in Entries, IsLent(j), entry[j].stake_account \notin taken'
      PROVE  stake'[entry[j].stake_account] = stake[entry[j].stake_account]
  <2>1. entry[j].stake_account \in Accounts \ {Master, into}
    BY <1>6, StakedAccount
  <2> QED BY <1>4, <1>6, <2>1
<1>7. MinimumDelegated'
  BY <1>2, <1>4, StakingAssumption DEF MinimumDelegated, Accounts
<1> QED BY <1>5, <1>6, <1>7, FreeAccountsChangeable

LEMMA SplitMasterStakeChargeable ==
  ASSUME StakingInv, StakingInv', ChargeInv, NEW signer \in Acting, NEW into \in StakeAccounts,
         NEW lamports \in SplitAmounts, SplitMasterStake(signer, into, lamports)
  PROVE  ChargeInv'
<1>1. Splittable(lamports) \in Nat
  BY SplittableFits DEF SplitMasterStake
<1>2. /\ SplitInto(stake, into, Splittable(lamports)) /\ stake[into].state = "Uninitialized"
      /\ UNCHANGED <<epoch, entry, taken>>
  BY DEF SplitMasterStake, SplitInto
<1>3. \A b \in StakeAccounts : stake[b].state = "Stake" => stake[b].delegation >= MinimumDelegation
  BY DEF ChargeInv, MinimumDelegated
<1>4. stake \in [Accounts -> StakeAccount]
  BY DEF StakingInv, TypeOK
<1> QED BY <1>1, <1>2, <1>3, <1>4, SplitChargeable

LEMMA MergeAndSplitChargeable ==
  ASSUME StakingInv, StakingInv', ChargeInv, NEW signer \in Acting, NEW pre \in StakeAccounts,
         NEW into \in StakeAccounts, NEW lamports \in SplitAmounts,
         MergeAndSplitMasterStake(signer, pre, into, lamports)
  PROVE  ChargeInv'
<1> DEFINE d == stake[pre].delegation
           n == Splittable(lamports) + d
           s == [stake EXCEPT ![Master] = With(stake[Master], d), ![pre] = NoStakeAccount]
<1>1. /\ pre \in Accounts /\ into \in Accounts /\ pre # Master /\ into # Master
      /\ d \in Nat /\ Master \in Accounts
      /\ stake \in [Accounts -> StakeAccount] /\ stake[Master] \in StakeAccount
  BY StakingAssumption DEF Accounts, StakingInv, TypeOK, StakeAccount
<1>2. SplitInto(s, into, n) /\ into # pre /\ UNCHANGED <<epoch, entry>>
  BY DEF MergeAndSplitMasterStake
<1>3. n \in Nat
  BY <1>1, SplittableFits DEF MergeAndSplitMasterStake
<1>4. NoStakeAccount \in StakeAccount /\ NoStakeAccount.state = "Uninitialized"
  BY DEF NoStakeAccount, StakeAccount
<1>5. With(stake[Master], d) \in StakeAccount
  BY <1>1, WithEffect
<1> HIDE DEF d
<1>6. /\ s \in [Accounts -> StakeAccount] /\ s[Master] = With(stake[Master], d)
      /\ s[pre] = NoStakeAccount
      /\ \A b \in Accounts \ {Master, pre} : s[b] = stake[b]
  BY <1>1, <1>4, <1>5
<1> HIDE DEF s, n
<1>7. s[Master].voter = stake[Master].voter /\ s[Master].activity = stake[Master].activity
  BY <1>1, <1>6, LamportsOnly
<1>8. stake[into].state = "Uninitialized"
  BY <1>1, <1>2, <1>6 DEF SplitInto
<1>9. /\ taken \subseteq taken'
      /\ \A j \in Entries : IsLent(j) /\ entry[j].stake_account \notin taken' =>
           s[entry[j].stake_account] = stake[entry[j].stake_account]
  <2>1. taken' = taken \cup ({pre} \cap {entry[j].stake_account : j \in Entries})
    BY DEF MergeAndSplitMasterStake
  <2>2. \A j \in Entries : entry[j].stake_account \notin taken' => entry[j].stake_account # pre
    BY <2>1
  <2> QED BY <1>6, <2>1, <2>2, StakedAccount
<1>10. ASSUME NEW b \in StakeAccounts, s[b].state = "Stake"
       PROVE  s[b].delegation >= MinimumDelegation
  <2>1. b \in Accounts \ {Master, pre}
    BY <1>4, <1>6, <1>10, StakingAssumption DEF Accounts
  <2> QED BY <1>6, <1>10, <2>1 DEF ChargeInv, MinimumDelegated
<1> QED BY <1>2, <1>3, <1>6, <1>7, <1>8, <1>9, <1>10, SplitChargeable

LEMMA HolderActsChargeable ==
  ASSUME StakingInv, StakingInv', ChargeInv, NEW a \in StakeAccounts, NEW holder \in Acting,
         HolderActs(a, holder)
  PROVE  ChargeInv'
<1>1. a \in Accounts /\ a # Master /\ Master \in Accounts /\ stake[a] \in StakeAccount
  BY StakingAssumption DEF Accounts, StakingInv, TypeOK
<1>2. \A j \in Entries : entry[j].stake_account = a => a \in taken
  <2>1. stake[a].withdrawer # Authority
    BY StakingAssumption DEF HolderActs
  <2> QED BY <1>1, <2>1, NotLent
<1>3. PICK r \in StakeAccount : /\ r.state = "Stake" => r.delegation >= MinimumDelegation
                                /\ stake' = [stake EXCEPT ![a] = r]
  <2>1. stake[a].state = "Stake" => stake[a].delegation >= MinimumDelegation
    BY DEF ChargeInv, MinimumDelegated
  <2>2. ASSUME NEW to \in Recipients, stake' = [stake EXCEPT ![a] = Reauthorized(stake[a], to)]
        PROVE  \E r \in StakeAccount : /\ r.state = "Stake" => r.delegation >= MinimumDelegation
                                       /\ stake' = [stake EXCEPT ![a] = r]
    <3>1. to \in Holders
      BY StakingAssumption
    <3> QED BY <1>1, <2>1, <2>2, <3>1, ReauthorizedEffect
  <2>3. ASSUME NEW voter \in Voters, CanDelegate(stake[a]),
               stake' = [stake EXCEPT ![a] = Delegated(stake[a], voter)]
        PROVE  \E r \in StakeAccount : /\ r.state = "Stake" => r.delegation >= MinimumDelegation
                                       /\ stake' = [stake EXCEPT ![a] = r]
    <3>1. stake[a].delegation >= MinimumDelegation
      BY <2>3 DEF CanDelegate
    <3> QED BY <1>1, <2>3, <3>1, DelegatedEffect
  <2>4. ASSUME stake' = [stake EXCEPT ![a] = Deactivated(stake[a])]
        PROVE  \E r \in StakeAccount : /\ r.state = "Stake" => r.delegation >= MinimumDelegation
                                       /\ stake' = [stake EXCEPT ![a] = r]
    BY <1>1, <2>1, <2>4, DeactivatedEffect
  <2> QED BY <2>2, <2>3, <2>4 DEF HolderActs
<1>4. /\ stake'[a] = r /\ \A b \in Accounts \ {a} : stake'[b] = stake[b]
      /\ UNCHANGED <<epoch, entry, taken>>
  BY <1>1, <1>3 DEF HolderActs, StakingInv, TypeOK
<1>5. MinimumDelegated'
  BY <1>3, <1>4 DEF ChargeInv, MinimumDelegated, Accounts
<1>6. \A j \in Entries : IsLent(j) =>
        stake'[entry[j].stake_account] = stake[entry[j].stake_account]
  BY <1>2, <1>4, StakedAccount
<1> QED BY <1>1, <1>4, <1>5, <1>6, FreeAccountsChangeable

\* What was active or becomes so earns, or becomes active; the master too.
LEMMA EpochChargeable ==
  ASSUME StakingInv, StakingInv', ChargeInv, NEW reward \in [Voters -> Rewards],
         EpochPasses(reward)
  PROVE  ChargeInv'
<1> DEFINE earned(a) == IF stake[a].voter = NoOne THEN 0 ELSE reward[stake[a].voter]
<1>1. ASSUME NEW a \in Accounts
      PROVE  /\ stake[a] \in StakeAccount /\ earned(a) \in Nat
             /\ stake'[a] = AfterEpoch(stake[a], earned(a))
  BY StakingAssumption DEF EpochPasses, StakingInv, TypeOK, StakeAccount
<1>2. epoch \in Nat \ {0} /\ epoch' = epoch + 1 /\ UNCHANGED <<entry, taken>>
  BY DEF EpochPasses, ChargeInv
<1>3. epoch' \in Nat \ {0} /\ epoch' # 1
  BY <1>2
<1> HIDE DEF earned
<1>4. ASSUME NEW a \in Accounts
      PROVE  /\ stake'[a].voter = stake[a].voter
             /\ stake'[a].activity # "Activating"
             /\ stake[a].activity \in {"Activating", "Active"} => stake'[a].activity = "Active"
             /\ stake'[a].state = stake[a].state
             /\ stake'[a].delegation \in Nat /\ stake'[a].delegation >= stake[a].delegation
  <2> DEFINE s == stake[a]
             e == earned(a)
  <2>1. s \in StakeAccount /\ e \in Nat /\ stake'[a] = AfterEpoch(s, e)
    BY <1>1
  <2> HIDE DEF s, e
  <2>2. /\ AfterEpoch(s, e).voter = s.voter
        /\ AfterEpoch(s, e).activity # "Activating"
        /\ s.activity \in {"Activating", "Active"} => AfterEpoch(s, e).activity = "Active"
    BY <2>1 DEF AfterEpoch, StakeAccount
  <2>3. /\ AfterEpoch(s, e) \in StakeAccount
        /\ AfterEpoch(s, e).state = s.state /\ AfterEpoch(s, e).delegation >= s.delegation
    BY <2>1, AfterEpochEffect
  <2>4. AfterEpoch(s, e).delegation \in Nat
    BY <2>3 DEF StakeAccount
  <2> QED BY <2>1, <2>2, <2>3, <2>4 DEF s
<1>5. MasterEarns'
  BY <1>3, <1>4, MasterFacts DEF ChargeInv, MasterEarns
<1>6. MinimumDelegated'
  <2> SUFFICES ASSUME NEW a \in StakeAccounts, stake'[a].state = "Stake"
               PROVE  stake'[a].delegation >= MinimumDelegation
    BY DEF MinimumDelegated
  <2>1. a \in Accounts /\ stake[a].delegation \in Nat
    BY DEF Accounts, StakingInv, TypeOK, StakeAccount
  <2> QED BY <1>4, <2>1, StakeProgramAssumption DEF ChargeInv, MinimumDelegated
<1>7. ASSUME NEW i \in Entries, IsLent(i)'
      PROVE  /\ entry'[i].last_commission_charge >= MinimumDelegation
             /\ NothingEarnedYet(i)'
  <2>1. IsLent(i) /\ entry[i].stake_account \in Accounts
    BY <1>2, <1>7, StakedAccount DEF IsLent, IsStaked
  <2> QED BY <1>2, <1>3, <1>4, <2>1 DEF ChargeInv, NothingEarnedYet
<1> QED BY <1>3, <1>5, <1>6, <1>7 DEF ChargeInv

LEMMA ChargeInvHolds == Spec => [](StakingInv /\ ChargeInv)
<1>1. StakingInv /\ StakingInv' /\ ChargeInv /\ [Next]_vars => ChargeInv'
  <2> SUFFICES ASSUME StakingInv, StakingInv', ChargeInv, [Next]_vars PROVE ChargeInv'
    OBVIOUS
  <2>0. entry \in [Entries -> StakedEntry] /\ \A i \in Entries : entry[i] \in StakedEntry
    BY DEF StakingInv, TypeOK
  <2>1. CASE UNCHANGED vars
    BY <2>1, StakesStayChargeable DEF vars
  <2>2. ASSUME NEW signer \in Acting, NEW new \in Commissions, SetBlockCommission(signer, new)
        PROVE  ChargeInv'
    BY <2>2, StakesStayChargeable DEF SetBlockCommission
  <2>3. ASSUME NEW new \in NewAdmins, SetAdmin(new) PROVE ChargeInv'
    BY <2>3, StakesStayChargeable DEF SetAdmin
  <2>4. ASSUME NEW i \in Entries, NEW from \in Acting, NEW to \in Buyers,
               TransferToken(i, from, to)
        PROVE  ChargeInv'
    BY <2>4, StakesStayChargeable DEF TransferToken
  <2>5. ASSUME NEW i \in Entries, NEW owner \in Acting, NEW destination \in KiOwners,
               UserHarvest(i, owner, destination)
        PROVE  ChargeInv'
    <3>1. UNCHANGED <<epoch, stake, taken>> /\ entry' = [entry EXCEPT ![i] = EntryHarvested(i)]
      BY <2>5 DEF UserHarvest
    <3>2. /\ EntryHarvested(i).stake_account = entry[i].stake_account
          /\ EntryHarvested(i).last_commission_charge = entry[i].last_commission_charge
      BY <2>0 DEF EntryHarvested, StakedEntry
    <3> QED BY <2>0, <3>1, <3>2, StakesStayChargeable
  <2>6. ASSUME NEW i \in Entries, NEW owner \in Acting, NEW source \in KiOwners,
               UserLevelUp(i, owner, source)
        PROVE  ChargeInv'
    <3>1. /\ UNCHANGED <<epoch, stake, taken>>
          /\ entry' = [entry EXCEPT ![i] = [entry[i] EXCEPT !.level = entry[i].level + 1]]
      BY <2>6 DEF UserLevelUp
    <3>2. \A j \in Entries : /\ entry'[j].stake_account = entry[j].stake_account
                             /\ entry'[j].last_commission_charge = entry[j].last_commission_charge
      BY <2>0, <3>1 DEF StakedEntry
    <3> QED BY <3>1, <3>2, StakesStayChargeable
  <2>7. ASSUME NEW i \in Entries, NEW signer \in Acting, NEW owner \in Acting,
               NEW to \in NewAuthorities, Reauthorize(i, signer, owner, to)
        PROVE  ChargeInv'
    <3>1. CASE IsStaked(i)
      BY <2>7, <3>1, ReauthorizeChargeable
    <3>2. CASE ~IsStaked(i)
      BY <2>7, <3>2, StakesStayChargeable DEF Reauthorize
    <3> QED BY <3>1, <3>2
  <2> QED BY <2>1, <2>2, <2>3, <2>4, <2>5, <2>6, <2>7, StakeChargeable,
             TakeCommissionChargeable, DestakeChargeable, SplitMasterStakeChargeable,
             MergeAndSplitChargeable, HolderActsChargeable, EpochChargeable DEF Next
<1> QED BY <1>1, ChargeInitHolds, StakingInvHolds, PTL DEF Spec

(***************************************************************************)
(* The commission of an entry with an account of Shinobi Systems can be    *)
(* charged at any time: neither the stake program's minimum delegation nor *)
(* the state of the master stake account ever refuse it.                   *)
(***************************************************************************)
THEOREM RewardsStayChargeable == Spec => []RewardsAreChargeable
<1>1. StakingInv /\ ChargeInv => RewardsAreChargeable
  BY EarningCanBeCharged DEF RewardsAreChargeable
<1> QED BY <1>1, ChargeInvHolds, PTL
=============================================================================
