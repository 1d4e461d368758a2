---------------------------- MODULE StakeCustody ----------------------------
(***************************************************************************)
(* What staking promises, without rates of commission, bridge accounts,    *)
(* epochs or Ki: a stake account is held by one person, or is lent to one  *)
(* entry, and a pool can take a part of what it earned while it was lent,  *)
(* of each reward at most once, and nothing of what it was worth before.   *)
(* The pool never goes below its minimum.  The one exception, of which a   *)
(* lender has to know, is Exchange: the owner of the pool can make an      *)
(* account that is lent his own, as a whole.                               *)
(***************************************************************************)
EXTENDS Integers

CONSTANTS
  Stakes,       \* stake accounts, present and future
  People,       \* who can lend a stake account
  Entries,      \* what it can be lent to
  Nobody,       \* holder of an account that does not exist
  Custodian,    \* holder of what is given away to the program
  PoolMinimum

VARIABLES
  holder,   \* of each stake account
  worth,    \* of each stake account
  settled,  \* the part of the worth of a lent account that is not to be charged
  pool

custody == <<holder, worth, settled, pool>>

Init ==
  /\ holder \in [Stakes -> People \cup {Nobody, Custodian}]
  /\ worth \in [Stakes -> Nat]
  /\ settled = [a \in Stakes |-> 0]
  /\ pool = PoolMinimum

Lend(a, i) ==
  /\ holder[a] \in People
  /\ \A b \in Stakes : holder[b] # i
  /\ holder' = [holder EXCEPT ![a] = i]
  /\ settled' = [settled EXCEPT ![a] = worth[a]]
  /\ UNCHANGED <<worth, pool>>

\* A part c of the rewards goes to the pool; the account stays lent, or goes back.
Charge(a) ==
  LET c == pool' - pool
  IN  /\ holder[a] \in Entries
      /\ 0 <= c /\ c <= worth[a] - settled[a]
      /\ worth' = [worth EXCEPT ![a] = worth[a] - c]
      /\ \/ /\ settled' = [settled EXCEPT ![a] = worth[a] - c]
            /\ UNCHANGED holder
         \/ \E p \in People : /\ holder' = [holder EXCEPT ![a] = p]
                              /\ settled' = [settled EXCEPT ![a] = 0]

Earn ==
  /\ worth' \in [Stakes -> Nat] /\ \A a \in Stakes : worth'[a] >= worth[a]
  /\ pool' \in Nat /\ pool' >= pool
  /\ UNCHANGED <<holder, settled>>

\* A new account is filled from the pool.
PayOut(a, p) ==
  LET n == worth'[a]
  IN  /\ holder[a] = Nobody
      /\ n >= 0 /\ pool - n >= PoolMinimum
      /\ holder' = [holder EXCEPT ![a] = p]
      /\ worth' = [worth EXCEPT ![a] = n]
      /\ pool' = pool - n
      /\ UNCHANGED settled

\* The same, after an account b that was given away, or is lent, went into the pool.
Exchange(b, a, p) ==
  LET n == worth'[a]
  IN  /\ holder[b] \in Entries \cup {Custodian} /\ holder[a] = Nobody
      /\ n >= 0 /\ pool + worth[b] - n >= PoolMinimum
      /\ holder' = [holder EXCEPT ![a] = p, ![b] = Nobody]
      /\ worth' = [worth EXCEPT ![a] = n, ![b] = 0]
      /\ pool' = pool + worth[b] - n
      /\ settled' = [settled EXCEPT ![b] = 0]

\* What was given away can be used up, or given to somebody: a part c goes to the pool.
Dispose(a, to) ==
  LET c == pool' - pool
  IN  /\ holder[a] = Custodian
      /\ 0 <= c /\ c <= worth[a]
      /\ worth' = [worth EXCEPT ![a] = worth[a] - c]
      /\ holder' = [holder EXCEPT ![a] = to]
      /\ UNCHANGED settled

HandOver(a, to) ==
  /\ holder[a] \in People
  /\ holder' = [holder EXCEPT ![a] = to]
  /\ UNCHANGED <<worth, settled, pool>>

Next ==
  \/ \E a \in Stakes, i \in Entries : Lend(a, i)
  \/ \E a \in Stakes : Charge(a)
  \/ Earn
  \/ \E a \in Stakes, p \in People : PayOut(a, p)
  \/ \E a, b \in Stakes, p \in People : Exchange(b, a, p)
  \/ \E a \in Stakes, to \in People \cup {Custodian} : HandOver(a, to) \/ Dispose(a, to)

Spec == Init /\ [][Next]_custody
=============================================================================
