--------------------------- MODULE EntryLifecycle ---------------------------
(***************************************************************************)
(* What the sale of a block promises about each of its entries, with no    *)
(* timestamps, counters, prices or accounts.  An entry that is sold before *)
(* its reveal is Escrowed: its price goes to the admin only by the reveal  *)
(* (Settled), or back to the buyer only once the mysteries are no longer   *)
(* sold (Refunded), and never both.  An entry that was added without a     *)
(* commitment (Bare) is never a mystery: it is on sale, with no escrow, as *)
(* soon as the block is complete.  Module BlockSaleProperties shows that   *)
(* the program implements this specification.                              *)
(***************************************************************************)
CONSTANT Entries

VARIABLES
  phase,   \* of the block: entries are added, mysteries are sold, entries are revealed
  status   \* of each entry

Phases == {"Setup", "Mystery", "Reveal"}

Statuses == {"Absent", "Hidden", "Bare", "Escrowed", "Refunded", "OnSale", "Settled"}

TypeOK ==
  /\ phase \in Phases
  /\ status \in [Entries -> Statuses]

Init ==
  /\ phase = "Setup"
  /\ status = [i \in Entries |-> "Absent"]

\* The last entries that are added start the mystery phase, or the reveal
\* phase of a block that has no mysteries.  Those in bare have no commitment.
Add(new, bare) ==
  /\ phase = "Setup"
  /\ \A i \in new : status[i] = "Absent"
  /\ status' = [i \in Entries |-> IF i \in bare THEN "Bare"
                                  ELSE IF i \in new THEN "Hidden" ELSE status[i]]
  /\ phase' \in Phases

\* The last mystery that is sold ends the mystery phase.
SellMystery(i) ==
  /\ phase = "Mystery"
  /\ status[i] = "Hidden"
  /\ status' = [status EXCEPT ![i] = "Escrowed"]
  /\ phase' \in {"Mystery", "Reveal"}

\* Time ends it too.
EndMysteries ==
  /\ phase = "Mystery"
  /\ phase' = "Reveal"
  /\ UNCHANGED status

Refund(i) ==
  /\ phase = "Reveal"
  /\ status[i] = "Escrowed"
  /\ status' = [status EXCEPT ![i] = "Refunded"]
  /\ UNCHANGED phase

Reveal(batch) ==
  /\ phase = "Reveal"
  /\ \A i \in batch : status[i] \in {"Hidden", "Escrowed", "Refunded"}
  /\ status' = [i \in Entries |-> IF i \notin batch THEN status[i]
                                  ELSE IF status[i] = "Hidden" THEN "OnSale" ELSE "Settled"]
  /\ UNCHANGED phase

Sell(i) ==
  /\ phase = "Reveal"
  /\ status[i] = "OnSale"
  /\ status' = [status EXCEPT ![i] = "Settled"]
  /\ UNCHANGED phase

SellBare(i) ==
  /\ phase # "Setup"
  /\ status[i] = "Bare"
  /\ status' = [status EXCEPT ![i] = "Settled"]
  /\ UNCHANGED phase

Next ==
  \/ \E new \in SUBSET Entries : \E bare \in SUBSET new : Add(new, bare)
  \/ \E i \in Entries : SellMystery(i) \/ Refund(i) \/ Sell(i) \/ SellBare(i)
  \/ EndMysteries
  \/ \E batch \in SUBSET Entries : Reveal(batch)

Spec == Init /\ [][Next]_<<phase, status>>
=============================================================================
