---------------------------- MODULE MoneyLedger ----------------------------
(***************************************************************************)
(* What every money document of the ERP promises of the shared             *)
(* `transactions` ledger, whatever its own workflow looks like.            *)
(*                                                                         *)
(* A document is booked at most once, with one ledger row in its own       *)
(* direction.  A booked document may be compensated at most once, with one *)
(* row of the same amount in the opposite direction; the first row is      *)
(* never touched.  PayoutSettlement, PaymentLedger and ExpenseLedger       *)
(* implement this specification; the refinement mappings are stated there. *)
(***************************************************************************)
EXTENDS Naturals, Sequences

CONSTANTS Docs,          \* the documents that can move money
          Amounts,       \* the amounts a document can be booked with
          BookDir,       \* direction of the booking row: "in" or "out"
          UndoDir        \* direction of the compensating row: the other one

VARIABLES stage,         \* [Docs -> {"open", "booked", "compensated"}]
          ledger         \* the rows of `transactions`, in insertion order

mvars == <<stage, ledger>>

Entry(d, dir, a) == [doc |-> d, direction |-> dir, amount |-> a]

MLInit == /\ stage = [d \in Docs |-> "open"]
          /\ ledger = <<>>

(* Money moves for d, by any amount: payouts.pay, payments.markPaid.       *)
Book(d) ==
    LET new == ledger'[Len(ledger) + 1]
    IN  /\ stage[d] = "open"
        /\ stage' = [stage EXCEPT ![d] = "booked"]
        /\ new.amount \in Amounts
        /\ ledger' = Append(ledger, Entry(d, BookDir, new.amount))

(* The movement is undone: payouts.reverse, payments.refund.  The amount   *)
(* is the one already in the ledger.                                       *)
Compensate(d) ==
    /\ stage[d] = "booked"
    /\ stage' = [stage EXCEPT ![d] = "compensated"]
    /\ \E i \in DOMAIN ledger :
         /\ ledger[i].doc = d
         /\ ledger[i].direction = BookDir
         /\ ledger' = Append(ledger, Entry(d, UndoDir, ledger[i].amount))

MLNext == \E d \in Docs : Book(d) \/ Compensate(d)

MLSpec == MLInit /\ [][MLNext]_mvars
=============================================================================
