------------------------------ MODULE Ledgers ------------------------------
(***************************************************************************)
(* The two documents beside payouts that write the shared ledger: tuition  *)
(* payments and expenses.  They share no row (the ledger is only appended  *)
(* to), so Records moves one of the two in a behaviour.                    *)
(***************************************************************************)
EXTENDS UnitOfWork, Sequences

CONSTANTS Payments, Expenses, Amounts, NoAmount, NoPayment, NoExpense, Nobody,
          MaxAudit         \* bound: audit rows of one document

ASSUME MoneyConstants ==
    /\ Amounts \subseteq Nat /\ NoAmount \notin Amounts
    /\ Nobody \notin Instances
    /\ MaxAudit \in Nat

VARIABLES payment, paymentLedger, paymentAudit, paymentMirror, holder, paymentPc, paymentCmd, paymentRow,
          expense, expenseLedger, expenseAudit, expensePc, expenseCmd, expenseRow

P == INSTANCE PaymentLedger WITH ledger <- paymentLedger, audit <- paymentAudit, mirror <- paymentMirror,
                                 pc <- paymentPc, cmd <- paymentCmd, row <- paymentRow

E == INSTANCE ExpenseLedger WITH ledger <- expenseLedger, audit <- expenseAudit,
                                 pc <- expensePc, cmd <- expenseCmd, row <- expenseRow

paymentVars == <<payment, paymentLedger, paymentAudit, paymentMirror, holder, paymentPc, paymentCmd, paymentRow>>
expenseVars == <<expense, expenseLedger, expenseAudit, expensePc, expenseCmd, expenseRow>>
ledgersVars == <<paymentVars, expenseVars>>

LedgersInit == P!Init /\ E!Init

PaymentsNext == P!Next /\ UNCHANGED expenseVars

ExpensesNext == E!Next /\ UNCHANGED paymentVars

LedgersSpec == LedgersInit /\ [][PaymentsNext \/ ExpensesNext]_ledgersVars

-----------------------------------------------------------------------------
(* update: the audit trail of an invoice's amount has no gap and no        *)
(* overwritten step: each row starts where the last change before it       *)
(* ended, and the last change ends at the amount there is.                 *)
AuditIsAChain == P!AuditIsAChain

(* markPaid, update: what was collected is what the invoice says, even     *)
(* when an amendment ran while the payment was being collected.  approve,  *)
(* withdraw, update: an approved expense is in the ledger exactly once, by *)
(* its amount; no other expense is in the ledger.                          *)
DocumentsMatchLedger == P!CollectedIsBilled /\ E!LedgerMatchesExpenses

(* markPaid, refund, approve: an invoice or an expense enters the ledger   *)
(* at most once and leaves it at most once, by the amount it entered with  *)
(* (MoneyLedger), whatever retries and concurrent commands do.             *)
KeepsTheBooks == P!KeepsTheBooks /\ E!KeepsTheBooks
=============================================================================
