--------------------------- MODULE PaymentLedger ---------------------------
(***************************************************************************)
(* Tuition payments (payments.service.ts): an invoice is created, amended, *)
(* collected and refunded.  Collection and refund each write one row of    *)
(* the shared ledger in the transaction that changes the invoice.          *)
(*                                                                         *)
(* A command takes the invoice's advisory lock, reads the row again, and   *)
(* commits through a conditional UPDATE; a refused or lost command rolls   *)
(* back (Abort).  Instances run one command at a time.  Each instance also *)
(* has the invoices in memory as they were when it booted or last wrote    *)
(* them: an amendment without a field answers with that copy.              *)
(***************************************************************************)
EXTENDS Naturals, Sequences

CONSTANTS Instances, Payments,
          Amounts,        \* the amounts invoices are written for
          NoAmount,       \* SQL NULL, or a field the request leaves out
          NoPayment, Nobody,
          MaxAudit        \* bound: audit rows of one payment

VARIABLES payment,        \* payments
          ledger,         \* transactions
          audit,          \* audit rows about a payment's amount, oldest first;
                          \* wrote: the command wrote the amount it reports
          mirror,         \* the amounts in each instance's memory, NoAmount: no row
          holder,         \* advisory lock payment:id
          pc, cmd, row    \* each instance: step, command, row read after the lock

data == <<payment, ledger, audit, mirror>>
vars == <<data, holder, pc, cmd, row>>

Statuses == {"absent", "pending", "paid", "refunded"}

PaymentRows == [status : Statuses, amount : Amounts \cup {NoAmount},
                paidAmount : Amounts \cup {NoAmount}]

NoRow == [status |-> "absent", amount |-> NoAmount, paidAmount |-> NoAmount]
Idle  == [op |-> "none", target |-> NoPayment, amount |-> NoAmount]

Init ==
    /\ payment = [p \in Payments |-> NoRow]
    /\ ledger = <<>>
    /\ audit = [p \in Payments |-> <<>>]
    /\ mirror = [i \in Instances |-> [p \in Payments |-> NoAmount]]
    /\ holder = [p \in Payments |-> Nobody]
    /\ pc = [i \in Instances |-> "idle"]
    /\ cmd = [i \in Instances |-> Idle]
    /\ row = [i \in Instances |-> NoRow]

Audited(p, before, after, wrote) ==
    /\ Len(audit[p]) < MaxAudit
    /\ audit' = [audit EXCEPT ![p] = Append(@, [before |-> before, after |-> after, wrote |-> wrote])]

(* InMemoryDatabase.update: a row that is not in memory stays out of it.   *)
Mirrored(i, p, a) ==
    mirror' = [mirror EXCEPT ![i][p] = IF @ = NoAmount THEN NoAmount ELSE a]

(* onModuleInit: an instance boots with the rows there are.                *)
Boot(i) ==
    /\ pc[i] = "idle"
    /\ mirror' = [mirror EXCEPT ![i] = [p \in Payments |-> payment[p].amount]]
    /\ UNCHANGED <<payment, ledger, audit, holder, pc, cmd, row>>

(* create: nothing else can name the row before it is committed.           *)
Create(i, p, a) ==
    /\ pc[i] = "idle"
    /\ payment[p].status = "absent"
    /\ payment' = [payment EXCEPT ![p] = [status |-> "pending", amount |-> a, paidAmount |-> NoAmount]]
    /\ Audited(p, NoAmount, a, TRUE)
    /\ mirror' = [mirror EXCEPT ![i][p] = a]
    /\ UNCHANGED <<ledger, holder, pc, cmd, row>>

Begin(i, op, p, a) ==
    /\ pc[i] = "idle"
    /\ payment[p].status # "absent"
    /\ pc' = [pc EXCEPT ![i] = "lock"]
    /\ cmd' = [cmd EXCEPT ![i] = [op |-> op, target |-> p, amount |-> a]]
    /\ UNCHANGED <<data, holder, row>>

Target(i) == cmd[i].target

(* Mutant: the advisory lock is not waited for.                            *)
LockWithoutWaiting(i) ==
    /\ pc[i] = "lock"
    /\ holder' = [holder EXCEPT ![Target(i)] = i]
    /\ pc' = [pc EXCEPT ![i] = "read"]
    /\ UNCHANGED <<data, cmd, row>>

Lock(i) ==
    /\ pc[i] = "lock"
    /\ holder[Target(i)] = Nobody
    /\ holder' = [holder EXCEPT ![Target(i)] = i]
    /\ pc' = [pc EXCEPT ![i] = "read"]
    /\ UNCHANGED <<data, cmd, row>>

(* What each command accepts of the row read after the lock.  An amendment *)
(* of a settled invoice may touch the memo only (no amount), or nothing.   *)
(* Mutant: a refunded invoice is refunded again.                           *)
AcceptsRefunded(op, amount, r) ==
    CASE op = "update"        -> amount # NoAmount => r.status = "pending"
      [] op = "updateNothing" -> TRUE
      [] op = "markPaid"      -> r.status = "pending"
      [] op = "refund"        -> r.status \in {"paid", "refunded"}

Accepts(op, amount, r) ==
    CASE op = "update"        -> amount # NoAmount => r.status = "pending"
      [] op = "updateNothing" -> TRUE
      [] op = "markPaid"      -> r.status = "pending"
      [] op = "refund"        -> r.status = "paid"

Read(i) ==
    /\ pc[i] = "read"
    /\ Accepts(cmd[i].op, cmd[i].amount, payment[Target(i)])
    /\ row' = [row EXCEPT ![i] = payment[Target(i)]]
    /\ pc' = [pc EXCEPT ![i] = "commit"]
    /\ UNCHANGED <<data, holder, cmd>>

Finish(i) ==
    /\ holder' = [p \in Payments |-> IF holder[p] = i THEN Nobody ELSE holder[p]]
    /\ pc' = [pc EXCEPT ![i] = "idle"]
    /\ cmd' = [cmd EXCEPT ![i] = Idle]
    /\ row' = [row EXCEPT ![i] = NoRow]

Abort(i) == pc[i] # "idle" /\ Finish(i) /\ UNCHANGED data

Committing(i, op) == cmd[i].op = op /\ pc[i] = "commit"

(* updateIf: the columns that must still have the values that were read.   *)
StillHas(i, columns) == \A c \in columns : payment[Target(i)][c] = row[i][c]

(* The audit row is the difference between the row read and the row saved. *)
Update(i) ==
    /\ Committing(i, "update")
    /\ StillHas(i, {"status"})
    /\ LET new == IF cmd[i].amount = NoAmount THEN payment[Target(i)].amount ELSE cmd[i].amount
       IN  /\ payment' = [payment EXCEPT ![Target(i)].amount = new]
           /\ IF new = row[i].amount THEN UNCHANGED audit
              ELSE Audited(Target(i), row[i].amount, new, TRUE)
           /\ Mirrored(i, Target(i), new)
    /\ Finish(i)
    /\ UNCHANGED ledger

(* update, no field in the body: updateIf has nothing to set and returns   *)
(* the row in memory, if there is one; the audit row reports that as what  *)
(* the command made of the row it read.                                    *)
UpdateNothing(i) ==
    /\ Committing(i, "updateNothing")
    /\ mirror[i][Target(i)] # NoAmount
    /\ IF mirror[i][Target(i)] = row[i].amount THEN UNCHANGED audit
       ELSE Audited(Target(i), row[i].amount, mirror[i][Target(i)], FALSE)
    /\ Finish(i)
    /\ UNCHANGED <<payment, ledger, mirror>>

LedgerRow(p, direction, a) == [doc |-> p, direction |-> direction, amount |-> a]

MarkPaid(i) ==
    /\ Committing(i, "markPaid")
    /\ StillHas(i, {"status", "amount"})
    /\ payment' = [payment EXCEPT ![Target(i)].status = "paid",
                                  ![Target(i)].paidAmount = row[i].amount]
    /\ ledger' = Append(ledger, LedgerRow(Target(i), "in", row[i].amount))
    /\ Mirrored(i, Target(i), payment[Target(i)].amount)
    /\ Finish(i)
    /\ UNCHANGED audit

Refund(i) ==
    /\ Committing(i, "refund")
    /\ StillHas(i, {"status", "paidAmount"})
    /\ payment' = [payment EXCEPT ![Target(i)].status = "refunded"]
    /\ ledger' = Append(ledger, LedgerRow(Target(i), "out", payment[Target(i)].paidAmount))
    /\ Mirrored(i, Target(i), payment[Target(i)].amount)
    /\ Finish(i)
    /\ UNCHANGED audit

BeginAny(i) ==
    \E p \in Payments :
        \/ \E a \in Amounts \cup {NoAmount} : Begin(i, "update", p, a)
        \/ \E op \in {"updateNothing", "markPaid", "refund"} : Begin(i, op, p, NoAmount)

Next == \E i \in Instances :
    \/ \E p \in Payments, a \in Amounts : Create(i, p, a)
    \/ Boot(i) \/ BeginAny(i) \/ Lock(i) \/ Read(i)
    \/ Update(i) \/ UpdateNothing(i) \/ MarkPaid(i) \/ Refund(i) \/ Abort(i)

Spec == Init /\ [][Next]_vars

-----------------------------------------------------------------------------
(* Every variable has its type.                                            *)
TypeOK ==
    /\ payment \in [Payments -> PaymentRows]
    /\ ledger \in Seq([doc : Payments, direction : {"in", "out"}, amount : Amounts])
    /\ audit \in [Payments -> Seq([before : Amounts \cup {NoAmount}, after : Amounts, wrote : BOOLEAN])]
    /\ mirror \in [Instances -> [Payments -> Amounts \cup {NoAmount}]]
    /\ holder \in [Payments -> Instances \cup {Nobody}]
    /\ pc \in [Instances -> {"idle", "lock", "read", "commit"}]
    /\ row \in [Instances -> PaymentRows]

(* markPaid, update: what was collected is what the invoice says, even     *)
(* when an amendment ran while the payment was being collected.            *)
CollectedIsBilled ==
    \A p \in Payments : payment[p].status \in {"paid", "refunded"} =>
        payment[p].paidAmount = payment[p].amount

(* After its first n rows the trail says that the invoice is for a: the    *)
(* last of them that reports a change ends there.                          *)
Tells(trail, n, a) ==
    \E m \in 1..n : /\ trail[m].wrote /\ trail[m].after = a
                    /\ \A k \in (m + 1)..n : ~trail[k].wrote

(* update: the audit trail of an amount has no gap and no overwritten      *)
(* step: each row starts where the last change before it ended, and the    *)
(* last change ends at the invoice's amount, however amendments,           *)
(* collections and amendments of nothing interleave.  What an amendment of *)
(* nothing reports as its outcome is left out: it is the mirror's amount.  *)
AuditIsAChain ==
    \A p \in Payments : payment[p].status # "absent" =>
        /\ Tells(audit[p], Len(audit[p]), payment[p].amount)
        /\ \A n \in 2..Len(audit[p]) : Tells(audit[p], n - 1, audit[p][n].before)

(* Seen from the ledger, and the contract of the ledger it implements.     *)
LedgerStage == [p \in Payments |->
    CASE payment[p].status = "paid"     -> "booked"
      [] payment[p].status = "refunded" -> "compensated"
      [] OTHER                          -> "open"]

Books == INSTANCE MoneyLedger WITH
    Docs <- Payments, BookDir <- "in", UndoDir <- "out", stage <- LedgerStage

(* markPaid, refund: an invoice enters the ledger at most once, and leaves *)
(* it at most once, by the amount it entered with.                         *)
KeepsTheBooks == Books!MLSpec
=============================================================================
