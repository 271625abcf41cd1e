--------------------------- MODULE ExpenseLedger ---------------------------
(***************************************************************************)
(* Expense requests (expenses.service.ts): requested, amended, withdrawn,  *)
(* approved or rejected.  Approval writes the expense into the ledger.     *)
(*                                                                         *)
(* Unlike payments and payouts there is no advisory lock: a command reads  *)
(* the row and commits through UPDATE ... WHERE status = 'requested'.      *)
(***************************************************************************)
EXTENDS Naturals, Sequences

CONSTANTS Instances, Expenses,
          Amounts,        \* the amounts expenses are requested for
          NoAmount,       \* a row not yet created, or a field the request leaves out
          NoExpense,
          MaxAudit        \* bound: audit rows of one expense

VARIABLES expense,        \* expenses
          ledger,         \* transactions
          audit,          \* audit rows about an expense's amount, oldest first
          pc, cmd, row    \* each instance: step, command, row it read

data == <<expense, ledger, audit>>
vars == <<data, pc, cmd, row>>

Statuses == {"absent", "requested", "approved", "rejected"}

ExpenseRows == [status : Statuses, amount : Amounts \cup {NoAmount}, deleted : BOOLEAN]

NoRow == [status |-> "absent", amount |-> NoAmount, deleted |-> FALSE]
Idle  == [op |-> "none", target |-> NoExpense, amount |-> NoAmount]

Init ==
    /\ expense = [e \in Expenses |-> NoRow]
    /\ ledger = <<>>
    /\ audit = [e \in Expenses |-> <<>>]
    /\ pc = [i \in Instances |-> "idle"]
    /\ cmd = [i \in Instances |-> Idle]
    /\ row = [i \in Instances |-> NoRow]

Audited(e, before, after) ==
    /\ Len(audit[e]) < MaxAudit
    /\ audit' = [audit EXCEPT ![e] = Append(@, [before |-> before, after |-> after])]

Create(i, e, a) ==
    /\ pc[i] = "idle"
    /\ expense[e].status = "absent"
    /\ expense' = [expense EXCEPT ![e] = [status |-> "requested", amount |-> a, deleted |-> FALSE]]
    /\ Audited(e, NoAmount, a)
    /\ UNCHANGED <<ledger, pc, cmd, row>>

Begin(i, op, e, a) ==
    /\ pc[i] = "idle"
    /\ expense[e].status # "absent"
    /\ pc' = [pc EXCEPT ![i] = "read"]
    /\ cmd' = [cmd EXCEPT ![i] = [op |-> op, target |-> e, amount |-> a]]
    /\ UNCHANGED <<data, row>>

Target(i) == cmd[i].target

(* getDb and the status check that every command starts with.              *)
Read(i) ==
    /\ pc[i] = "read"
    /\ expense[Target(i)].status = "requested"
    /\ ~expense[Target(i)].deleted
    /\ row' = [row EXCEPT ![i] = expense[Target(i)]]
    /\ pc' = [pc EXCEPT ![i] = "commit"]
    /\ UNCHANGED <<data, cmd>>

Finish(i) ==
    /\ pc' = [pc EXCEPT ![i] = "idle"]
    /\ cmd' = [cmd EXCEPT ![i] = Idle]
    /\ row' = [row EXCEPT ![i] = NoRow]

Abort(i) == pc[i] # "idle" /\ Finish(i) /\ UNCHANGED data

Committing(i, op) == cmd[i].op = op /\ pc[i] = "commit"

(* Mutant: the conditional UPDATE does not look at deleted_at.             *)
StillRequestedOrDeleted(i) == expense[Target(i)].status = "requested"

(* updateIf(status = 'requested') on a row that is not deleted.            *)
StillRequested(i) == expense[Target(i)].status = "requested" /\ ~expense[Target(i)].deleted

(* The audit row is the difference between the row read and the row saved. *)
Update(i) ==
    /\ Committing(i, "update")
    /\ StillRequested(i)
    /\ LET new == IF cmd[i].amount = NoAmount THEN expense[Target(i)].amount ELSE cmd[i].amount
       IN  /\ expense' = [expense EXCEPT ![Target(i)].amount = new]
           /\ IF new = row[i].amount THEN UNCHANGED audit
              ELSE Audited(Target(i), row[i].amount, new)
    /\ Finish(i)
    /\ UNCHANGED ledger

(* The conditional UPDATE that changes nothing keeps approval out until    *)
(* the soft delete is committed.                                           *)
Withdraw(i) ==
    /\ Committing(i, "withdraw")
    /\ StillRequested(i)
    /\ expense' = [expense EXCEPT ![Target(i)].deleted = TRUE]
    /\ Finish(i)
    /\ UNCHANGED <<ledger, audit>>

(* The ledger amount is that of the row the conditional UPDATE returned.   *)
Approve(i) ==
    /\ Committing(i, "approve")
    /\ StillRequested(i)
    /\ expense' = [expense EXCEPT ![Target(i)].status = "approved"]
    /\ ledger' = Append(ledger, [doc |-> Target(i), direction |-> "out",
                                 amount |-> expense[Target(i)].amount])
    /\ Finish(i)
    /\ UNCHANGED audit

Reject(i) ==
    /\ Committing(i, "reject")
    /\ StillRequested(i)
    /\ expense' = [expense EXCEPT ![Target(i)].status = "rejected"]
    /\ Finish(i)
    /\ UNCHANGED <<ledger, audit>>

BeginAny(i) ==
    \E e \in Expenses :
        \/ \E a \in Amounts \cup {NoAmount} : Begin(i, "update", e, a)
        \/ \E op \in {"withdraw", "approve", "reject"} : Begin(i, op, e, NoAmount)

Next == \E i \in Instances :
    \/ \E e \in Expenses, a \in Amounts : Create(i, e, a)
    \/ BeginAny(i) \/ Read(i)
    \/ Update(i) \/ Withdraw(i) \/ Approve(i) \/ Reject(i) \/ Abort(i)

Spec == Init /\ [][Next]_vars

-----------------------------------------------------------------------------
(* Every variable has its type.                                            *)
TypeOK ==
    /\ expense \in [Expenses -> ExpenseRows]
    /\ ledger \in Seq([doc : Expenses, direction : {"in", "out"}, amount : Amounts])
    /\ audit \in [Expenses -> Seq([before : Amounts \cup {NoAmount}, after : Amounts])]
    /\ pc \in [Instances -> {"idle", "read", "commit"}]
    /\ row \in [Instances -> ExpenseRows]

(* approve, withdraw, update: an approved expense is in the ledger exactly *)
(* once, by its amount, and is still there to be looked up; no other       *)
(* expense is in the ledger.                                               *)
LedgerMatchesExpenses ==
    \A e \in Expenses :
        LET rows == {n \in DOMAIN ledger : ledger[n].doc = e}
        IN  IF expense[e].status = "approved"
              THEN /\ ~expense[e].deleted
                   /\ \E n \in rows : rows = {n} /\ ledger[n].amount = expense[e].amount
              ELSE rows = {}

(* expenses.service.ts:96 calls the audit row of an amendment its before / *)
(* after difference: each row would start where the one before it ended.   *)
AuditIsAChain ==
    \A e \in Expenses : \A n \in 2..Len(audit[e]) :
        audit[e][n].before = audit[e][n - 1].after

LedgerStage == [e \in Expenses |->
    IF expense[e].status = "approved" THEN "booked" ELSE "open"]

Books == INSTANCE MoneyLedger WITH
    Docs <- Expenses, BookDir <- "out", UndoDir <- "in", stage <- LedgerStage

(* approve: an expense enters the ledger at most once, whatever retries    *)
(* and concurrent commands do.                                             *)
KeepsTheBooks == Books!MLSpec
=============================================================================
