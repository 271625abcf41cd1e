SPECIFICATION Spec
CONSTANTS
    Instances = {i1, i2}
    Expenses = {e1, e2}
    Amounts = {1, 2}
    NoAmount = NoAmount
    NoExpense = NoExpense
    MaxAudit = 3
INVARIANTS
    AuditIsAChain
