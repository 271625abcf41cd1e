--------------------------- MODULE LedgersProofs ----------------------------
(* Tuition payments and expenses, for any number of instances, documents,  *)
(* amounts and amendments: each service alone, and then the two beside     *)
(* each other.                                                             *)
EXTENDS Ledgers, TLAPS

-----------------------------------------------------------------------------
(* Payments.                                                               *)
PaymentEntries == [doc : Payments, direction : {"in", "out"}, amount : Amounts]
TrailRows == [before : Amounts \cup {NoAmount}, after : Amounts, wrote : BOOLEAN]
Mirrors == [Instances -> [Payments -> Amounts \cup {NoAmount}]]

PaymentCommands == [op : {"none", "update", "updateNothing", "markPaid", "refund"}, target : Payments \cup {NoPayment},
                    amount : Amounts \cup {NoAmount}]

PaymentsTyped == P!TypeOK /\ paymentCmd \in [Instances -> PaymentCommands]

(* The advisory lock: from its read to its commit a command has its        *)
(* invoice for itself, and the row it read is the row there is.            *)
PaymentFits(i) ==
    /\ paymentPc[i] # "idle" => paymentCmd[i].target \in Payments /\ payment[paymentCmd[i].target].status # "absent"
    /\ paymentPc[i] \in {"read", "commit"} => holder[paymentCmd[i].target] = i
    /\ paymentPc[i] = "commit" => /\ paymentRow[i] = payment[paymentCmd[i].target]
                                  /\ P!Accepts(paymentCmd[i].op, paymentCmd[i].amount, paymentRow[i])

AuditChain(p) ==
    /\ P!Tells(paymentAudit[p], Len(paymentAudit[p]), payment[p].amount)
    /\ \A n \in 2..Len(paymentAudit[p]) : P!Tells(paymentAudit[p], n - 1, paymentAudit[p][n].before)

IsCollected(p) ==
    \E n \in DOMAIN paymentLedger : paymentLedger[n] = P!LedgerRow(p, "in", payment[p].paidAmount)

(* What the row of an invoice says, its audit rows and the ledger confirm. *)
PaymentStory(p) ==
    /\ payment[p].status = "absent" => paymentAudit[p] = <<>>
    /\ payment[p].status # "absent" => payment[p].amount \in Amounts /\ AuditChain(p)
    /\ payment[p].status \in {"paid", "refunded"} => payment[p].paidAmount = payment[p].amount
    /\ payment[p].status = "paid" => IsCollected(p)

PaymentsKept == PaymentsTyped /\ (\A i \in Instances : PaymentFits(i)) /\ (\A p \in Payments : PaymentStory(p))

LEMMA PaymentsInitKept == P!Init => PaymentsKept
<1> SUFFICES ASSUME P!Init PROVE PaymentsKept
  OBVIOUS
<1>1. P!NoRow \in P!PaymentRows /\ P!NoRow.status = "absent"
  BY DEF P!NoRow, P!PaymentRows, P!Statuses
<1>2. P!Idle \in PaymentCommands
  BY DEF P!Idle, PaymentCommands
<1>3. PaymentsTyped
  BY <1>1, <1>2 DEF PaymentsTyped, P!TypeOK, P!Init
<1>4. ASSUME NEW i \in Instances PROVE PaymentFits(i)
  BY DEF P!Init, PaymentFits
<1>5. ASSUME NEW p \in Payments PROVE PaymentStory(p)
  BY <1>1 DEF P!Init, PaymentStory
<1> QED BY <1>3, <1>4, <1>5 DEF PaymentsKept

(* What a trail tells after n rows does not depend on the rows after them. *)
LEMMA TellsMore ==
    ASSUME NEW S, NEW trail \in Seq(S), NEW e \in S, NEW n \in 0 .. Len(trail), NEW a
    PROVE  P!Tells(Append(trail, e), n, a) <=> P!Tells(trail, n, a)
<1>1. \A m \in 1 .. n : Append(trail, e)[m] = trail[m]
  OBVIOUS
<1> QED BY <1>1 DEF P!Tells

(* An audit row is added that starts where the trail ends: of a change, or *)
(* of an amendment of nothing.                                             *)
LEMMA AuditGrows ==
    ASSUME PaymentsTyped, NEW p \in Payments, NEW before \in Amounts \cup {NoAmount}, NEW after \in Amounts,
           NEW wrote \in BOOLEAN, P!Audited(p, before, after, wrote),
           (paymentAudit[p] = <<>> /\ wrote) \/ (AuditChain(p) /\ before = payment[p].amount),
           wrote => payment'[p].amount = after, ~wrote => payment'[p].amount = payment[p].amount
    PROVE  /\ paymentAudit' \in [Payments -> Seq(TrailRows)]
           /\ \A q \in Payments \ {p} : paymentAudit'[q] = paymentAudit[q]
           /\ AuditChain(p)'
<1> DEFINE new == [before |-> before, after |-> after, wrote |-> wrote]
<1> DEFINE old == paymentAudit[p]
<1>1. old \in Seq(TrailRows) /\ paymentAudit \in [Payments -> Seq(TrailRows)]
  BY DEF PaymentsTyped, P!TypeOK, TrailRows
<1>2. new \in TrailRows /\ new.before = before /\ new.after = after /\ new.wrote = wrote
  BY DEF TrailRows
<1>3. paymentAudit' = [paymentAudit EXCEPT ![p] = Append(old, new)]
  BY DEF P!Audited
<1> HIDE DEF new
<1>4. paymentAudit'[p] = Append(old, new)
  BY <1>1, <1>3
<1>5. /\ Len(paymentAudit'[p]) = Len(old) + 1 /\ Len(old) \in Nat
      /\ paymentAudit'[p][Len(old) + 1] = new
      /\ \A n \in 1 .. Len(old) : paymentAudit'[p][n] = old[n]
  BY <1>1, <1>2, <1>4
<1>6. Append(old, new) \in Seq(TrailRows)
  BY <1>1, <1>2
<1>7. paymentAudit' \in [Payments -> Seq(TrailRows)] /\ \A q \in Payments \ {p} : paymentAudit'[q] = paymentAudit[q]
  BY <1>1, <1>3, <1>6
<1>8. \A a : \A n \in 0 .. Len(old) : P!Tells(paymentAudit'[p], n, a) <=> P!Tells(old, n, a)
  BY <1>1, <1>2, <1>4, TellsMore
<1>9. old # <<>> => AuditChain(p) /\ before = payment[p].amount
  OBVIOUS
<1>10. ASSUME NEW n \in 2 .. Len(paymentAudit'[p])
       PROVE  P!Tells(paymentAudit'[p], n - 1, paymentAudit'[p][n].before)
  <2>1. old # <<>> /\ n - 1 \in 0 .. Len(old)
    BY <1>1, <1>5, <1>10
  <2>2. CASE n = Len(old) + 1
    <3>1. P!Tells(old, Len(old), before) /\ n - 1 = Len(old)
      BY <1>5, <1>9, <2>1, <2>2 DEF AuditChain
    <3> QED BY <1>2, <1>5, <1>8, <2>1, <2>2, <3>1
  <2>3. CASE n # Len(old) + 1
    <3>1. n \in 2 .. Len(old) /\ n \in 1 .. Len(old)
      BY <1>5, <1>10, <2>3
    <3> QED BY <1>5, <1>8, <1>9, <2>1, <3>1 DEF AuditChain
  <2> QED BY <2>2, <2>3
<1>11. P!Tells(paymentAudit'[p], Len(paymentAudit'[p]), payment'[p].amount)
  <2>1. CASE wrote
    <3> DEFINE m == Len(old) + 1
    <3>1. m \in 1 .. Len(paymentAudit'[p]) /\ \A k \in (m + 1) .. Len(paymentAudit'[p]) : FALSE
      BY <1>5
    <3>2. paymentAudit'[p][m].wrote /\ paymentAudit'[p][m].after = payment'[p].amount
      BY <1>2, <1>5, <2>1
    <3> HIDE DEF m, old
    <3> QED BY <3>1, <3>2 DEF P!Tells
  <2>2. CASE ~wrote
    <3>1. P!Tells(old, Len(old), payment[p].amount) /\ Len(old) \in 0 .. Len(old)
      BY <1>5, <1>9, <2>2 DEF AuditChain
    <3>2. P!Tells(paymentAudit'[p], Len(old), payment[p].amount)
      BY <1>8, <3>1
    <3>3. PICK m \in 1 .. Len(old) : /\ paymentAudit'[p][m].wrote /\ paymentAudit'[p][m].after = payment[p].amount
                                     /\ \A k \in (m + 1) .. Len(old) : ~paymentAudit'[p][k].wrote
      BY <3>2 DEF P!Tells
    <3>4. \A k \in (m + 1) .. Len(paymentAudit'[p]) : ~paymentAudit'[p][k].wrote
      BY <1>2, <1>5, <2>2, <3>3
    <3>5. m \in 1 .. Len(paymentAudit'[p]) /\ payment'[p].amount = payment[p].amount
      BY <1>5, <2>2, <3>3
    <3> QED BY <3>3, <3>4, <3>5 DEF P!Tells
  <2> QED BY <2>1, <2>2
<1> QED BY <1>7, <1>10, <1>11 DEF AuditChain

(* Writing a row of one instance's memory.                                 *)
LEMMA MirroredTyped ==
    ASSUME PaymentsTyped, NEW i \in Instances, NEW p \in Payments, NEW a \in Amounts \cup {NoAmount},
           P!Mirrored(i, p, a)
    PROVE  paymentMirror' \in Mirrors
BY DEF PaymentsTyped, P!TypeOK, P!Mirrored, Mirrors

(* The commit of i: nobody else is reading the invoice of i.               *)
LEMMA PaymentCommitFits ==
    ASSUME PaymentsKept, Nobody \notin Instances, NEW i \in Instances, paymentPc[i] = "commit", P!Finish(i),
           \A p \in Payments \ {paymentCmd[i].target} : payment'[p] = payment[p],
           payment'[paymentCmd[i].target].status # "absent"
    PROVE  \A j \in Instances : PaymentFits(j)'
<1> DEFINE t == paymentCmd[i].target
<1>1. t \in Payments /\ holder[t] = i
  BY DEF PaymentsKept, PaymentFits
<1>2. /\ paymentPc' = [paymentPc EXCEPT ![i] = "idle"] /\ paymentCmd' = [paymentCmd EXCEPT ![i] = P!Idle]
      /\ paymentRow' = [paymentRow EXCEPT ![i] = P!NoRow]
      /\ holder' = [p \in Payments |-> IF holder[p] = i THEN Nobody ELSE holder[p]]
  BY DEF P!Finish
<1> SUFFICES ASSUME NEW j \in Instances PROVE PaymentFits(j)'
  OBVIOUS
<1>3. CASE j = i
  <2>1. paymentPc'[j] = "idle"
    BY <1>2, <1>3 DEF PaymentsKept, PaymentsTyped, P!TypeOK
  <2> QED BY <2>1 DEF PaymentFits
<1>4. CASE j # i
  <2>1. paymentPc'[j] = paymentPc[j] /\ paymentCmd'[j] = paymentCmd[j] /\ paymentRow'[j] = paymentRow[j]
    BY <1>2, <1>4 DEF PaymentsKept, PaymentsTyped, P!TypeOK
  <2>2. PaymentFits(j)
    BY DEF PaymentsKept
  <2>3. paymentPc[j] # "idle" => payment'[paymentCmd[j].target].status # "absent"
    BY <2>2 DEF PaymentFits
  <2>4. paymentPc[j] \in {"read", "commit"} => paymentCmd[j].target # t /\ holder'[paymentCmd[j].target] = j
    BY <1>1, <1>2, <1>4, <2>2 DEF PaymentFits
  <2>5. paymentPc[j] = "commit" => payment'[paymentCmd[j].target] = payment[paymentCmd[j].target]
    BY <2>2, <2>4 DEF PaymentFits
  <2> QED BY <2>1, <2>2, <2>3, <2>4, <2>5 DEF PaymentFits
<1> QED BY <1>3, <1>4

LEMMA PaymentFinishTyped ==
    ASSUME PaymentsTyped, NEW i \in Instances, P!Finish(i), payment' \in [Payments -> P!PaymentRows],
           paymentLedger' \in Seq(PaymentEntries), paymentAudit' \in [Payments -> Seq(TrailRows)],
           paymentMirror' \in Mirrors
    PROVE  PaymentsTyped'
<1>1. P!Idle \in PaymentCommands /\ P!NoRow \in P!PaymentRows
  BY DEF P!Idle, PaymentCommands, P!NoRow, P!PaymentRows, P!Statuses
<1> QED BY <1>1 DEF PaymentsTyped, P!TypeOK, P!Finish, PaymentEntries, TrailRows, Mirrors

(* A new ledger row leaves the old ones in place.                          *)
LEMMA PaymentEntered ==
    ASSUME PaymentsTyped, NEW e \in PaymentEntries, paymentLedger' = Append(paymentLedger, e)
    PROVE  /\ paymentLedger' \in Seq(PaymentEntries)
           /\ DOMAIN paymentLedger \subseteq DOMAIN paymentLedger'
           /\ \A n \in DOMAIN paymentLedger : paymentLedger'[n] = paymentLedger[n]
           /\ Len(paymentLedger) + 1 \in DOMAIN paymentLedger' /\ paymentLedger'[Len(paymentLedger) + 1] = e
BY DEF PaymentsTyped, P!TypeOK, PaymentEntries

LEMMA OtherStories ==
    ASSUME NEW p \in Payments, PaymentStory(p), payment'[p] = payment[p], paymentAudit'[p] = paymentAudit[p],
           DOMAIN paymentLedger \subseteq DOMAIN paymentLedger', \A n \in DOMAIN paymentLedger : paymentLedger'[n] = paymentLedger[n]
    PROVE  PaymentStory(p)'
BY DEF PaymentStory, AuditChain, IsCollected

LEMMA PaymentCreateKept ==
    ASSUME PaymentsKept, NEW i \in Instances, NEW p \in Payments, NEW a \in Amounts, P!Create(i, p, a)
    PROVE  PaymentsKept'
<1> USE DEF PaymentsKept
<1> DEFINE new == [status |-> "pending", amount |-> a, paidAmount |-> NoAmount]
<1>1. /\ payment[p].status = "absent" /\ payment' = [payment EXCEPT ![p] = new]
      /\ P!Audited(p, NoAmount, a, TRUE) /\ paymentMirror' = [paymentMirror EXCEPT ![i][p] = a]
      /\ UNCHANGED <<paymentLedger, holder, paymentPc, paymentCmd, paymentRow>>
  BY DEF P!Create
<1>2. new \in P!PaymentRows /\ new.status = "pending" /\ new.amount = a
  BY DEF P!PaymentRows, P!Statuses
<1> HIDE DEF new
<1>3. /\ payment' \in [Payments -> P!PaymentRows] /\ payment'[p] = new
      /\ \A q \in Payments \ {p} : payment'[q] = payment[q]
  BY <1>1, <1>2 DEF PaymentsTyped, P!TypeOK
<1>4. paymentAudit[p] = <<>>
  BY <1>1 DEF PaymentStory
<1>5. /\ paymentAudit' \in [Payments -> Seq(TrailRows)] /\ AuditChain(p)'
      /\ \A q \in Payments \ {p} : paymentAudit'[q] = paymentAudit[q]
  <2>1. PaymentsTyped /\ NoAmount \in Amounts \cup {NoAmount} /\ payment'[p].amount = a
    BY <1>2, <1>3
  <2>2. P!Audited(p, NoAmount, a, TRUE)
    BY <1>1
  <2>3. paymentAudit[p] = <<>>
    BY <1>4
  <2> HIDE DEF PaymentsKept
  <2> QED BY <2>1, <2>2, <2>3, AuditGrows
<1>6. PaymentsTyped'
  BY <1>1, <1>3, <1>5 DEF PaymentsTyped, P!TypeOK, TrailRows
<1>7. ASSUME NEW j \in Instances PROVE PaymentFits(j)'
  <2>1. PaymentFits(j)
    OBVIOUS
  <2>2. paymentPc[j] # "idle" => paymentCmd[j].target # p
    BY <1>1, <2>1 DEF PaymentFits
  <2> QED BY <1>1, <1>3, <2>1, <2>2 DEF PaymentFits
<1>8. ASSUME NEW q \in Payments PROVE PaymentStory(q)'
  <2>1. CASE q = p
    BY <1>2, <1>3, <1>5, <2>1 DEF PaymentStory
  <2>2. CASE q # p
    BY <1>1, <1>3, <1>5, <2>2, OtherStories
  <2> QED BY <2>1, <2>2
<1> QED BY <1>6, <1>7, <1>8

LEMMA PaymentQuietKept ==
    ASSUME PaymentsKept, Nobody \notin Instances, NEW i \in Instances,
           P!Boot(i) \/ P!BeginAny(i) \/ P!Lock(i) \/ P!Read(i) \/ P!Abort(i)
    PROVE  PaymentsKept'
<1> USE DEF PaymentsKept
<1>1. UNCHANGED <<payment, paymentLedger, paymentAudit>>
  BY DEF P!Boot, P!BeginAny, P!Begin, P!Lock, P!Read, P!Abort, P!data
<1>2. \A p \in Payments : PaymentStory(p)'
  BY <1>1, OtherStories
<1>7. ~P!Boot(i) => UNCHANGED paymentMirror
  BY DEF P!BeginAny, P!Begin, P!Lock, P!Read, P!Abort, P!data
<1>8. CASE P!Boot(i)
  <2>1. /\ paymentMirror' = [paymentMirror EXCEPT ![i] = [p \in Payments |-> payment[p].amount]]
        /\ UNCHANGED <<holder, paymentPc, paymentCmd, paymentRow>>
    BY <1>8 DEF P!Boot
  <2>2. \A p \in Payments : payment[p].amount \in Amounts \cup {NoAmount}
    BY DEF PaymentsTyped, P!TypeOK, P!PaymentRows
  <2>3. paymentMirror' \in Mirrors
    BY <2>1, <2>2 DEF PaymentsTyped, P!TypeOK, Mirrors
  <2>4. PaymentsTyped'
    BY <1>1, <2>1, <2>3 DEF PaymentsTyped, P!TypeOK, Mirrors
  <2>5. \A j \in Instances : PaymentFits(j)'
    BY <1>1, <2>1 DEF PaymentFits
  <2> QED BY <1>2, <2>4, <2>5
<1>3. CASE P!BeginAny(i)
  <2>1. PICK p \in Payments, op \in {"update", "updateNothing", "markPaid", "refund"}, a \in Amounts \cup {NoAmount} :
            P!Begin(i, op, p, a)
    BY <1>3 DEF P!BeginAny
  <2>2. [op |-> op, target |-> p, amount |-> a] \in PaymentCommands
    BY DEF PaymentCommands
  <2>3. /\ UNCHANGED paymentMirror /\ paymentPc' = [paymentPc EXCEPT ![i] = "lock"]
        /\ paymentCmd' = [paymentCmd EXCEPT ![i] = [op |-> op, target |-> p, amount |-> a]]
        /\ UNCHANGED <<holder, paymentRow>> /\ payment[p].status # "absent"
    BY <2>1 DEF P!Begin, P!data
  <2>4. PaymentsTyped'
    BY <1>1, <2>2, <2>3 DEF PaymentsTyped, P!TypeOK
  <2>5. /\ paymentPc'[i] = "lock" /\ paymentCmd'[i].target = p
        /\ \A j \in Instances \ {i} : paymentPc'[j] = paymentPc[j] /\ paymentCmd'[j] = paymentCmd[j]
    BY <2>3 DEF PaymentsTyped, P!TypeOK
  <2>6. \A j \in Instances : PaymentFits(j)'
    BY <1>1, <2>3, <2>5 DEF PaymentFits
  <2> QED BY <1>2, <2>4, <2>6
<1>4. CASE P!Lock(i)
  <2>1. /\ paymentPc[i] = "lock" /\ holder[P!Target(i)] = Nobody
        /\ holder' = [holder EXCEPT ![P!Target(i)] = i] /\ paymentPc' = [paymentPc EXCEPT ![i] = "read"]
        /\ UNCHANGED <<paymentCmd, paymentRow, paymentMirror>>
    BY <1>4 DEF P!Lock, P!data
  <2>2. P!Target(i) = paymentCmd[i].target /\ P!Target(i) \in Payments
    BY <2>1 DEF PaymentFits, P!Target
  <2>3. PaymentsTyped'
    BY <1>1, <2>1, <2>2 DEF PaymentsTyped, P!TypeOK
  <2>4. /\ paymentPc'[i] = "read" /\ holder'[P!Target(i)] = i
        /\ \A j \in Instances \ {i} : paymentPc'[j] = paymentPc[j]
        /\ \A p \in Payments \ {P!Target(i)} : holder'[p] = holder[p]
    BY <2>1, <2>2 DEF PaymentsTyped, P!TypeOK
  <2>5. ASSUME NEW j \in Instances PROVE PaymentFits(j)'
    <3>1. PaymentFits(j) /\ PaymentFits(i)
      OBVIOUS
    <3>2. CASE j = i
      BY <1>1, <2>1, <2>2, <2>4, <3>1, <3>2 DEF PaymentFits
    <3>3. CASE j # i
      <4>1. paymentPc[j] \in {"read", "commit"} => paymentCmd[j].target # P!Target(i) /\ paymentCmd[j].target \in Payments
        BY <2>1, <3>1 DEF PaymentFits
      <4> QED BY <1>1, <2>1, <2>4, <3>1, <3>3, <4>1 DEF PaymentFits
    <3> QED BY <3>2, <3>3
  <2> QED BY <1>2, <2>3, <2>5
<1>5. CASE P!Read(i)
  <2>1. /\ paymentPc[i] = "read" /\ P!Accepts(paymentCmd[i].op, paymentCmd[i].amount, payment[P!Target(i)])
        /\ paymentRow' = [paymentRow EXCEPT ![i] = payment[P!Target(i)]] /\ paymentPc' = [paymentPc EXCEPT ![i] = "commit"]
        /\ UNCHANGED <<holder, paymentCmd, paymentMirror>>
    BY <1>5 DEF P!Read, P!data
  <2>2. P!Target(i) = paymentCmd[i].target /\ P!Target(i) \in Payments
    BY <2>1 DEF PaymentFits, P!Target
  <2>3. PaymentsTyped'
    BY <1>1, <2>1, <2>2 DEF PaymentsTyped, P!TypeOK
  <2>4. /\ paymentPc'[i] = "commit" /\ paymentRow'[i] = payment[P!Target(i)]
        /\ \A j \in Instances \ {i} : paymentPc'[j] = paymentPc[j] /\ paymentRow'[j] = paymentRow[j]
    BY <2>1, <2>2 DEF PaymentsTyped, P!TypeOK
  <2>5. \A j \in Instances : PaymentFits(j)'
    BY <1>1, <2>1, <2>2, <2>4 DEF PaymentFits
  <2> QED BY <1>2, <2>3, <2>5
<1>6. CASE P!Abort(i)
  <2>1. P!Finish(i) /\ UNCHANGED paymentMirror
    BY <1>6 DEF P!Abort, P!data
  <2>2. PaymentsTyped'
    BY <1>1, <2>1, PaymentFinishTyped DEF PaymentsTyped, P!TypeOK, PaymentEntries, TrailRows, Mirrors
  <2>3. /\ paymentPc'[i] = "idle"
        /\ \A j \in Instances \ {i} : paymentPc'[j] = paymentPc[j] /\ paymentCmd'[j] = paymentCmd[j] /\ paymentRow'[j] = paymentRow[j]
        /\ \A p \in Payments : holder[p] # i => holder'[p] = holder[p]
    BY <2>1 DEF P!Finish, PaymentsTyped, P!TypeOK
  <2>4. \A j \in Instances : PaymentFits(j)'
    BY <1>1, <2>3 DEF PaymentFits
  <2> QED BY <1>2, <2>2, <2>4
<1> QED BY <1>3, <1>4, <1>5, <1>6, <1>8

(* The commits.                                                            *)
LEMMA PaymentUpdateKept ==
    ASSUME PaymentsKept, Nobody \notin Instances, NEW i \in Instances, P!Update(i)
    PROVE  PaymentsKept'
<1>0. PICK t \in Payments : t = paymentCmd[i].target
  BY DEF PaymentsKept, PaymentFits, P!Update, P!Committing
<1> DEFINE new == IF paymentCmd[i].amount = NoAmount THEN payment[t].amount ELSE paymentCmd[i].amount
<1>1. paymentPc[i] = "commit" /\ paymentCmd[i].op = "update" /\ P!Finish(i) /\ UNCHANGED paymentLedger
  BY DEF P!Update, P!Committing
<1>2. /\ t \in Payments /\ payment[t].status # "absent" /\ paymentRow[i] = payment[t]
      /\ paymentCmd[i].amount # NoAmount => payment[t].status = "pending"
  BY <1>0, <1>1 DEF PaymentsKept, PaymentFits, P!Accepts
<1>3. /\ payment' = [payment EXCEPT ![t].amount = new]
      /\ IF new = payment[t].amount THEN UNCHANGED paymentAudit ELSE P!Audited(t, payment[t].amount, new, TRUE)
      /\ P!Mirrored(i, t, new)
  BY <1>0, <1>2 DEF P!Update, P!Target
<1>4. PaymentStory(t) /\ payment[t] \in P!PaymentRows /\ paymentCmd[i] \in PaymentCommands
  BY <1>2 DEF PaymentsKept, PaymentsTyped, P!TypeOK
<1>5. new \in Amounts /\ (payment[t].status # "pending" => new = payment[t].amount)
  BY <1>2, <1>4 DEF PaymentStory, PaymentCommands
<1> HIDE DEF new
<1>6. /\ payment'[t] = [payment[t] EXCEPT !.amount = new]
      /\ \A p \in Payments \ {t} : payment'[p] = payment[p]
      /\ DOMAIN payment' = Payments /\ payment' = [p \in Payments |-> payment'[p]]
  BY <1>2, <1>3 DEF PaymentsKept, PaymentsTyped, P!TypeOK
<1>7. /\ payment'[t] \in P!PaymentRows /\ payment'[t].status = payment[t].status
      /\ payment'[t].amount = new /\ payment'[t].paidAmount = payment[t].paidAmount
  BY <1>4, <1>5, <1>6 DEF P!PaymentRows
<1>8. payment' \in [Payments -> P!PaymentRows]
  BY <1>6, <1>7 DEF PaymentsKept, PaymentsTyped, P!TypeOK
<1>9. /\ paymentAudit' \in [Payments -> Seq(TrailRows)] /\ AuditChain(t)'
      /\ \A p \in Payments \ {t} : paymentAudit'[p] = paymentAudit[p]
  <2>1. CASE new = payment[t].amount
    BY <1>2, <1>3, <1>4, <1>7, <2>1 DEF PaymentsKept, PaymentsTyped, P!TypeOK, TrailRows, PaymentStory, AuditChain
  <2>2. CASE new # payment[t].amount
    <3>1. /\ PaymentsTyped /\ payment[t].amount \in Amounts \cup {NoAmount}
          /\ P!Audited(t, payment[t].amount, new, TRUE) /\ AuditChain(t)
      BY <1>2, <1>3, <1>4, <2>2 DEF PaymentsKept, PaymentStory
    <3> QED BY <1>2, <1>5, <1>7, <3>1, AuditGrows
  <2> QED BY <2>1, <2>2
<1>10. PaymentsTyped'
  <2>1. paymentMirror' \in Mirrors
    BY <1>2, <1>3, <1>5, MirroredTyped DEF PaymentsKept
  <2> QED BY <1>1, <1>8, <1>9, <2>1, PaymentFinishTyped DEF PaymentsKept, PaymentsTyped, P!TypeOK, PaymentEntries
<1>11. \A j \in Instances : PaymentFits(j)'
  BY <1>0, <1>1, <1>2, <1>6, <1>7, PaymentCommitFits
<1>12. ASSUME NEW p \in Payments PROVE PaymentStory(p)'
  <2>1. CASE p = t
    <3>1. payment[t].status = "paid" => IsCollected(t)'
      BY <1>1, <1>4, <1>7 DEF PaymentStory, IsCollected
    <3> QED BY <1>2, <1>4, <1>5, <1>7, <1>9, <2>1, <3>1 DEF PaymentStory, P!PaymentRows, P!Statuses
  <2>2. CASE p # t
    BY <1>1, <1>6, <1>9, <2>2, OtherStories DEF PaymentsKept
  <2> QED BY <2>1, <2>2
<1> QED BY <1>10, <1>11, <1>12 DEF PaymentsKept

LEMMA PaymentUpdateNothingKept ==
    ASSUME PaymentsKept, Nobody \notin Instances, NEW i \in Instances, P!UpdateNothing(i)
    PROVE  PaymentsKept'
<1>0. PICK t \in Payments : t = paymentCmd[i].target
  BY DEF PaymentsKept, PaymentFits, P!UpdateNothing, P!Committing
<1>1. /\ paymentPc[i] = "commit" /\ P!Finish(i) /\ UNCHANGED <<payment, paymentLedger, paymentMirror>>
      /\ paymentMirror[i][t] # NoAmount
  BY <1>0 DEF P!UpdateNothing, P!Committing, P!Target
<1>2. payment[t].status # "absent" /\ paymentRow[i] = payment[t] /\ PaymentStory(t)
  BY <1>0, <1>1 DEF PaymentsKept, PaymentFits
<1>3. IF paymentMirror[i][t] = payment[t].amount THEN UNCHANGED paymentAudit
      ELSE P!Audited(t, payment[t].amount, paymentMirror[i][t], FALSE)
  BY <1>0, <1>2 DEF P!UpdateNothing, P!Target
<1>4. /\ paymentAudit' \in [Payments -> Seq(TrailRows)] /\ AuditChain(t)'
      /\ \A p \in Payments \ {t} : paymentAudit'[p] = paymentAudit[p]
  <2>1. CASE paymentMirror[i][t] = payment[t].amount
    BY <1>1, <1>2, <1>3, <2>1 DEF PaymentsKept, PaymentsTyped, P!TypeOK, TrailRows, PaymentStory, AuditChain
  <2>2. CASE paymentMirror[i][t] # payment[t].amount
    <3>1. P!Audited(t, payment[t].amount, paymentMirror[i][t], FALSE)
      BY <1>3, <2>2
    <3>2. payment[t].amount \in Amounts \cup {NoAmount} /\ AuditChain(t) /\ payment'[t].amount = payment[t].amount
      BY <1>1, <1>2 DEF PaymentStory
    <3>3. PaymentsTyped
      BY DEF PaymentsKept
    <3>4. paymentMirror \in [Instances -> [Payments -> Amounts \cup {NoAmount}]]
      BY <3>3 DEF PaymentsTyped, P!TypeOK
    <3>5. paymentMirror[i][t] \in Amounts
      BY <1>1, <3>4
    <3> QED BY <3>1, <3>2, <3>3, <3>5, AuditGrows
  <2> QED BY <2>1, <2>2
<1>5. PaymentsTyped'
  BY <1>1, <1>4, PaymentFinishTyped DEF PaymentsKept, PaymentsTyped, P!TypeOK, PaymentEntries, Mirrors
<1>6. \A j \in Instances : PaymentFits(j)'
  BY <1>0, <1>1, <1>2, PaymentCommitFits
<1>7. PaymentStory(t)'
  BY <1>1, <1>2, <1>4 DEF PaymentStory, IsCollected
<1>8. ASSUME NEW p \in Payments \ {t} PROVE PaymentStory(p)'
  BY <1>1, <1>4, OtherStories DEF PaymentsKept
<1> QED BY <1>5, <1>6, <1>7, <1>8 DEF PaymentsKept

(* What a command that moves money finds, and what it writes.              *)
LEMMA MarkPaidWrites ==
    ASSUME PaymentsKept, NEW i \in Instances, P!MarkPaid(i)
    PROVE  \E t \in Payments :
             /\ t = paymentCmd[i].target /\ payment[t].status = "pending" /\ payment[t].amount \in Amounts
             /\ paymentPc[i] = "commit" /\ P!Finish(i) /\ UNCHANGED paymentAudit
             /\ paymentMirror' \in Mirrors
             /\ payment' \in [Payments -> P!PaymentRows]
             /\ payment'[t] = [status |-> "paid", amount |-> payment[t].amount,
                               paidAmount |-> payment[t].amount]
             /\ \A p \in Payments \ {t} : payment'[p] = payment[p]
             /\ paymentLedger' = Append(paymentLedger, P!LedgerRow(t, "in", payment[t].amount))
<1> DEFINE t == paymentCmd[i].target
<1>1. paymentPc[i] = "commit" /\ paymentCmd[i].op = "markPaid" /\ P!Finish(i) /\ UNCHANGED paymentAudit
  BY DEF P!MarkPaid, P!Committing
<1>2. t \in Payments /\ paymentRow[i] = payment[t] /\ payment[t].status = "pending"
  BY <1>1 DEF PaymentsKept, PaymentFits, P!Accepts
<1>3. payment[t] \in P!PaymentRows /\ payment[t].amount \in Amounts
  BY <1>2 DEF PaymentsKept, PaymentsTyped, P!TypeOK, PaymentStory
<1>4. /\ payment' = [payment EXCEPT ![t].status = "paid", ![t].paidAmount = payment[t].amount]
      /\ paymentLedger' = Append(paymentLedger, P!LedgerRow(t, "in", payment[t].amount))
  BY <1>2 DEF P!MarkPaid, P!Target
<1>5. payment'[t] = [status |-> "paid", amount |-> payment[t].amount,
                     paidAmount |-> payment[t].amount]
  BY <1>2, <1>3, <1>4 DEF PaymentsKept, PaymentsTyped, P!TypeOK, P!PaymentRows
<1>6. /\ \A p \in Payments \ {t} : payment'[p] = payment[p]
      /\ payment' = [p \in Payments |-> payment'[p]]
  BY <1>2, <1>4 DEF PaymentsKept, PaymentsTyped, P!TypeOK
<1>7. payment'[t] \in P!PaymentRows
  BY <1>3, <1>5 DEF P!PaymentRows, P!Statuses
<1>8. payment' \in [Payments -> P!PaymentRows]
  BY <1>6, <1>7 DEF PaymentsKept, PaymentsTyped, P!TypeOK
<1>9. paymentMirror' \in Mirrors
  BY <1>2, <1>3, MirroredTyped DEF PaymentsKept, P!MarkPaid, P!Refund, P!Target
<1> QED BY <1>1, <1>2, <1>3, <1>4, <1>5, <1>6, <1>8, <1>9

LEMMA RefundWrites ==
    ASSUME PaymentsKept, NEW i \in Instances, P!Refund(i)
    PROVE  \E t \in Payments :
             /\ t = paymentCmd[i].target /\ payment[t].status = "paid" /\ payment[t].amount \in Amounts
             /\ paymentPc[i] = "commit" /\ P!Finish(i) /\ UNCHANGED paymentAudit
             /\ paymentMirror' \in Mirrors
             /\ payment' \in [Payments -> P!PaymentRows]
             /\ payment'[t] = [status |-> "refunded", amount |-> payment[t].amount,
                               paidAmount |-> payment[t].amount]
             /\ \A p \in Payments \ {t} : payment'[p] = payment[p]
             /\ paymentLedger' = Append(paymentLedger, P!LedgerRow(t, "out", payment[t].amount))
<1> DEFINE t == paymentCmd[i].target
<1>1. paymentPc[i] = "commit" /\ paymentCmd[i].op = "refund" /\ P!Finish(i) /\ UNCHANGED paymentAudit
  BY DEF P!Refund, P!Committing
<1>2. t \in Payments /\ paymentRow[i] = payment[t] /\ payment[t].status = "paid"
  BY <1>1 DEF PaymentsKept, PaymentFits, P!Accepts
<1>3. /\ payment[t] \in P!PaymentRows /\ payment[t].amount \in Amounts
      /\ payment[t].paidAmount = payment[t].amount
  BY <1>2 DEF PaymentsKept, PaymentsTyped, P!TypeOK, PaymentStory
<1>4. /\ payment' = [payment EXCEPT ![t].status = "refunded"]
      /\ paymentLedger' = Append(paymentLedger, P!LedgerRow(t, "out", payment[t].amount))
  BY <1>3 DEF P!Refund, P!Target
<1>5. payment'[t] = [status |-> "refunded", amount |-> payment[t].amount,
                     paidAmount |-> payment[t].amount]
  BY <1>2, <1>3, <1>4 DEF PaymentsKept, PaymentsTyped, P!TypeOK, P!PaymentRows
<1>6. /\ \A p \in Payments \ {t} : payment'[p] = payment[p]
      /\ payment' = [p \in Payments |-> payment'[p]]
  BY <1>2, <1>4 DEF PaymentsKept, PaymentsTyped, P!TypeOK
<1>7. payment'[t] \in P!PaymentRows
  BY <1>3, <1>5 DEF P!PaymentRows, P!Statuses
<1>8. payment' \in [Payments -> P!PaymentRows]
  BY <1>6, <1>7 DEF PaymentsKept, PaymentsTyped, P!TypeOK
<1>9. paymentMirror' \in Mirrors
  BY <1>2, <1>3, MirroredTyped DEF PaymentsKept, P!MarkPaid, P!Refund, P!Target
<1> QED BY <1>1, <1>2, <1>3, <1>4, <1>5, <1>6, <1>8, <1>9

LEMMA PaymentEntryTypes ==
    ASSUME NEW p \in Payments, NEW side \in {"in", "out"}, NEW a \in Amounts
    PROVE  P!LedgerRow(p, side, a) \in PaymentEntries
BY DEF P!LedgerRow, PaymentEntries

LEMMA MarkPaidKept ==
    ASSUME PaymentsKept, Nobody \notin Instances, NEW i \in Instances, P!MarkPaid(i)
    PROVE  PaymentsKept'
<1>1. PICK t \in Payments :
             /\ t = paymentCmd[i].target /\ payment[t].status = "pending" /\ payment[t].amount \in Amounts
             /\ paymentPc[i] = "commit" /\ P!Finish(i) /\ UNCHANGED paymentAudit
             /\ paymentMirror' \in Mirrors
             /\ payment' \in [Payments -> P!PaymentRows]
             /\ payment'[t] = [status |-> "paid", amount |-> payment[t].amount,
                               paidAmount |-> payment[t].amount]
             /\ \A p \in Payments \ {t} : payment'[p] = payment[p]
             /\ paymentLedger' = Append(paymentLedger, P!LedgerRow(t, "in", payment[t].amount))
  BY MarkPaidWrites
<1>2. /\ paymentLedger' \in Seq(PaymentEntries) /\ DOMAIN paymentLedger \subseteq DOMAIN paymentLedger'
      /\ \A n \in DOMAIN paymentLedger : paymentLedger'[n] = paymentLedger[n]
      /\ Len(paymentLedger) + 1 \in DOMAIN paymentLedger'
      /\ paymentLedger'[Len(paymentLedger) + 1] = P!LedgerRow(t, "in", payment[t].amount)
  BY <1>1, PaymentEntryTypes, PaymentEntered DEF PaymentsKept
<1>3. paymentAudit' \in [Payments -> Seq(TrailRows)]
  BY <1>1 DEF PaymentsKept, PaymentsTyped, P!TypeOK, TrailRows
<1>4. PaymentsTyped'
  BY <1>1, <1>2, <1>3, PaymentFinishTyped DEF PaymentsKept
<1>5. \A j \in Instances : PaymentFits(j)'
  BY <1>1, PaymentCommitFits
<1>6. PaymentStory(t)'
  <2>1. IsCollected(t)'
    BY <1>1, <1>2 DEF IsCollected, P!LedgerRow
  <2>2. AuditChain(t)'
    <3>1. AuditChain(t) /\ paymentAudit'[t] = paymentAudit[t] /\ payment'[t].amount = payment[t].amount
      BY <1>1 DEF PaymentsKept, PaymentStory
    <3> QED BY <3>1 DEF AuditChain
  <2> QED BY <1>1, <2>1, <2>2 DEF PaymentStory
<1>7. ASSUME NEW p \in Payments \ {t} PROVE PaymentStory(p)'
  BY <1>1, <1>2, OtherStories DEF PaymentsKept
<1> QED BY <1>4, <1>5, <1>6, <1>7 DEF PaymentsKept

LEMMA RefundKept ==
    ASSUME PaymentsKept, Nobody \notin Instances, NEW i \in Instances, P!Refund(i)
    PROVE  PaymentsKept'
<1>1. PICK t \in Payments :
             /\ t = paymentCmd[i].target /\ payment[t].status = "paid" /\ payment[t].amount \in Amounts
             /\ paymentPc[i] = "commit" /\ P!Finish(i) /\ UNCHANGED paymentAudit
             /\ paymentMirror' \in Mirrors
             /\ payment' \in [Payments -> P!PaymentRows]
             /\ payment'[t] = [status |-> "refunded", amount |-> payment[t].amount,
                               paidAmount |-> payment[t].amount]
             /\ \A p \in Payments \ {t} : payment'[p] = payment[p]
             /\ paymentLedger' = Append(paymentLedger, P!LedgerRow(t, "out", payment[t].amount))
  BY RefundWrites
<1>2. /\ paymentLedger' \in Seq(PaymentEntries) /\ DOMAIN paymentLedger \subseteq DOMAIN paymentLedger'
      /\ \A n \in DOMAIN paymentLedger : paymentLedger'[n] = paymentLedger[n]
  BY <1>1, PaymentEntryTypes, PaymentEntered DEF PaymentsKept
<1>3. paymentAudit' \in [Payments -> Seq(TrailRows)]
  BY <1>1 DEF PaymentsKept, PaymentsTyped, P!TypeOK, TrailRows
<1>4. PaymentsTyped'
  BY <1>1, <1>2, <1>3, PaymentFinishTyped DEF PaymentsKept
<1>5. \A j \in Instances : PaymentFits(j)'
  BY <1>1, PaymentCommitFits
<1>6. PaymentStory(t)'
  <2>1. AuditChain(t)'
    <3>1. AuditChain(t) /\ paymentAudit'[t] = paymentAudit[t] /\ payment'[t].amount = payment[t].amount
      BY <1>1 DEF PaymentsKept, PaymentStory
    <3> QED BY <3>1 DEF AuditChain
  <2> QED BY <1>1, <2>1 DEF PaymentStory
<1>7. ASSUME NEW p \in Payments \ {t} PROVE PaymentStory(p)'
  BY <1>1, <1>2, OtherStories DEF PaymentsKept
<1> QED BY <1>4, <1>5, <1>6, <1>7 DEF PaymentsKept

LEMMA PaymentsNextKept == PaymentsKept /\ Nobody \notin Instances /\ [P!Next]_(P!vars) => PaymentsKept'
<1> SUFFICES ASSUME PaymentsKept, Nobody \notin Instances, [P!Next]_(P!vars) PROVE PaymentsKept'
  OBVIOUS
<1>1. CASE UNCHANGED P!vars
  BY <1>1 DEF P!vars, P!data, PaymentsKept, PaymentsTyped, P!TypeOK, PaymentFits, PaymentStory, AuditChain, IsCollected
<1>2. ASSUME NEW i \in Instances, \E p \in Payments, a \in Amounts : P!Create(i, p, a)
      PROVE  PaymentsKept'
  BY <1>2, PaymentCreateKept
<1>3. ASSUME NEW i \in Instances, P!Boot(i) \/ P!BeginAny(i) \/ P!Lock(i) \/ P!Read(i) \/ P!Abort(i)
      PROVE  PaymentsKept'
  BY <1>3, PaymentQuietKept
<1>4. ASSUME NEW i \in Instances, P!Update(i) \/ P!UpdateNothing(i) \/ P!MarkPaid(i) \/ P!Refund(i)
      PROVE  PaymentsKept'
  BY <1>4, PaymentUpdateKept, PaymentUpdateNothingKept, MarkPaidKept, RefundKept
<1> QED BY <1>1, <1>2, <1>3, <1>4 DEF P!Next

LEMMA PaymentsAlwaysKept == P!Spec => []PaymentsKept
<1>1. PaymentsKept /\ [P!Next]_(P!vars) => PaymentsKept'
  BY PaymentsNextKept, MoneyConstants
<1>2. P!Init => PaymentsKept
  BY PaymentsInitKept
<1> QED BY <1>1, <1>2, PTL DEF P!Spec

LEMMA PaymentsBook == P!Spec => P!KeepsTheBooks
<1> USE DEF P!LedgerStage
<1>1. P!Init => P!Books!MLInit
  BY DEF P!Init, P!Books!MLInit, P!NoRow
<1>2. PaymentsKept /\ [P!Next]_(P!vars) => [P!Books!MLNext]_(P!Books!mvars)
  <2> SUFFICES ASSUME PaymentsKept, [P!Next]_(P!vars)
               PROVE  P!Books!MLNext \/ UNCHANGED <<P!LedgerStage, paymentLedger>>
    BY DEF P!Books!mvars
  <2>1. CASE UNCHANGED <<payment, paymentLedger>>
    BY <2>1
  <2>2. ASSUME NEW i \in Instances, NEW p \in Payments, NEW a \in Amounts, P!Create(i, p, a)
        PROVE  UNCHANGED <<P!LedgerStage, paymentLedger>>
    <3>1. /\ payment[p].status = "absent" /\ payment'[p].status = "pending" /\ UNCHANGED paymentLedger
          /\ \A q \in Payments \ {p} : payment'[q] = payment[q]
      BY <2>2 DEF P!Create, PaymentsKept, PaymentsTyped, P!TypeOK
    <3> QED BY <3>1
  <2>3. ASSUME NEW i \in Instances, P!Update(i)
        PROVE  UNCHANGED <<P!LedgerStage, paymentLedger>>
    <3>1. UNCHANGED paymentLedger /\ \A p \in Payments : payment'[p].status = payment[p].status
      BY <2>3 DEF P!Update, PaymentsKept, PaymentsTyped, P!TypeOK, P!PaymentRows
    <3> QED BY <3>1
  <2>4. ASSUME NEW i \in Instances, P!MarkPaid(i)
        PROVE  P!Books!MLNext
    <3>1. PICK t \in Payments :
             /\ payment[t].status = "pending" /\ payment[t].amount \in Amounts
             /\ payment'[t] = [status |-> "paid", amount |-> payment[t].amount,
                               paidAmount |-> payment[t].amount]
             /\ \A p \in Payments \ {t} : payment'[p] = payment[p]
             /\ paymentLedger' = Append(paymentLedger, P!LedgerRow(t, "in", payment[t].amount))
      BY <2>4, MarkPaidWrites
    <3>2. P!LedgerStage[t] = "open" /\ P!LedgerStage' = [P!LedgerStage EXCEPT ![t] = "booked"]
      <4>1. payment'[t].status = "paid" /\ \A p \in Payments \ {t} : payment'[p].status = payment[p].status
        BY <3>1
      <4>2. P!LedgerStage[t] = "open"
        BY <3>1
      <4>3. P!LedgerStage' = [P!LedgerStage EXCEPT ![t] = "booked"]
        BY <4>1
      <4> QED BY <4>2, <4>3
    <3>3. paymentLedger'[Len(paymentLedger) + 1] = P!LedgerRow(t, "in", payment[t].amount)
      BY <3>1, PaymentEntryTypes, PaymentEntered DEF PaymentsKept
    <3>4. /\ P!LedgerRow(t, "in", payment[t].amount).amount = payment[t].amount
          /\ P!LedgerRow(t, "in", payment[t].amount) = P!Books!Entry(t, "in", payment[t].amount)
      BY DEF P!LedgerRow, P!Books!Entry
    <3>5. P!Books!Book(t)
      BY <3>1, <3>2, <3>3, <3>4 DEF P!Books!Book
    <3> QED BY <3>5 DEF P!Books!MLNext
  <2>5. ASSUME NEW i \in Instances, P!Refund(i)
        PROVE  P!Books!MLNext
    <3>1. PICK t \in Payments :
             /\ payment[t].status = "paid"
             /\ payment'[t] = [status |-> "refunded", amount |-> payment[t].amount,
                               paidAmount |-> payment[t].amount]
             /\ \A p \in Payments \ {t} : payment'[p] = payment[p]
             /\ paymentLedger' = Append(paymentLedger, P!LedgerRow(t, "out", payment[t].amount))
      BY <2>5, RefundWrites
    <3>2. P!LedgerStage[t] = "booked" /\ P!LedgerStage' = [P!LedgerStage EXCEPT ![t] = "compensated"]
      <4>1. payment'[t].status = "refunded" /\ \A p \in Payments \ {t} : payment'[p].status = payment[p].status
        BY <3>1
      <4>2. P!LedgerStage[t] = "booked"
        BY <3>1
      <4>3. P!LedgerStage' = [P!LedgerStage EXCEPT ![t] = "compensated"]
        BY <4>1
      <4> QED BY <4>2, <4>3
    <3>3. PICK n \in DOMAIN paymentLedger : paymentLedger[n] = P!LedgerRow(t, "in", payment[t].amount)
      BY <3>1 DEF PaymentsKept, PaymentStory, IsCollected
    <3>4. /\ paymentLedger[n].doc = t /\ paymentLedger[n].direction = "in" /\ paymentLedger[n].amount = payment[t].amount
          /\ P!LedgerRow(t, "out", payment[t].amount) = P!Books!Entry(t, "out", payment[t].amount)
      BY <3>3 DEF P!LedgerRow, P!Books!Entry
    <3>5. P!Books!Compensate(t)
      BY <3>1, <3>2, <3>3, <3>4 DEF P!Books!Compensate
    <3> QED BY <3>5 DEF P!Books!MLNext
  <2>6. ASSUME NEW i \in Instances,
               P!Boot(i) \/ P!BeginAny(i) \/ P!Lock(i) \/ P!Read(i) \/ P!UpdateNothing(i) \/ P!Abort(i)
        PROVE  UNCHANGED <<payment, paymentLedger>>
    BY <2>6 DEF P!Boot, P!UpdateNothing, P!BeginAny, P!Begin, P!Lock, P!Read, P!Abort, P!data
  <2> QED BY <2>1, <2>2, <2>3, <2>4, <2>5, <2>6 DEF P!Next, P!vars, P!data
<1> QED BY <1>1, <1>2, PaymentsAlwaysKept, PTL DEF P!Spec, P!KeepsTheBooks, P!Books!MLSpec

-----------------------------------------------------------------------------
(* Expenses.                                                               *)
AmountChanges == [before : Amounts \cup {NoAmount}, after : Amounts]
ExpenseEntries == [doc : Expenses, direction : {"in", "out"}, amount : Amounts]

ExpenseCommands == [op : {"none", "update", "withdraw", "approve", "reject"},
                    target : Expenses \cup {NoExpense}, amount : Amounts \cup {NoAmount}]

(* What a command names exists, and what exists has an amount.             *)
ExpensesTyped ==
    /\ E!TypeOK
    /\ expenseCmd \in [Instances -> ExpenseCommands]
    /\ \A i \in Instances : expensePc[i] # "idle" => expenseCmd[i].target \in Expenses
    /\ \A e \in Expenses : expense[e].status # "absent" => expense[e].amount \in Amounts

ExpenseRowsOf(e) == {n \in DOMAIN expenseLedger : expenseLedger[n].doc = e}

ExpenseMatches(e) ==
    IF expense[e].status = "approved"
      THEN ~expense[e].deleted /\ \E n \in ExpenseRowsOf(e) :
               ExpenseRowsOf(e) = {n} /\ expenseLedger[n].amount = expense[e].amount
      ELSE ExpenseRowsOf(e) = {}

LEMMA ExpensesMatchIsIt == E!LedgerMatchesExpenses <=> \A e \in Expenses : ExpenseMatches(e)
BY DEF E!LedgerMatchesExpenses, ExpenseMatches, ExpenseRowsOf

LEMMA ExpensesInitTyped == E!Init => ExpensesTyped /\ E!LedgerMatchesExpenses
<1> SUFFICES ASSUME E!Init PROVE ExpensesTyped /\ E!LedgerMatchesExpenses
  OBVIOUS
<1>1. E!NoRow \in E!ExpenseRows /\ E!NoRow.status = "absent" /\ E!Idle \in ExpenseCommands
  BY DEF E!NoRow, E!ExpenseRows, E!Statuses, E!Idle, ExpenseCommands
<1>2. ExpensesTyped
  BY <1>1 DEF ExpensesTyped, E!TypeOK, E!Init
<1>3. \A e \in Expenses : ExpenseMatches(e)
  BY <1>1 DEF E!Init, ExpenseMatches, ExpenseRowsOf
<1> QED BY <1>2, <1>3, ExpensesMatchIsIt

(* The writes of a command: one row of expenses, and audit rows.           *)
LEMMA ExpenseWriteTyped ==
    ASSUME ExpensesTyped, NEW e \in Expenses, NEW new \in E!ExpenseRows, new.amount \in Amounts,
           expense' = [expense EXCEPT ![e] = new], expenseLedger' \in Seq(ExpenseEntries),
           expenseAudit' \in [Expenses -> Seq(AmountChanges)], NEW i \in Instances,
           E!Finish(i) \/ UNCHANGED <<expensePc, expenseCmd, expenseRow>>
    PROVE  ExpensesTyped'
<1>1. E!Idle \in ExpenseCommands /\ E!NoRow \in E!ExpenseRows
  BY DEF E!Idle, ExpenseCommands, E!NoRow, E!ExpenseRows, E!Statuses
<1>2. /\ expensePc' \in [Instances -> {"idle", "read", "commit"}] /\ expenseCmd' \in [Instances -> ExpenseCommands]
      /\ expenseRow' \in [Instances -> E!ExpenseRows]
      /\ \A j \in Instances : expensePc'[j] # "idle" => expenseCmd'[j].target \in Expenses
  BY <1>1 DEF ExpensesTyped, E!TypeOK, E!Finish
<1>3. expense' \in [Expenses -> E!ExpenseRows]
  BY DEF ExpensesTyped, E!TypeOK
<1>4. \A x \in Expenses : expense'[x].status # "absent" => expense'[x].amount \in Amounts
  BY DEF ExpensesTyped, E!TypeOK
<1> QED BY <1>2, <1>3, <1>4 DEF ExpensesTyped, E!TypeOK, ExpenseEntries, AmountChanges

LEMMA ExpenseAuditTyped ==
    ASSUME ExpensesTyped, NEW e \in Expenses, NEW before \in Amounts \cup {NoAmount}, NEW after \in Amounts,
           E!Audited(e, before, after)
    PROVE  expenseAudit' \in [Expenses -> Seq(AmountChanges)]
<1>1. [before |-> before, after |-> after] \in AmountChanges
  BY DEF AmountChanges
<1>2. expenseAudit[e] \in Seq(AmountChanges) /\ expenseAudit \in [Expenses -> Seq(AmountChanges)]
  BY DEF ExpensesTyped, E!TypeOK, AmountChanges
<1>3. Append(expenseAudit[e], [before |-> before, after |-> after]) \in Seq(AmountChanges)
  BY <1>1, <1>2
<1> QED BY <1>2, <1>3 DEF E!Audited

LEMMA ExpenseSameMatches ==
    ASSUME NEW e \in Expenses, ExpenseMatches(e), expenseLedger' = expenseLedger,
           \/ expense'[e] = expense[e]
           \/ expense'[e].status # "approved" /\ expense[e].status # "approved"
    PROVE  ExpenseMatches(e)'
BY DEF ExpenseMatches, ExpenseRowsOf

(* An expense that is created, amended, withdrawn or rejected.             *)
LEMMA ExpenseOneWrite ==
    ASSUME ExpensesTyped, E!LedgerMatchesExpenses, NEW e \in Expenses, NEW new \in E!ExpenseRows,
           new.amount \in Amounts, expense' = [expense EXCEPT ![e] = new], expenseLedger' = expenseLedger,
           expenseAudit' \in [Expenses -> Seq(AmountChanges)], NEW i \in Instances,
           E!Finish(i) \/ UNCHANGED <<expensePc, expenseCmd, expenseRow>>,
           expense[e].status # "approved", new.status # "approved"
    PROVE  ExpensesTyped' /\ E!LedgerMatchesExpenses'
<1>1. ExpensesTyped'
  BY ExpenseWriteTyped DEF ExpensesTyped, E!TypeOK, ExpenseEntries
<1>2. expense'[e] = new /\ \A x \in Expenses \ {e} : expense'[x] = expense[x]
  BY DEF ExpensesTyped, E!TypeOK
<1>3. \A x \in Expenses : ExpenseMatches(x)'
  BY <1>2, ExpenseSameMatches, ExpensesMatchIsIt
<1> QED BY <1>1, <1>3, ExpensesMatchIsIt DEF E!LedgerMatchesExpenses, ExpenseMatches, ExpenseRowsOf

LEMMA ExpenseOtherSteps ==
    ASSUME ExpensesTyped, E!LedgerMatchesExpenses, NEW i \in Instances,
           E!BeginAny(i) \/ E!Read(i) \/ E!Abort(i)
    PROVE  ExpensesTyped' /\ E!LedgerMatchesExpenses'
<1>1. UNCHANGED <<expense, expenseLedger, expenseAudit>>
  BY DEF E!BeginAny, E!Begin, E!Read, E!Abort, E!data
<1>2. E!LedgerMatchesExpenses'
  BY <1>1 DEF E!LedgerMatchesExpenses
<1>3. CASE E!BeginAny(i)
  <2>1. PICK e \in Expenses, op \in {"update", "withdraw", "approve", "reject"},
             a \in Amounts \cup {NoAmount} : E!Begin(i, op, e, a)
    BY <1>3 DEF E!BeginAny
  <2>2. [op |-> op, target |-> e, amount |-> a] \in ExpenseCommands
    BY DEF ExpenseCommands
  <2>3. ExpensesTyped'
    BY <1>1, <2>1, <2>2 DEF E!Begin, ExpensesTyped, E!TypeOK
  <2> QED BY <1>2, <2>3
<1>4. CASE E!Read(i)
  <2>1. expensePc[i] = "read" /\ E!Target(i) \in Expenses
    BY <1>4 DEF E!Read, E!Target, ExpensesTyped
  <2>2. ExpensesTyped'
    BY <1>1, <1>4, <2>1 DEF E!Read, ExpensesTyped, E!TypeOK
  <2> QED BY <1>2, <2>2
<1>5. CASE E!Abort(i)
  <2>1. E!Idle \in ExpenseCommands /\ E!NoRow \in E!ExpenseRows
    BY DEF E!Idle, ExpenseCommands, E!NoRow, E!ExpenseRows, E!Statuses
  <2>2. ExpensesTyped'
    BY <1>1, <1>5, <2>1 DEF E!Abort, E!Finish, ExpensesTyped, E!TypeOK
  <2> QED BY <1>2, <2>2
<1> QED BY <1>3, <1>4, <1>5

(* What a commit finds.                                                    *)
LEMMA ExpenseFound ==
    ASSUME ExpensesTyped, NEW i \in Instances, expensePc[i] = "commit", E!StillRequested(i)
    PROVE  /\ E!Target(i) \in Expenses /\ expense[E!Target(i)] \in E!ExpenseRows
           /\ expense[E!Target(i)].status = "requested" /\ ~expense[E!Target(i)].deleted
           /\ expense[E!Target(i)].amount \in Amounts
BY DEF ExpensesTyped, E!TypeOK, E!Target, E!StillRequested

LEMMA ExpenseUpdateStep ==
    ASSUME ExpensesTyped, E!LedgerMatchesExpenses, NEW i \in Instances, E!Update(i)
    PROVE  ExpensesTyped' /\ E!LedgerMatchesExpenses'
<1>1. expensePc[i] = "commit" /\ E!StillRequested(i) /\ E!Finish(i) /\ expenseLedger' = expenseLedger
  BY DEF E!Update, E!Committing
<1>2. PICK e \in Expenses : e = E!Target(i)
  BY <1>1, ExpenseFound
<1>3. expense[e] \in E!ExpenseRows /\ expense[e].status = "requested" /\ expense[e].amount \in Amounts
  BY <1>1, <1>2, ExpenseFound
<1> DEFINE amount == IF expenseCmd[i].amount = NoAmount THEN expense[e].amount ELSE expenseCmd[i].amount
           new == [expense[e] EXCEPT !.amount = amount]
<1>4. amount \in Amounts
  BY <1>3 DEF ExpensesTyped, ExpenseCommands
<1>5. /\ expense' = [expense EXCEPT ![e].amount = amount]
      /\ IF amount = expenseRow[i].amount THEN UNCHANGED expenseAudit ELSE E!Audited(e, expenseRow[i].amount, amount)
  BY <1>2 DEF E!Update
<1> HIDE DEF amount
<1>6. new \in E!ExpenseRows /\ new.amount \in Amounts /\ new.status = "requested"
  BY <1>3, <1>4 DEF E!ExpenseRows
<1>7. expense' = [expense EXCEPT ![e] = new]
  BY <1>5
<1>8. expenseAudit' \in [Expenses -> Seq(AmountChanges)]
  <2>1. expenseRow[i].amount \in Amounts \cup {NoAmount}
    BY DEF ExpensesTyped, E!TypeOK, E!ExpenseRows
  <2>2. CASE amount = expenseRow[i].amount
    BY <1>5, <2>2 DEF ExpensesTyped, E!TypeOK, AmountChanges
  <2>3. CASE amount # expenseRow[i].amount
    BY <1>4, <1>5, <2>1, <2>3, ExpenseAuditTyped
  <2> QED BY <2>2, <2>3
<1> HIDE DEF new
<1> QED BY <1>1, <1>3, <1>6, <1>7, <1>8, ExpenseOneWrite

LEMMA ExpenseDecisionSteps ==
    ASSUME ExpensesTyped, E!LedgerMatchesExpenses, NEW i \in Instances, E!Withdraw(i) \/ E!Reject(i)
    PROVE  ExpensesTyped' /\ E!LedgerMatchesExpenses'
<1>1. expensePc[i] = "commit" /\ E!StillRequested(i) /\ E!Finish(i) /\ expenseLedger' = expenseLedger /\ expenseAudit' = expenseAudit
  BY DEF E!Withdraw, E!Reject, E!Committing
<1>2. PICK e \in Expenses : e = E!Target(i)
  BY <1>1, ExpenseFound
<1>3. expense[e] \in E!ExpenseRows /\ expense[e].status = "requested" /\ expense[e].amount \in Amounts
  BY <1>1, <1>2, ExpenseFound
<1>4. \/ expense' = [expense EXCEPT ![e] = [expense[e] EXCEPT !.deleted = TRUE]]
      \/ expense' = [expense EXCEPT ![e] = [expense[e] EXCEPT !.status = "rejected"]]
  BY <1>2 DEF E!Withdraw, E!Reject
<1>5. PICK new \in E!ExpenseRows : /\ new.amount \in Amounts /\ new.status # "approved"
                                   /\ expense' = [expense EXCEPT ![e] = new]
  <2> DEFINE gone == [expense[e] EXCEPT !.deleted = TRUE]
             off  == [expense[e] EXCEPT !.status = "rejected"]
  <2>1. gone \in E!ExpenseRows /\ gone.amount \in Amounts /\ gone.status # "approved"
    BY <1>3 DEF E!ExpenseRows, E!Statuses
  <2>2. off \in E!ExpenseRows /\ off.amount \in Amounts /\ off.status # "approved"
    BY <1>3 DEF E!ExpenseRows, E!Statuses
  <2> HIDE DEF gone, off
  <2>3. expense' = [expense EXCEPT ![e] = gone] \/ expense' = [expense EXCEPT ![e] = off]
    BY <1>4 DEF gone, off
  <2> QED BY <2>1, <2>2, <2>3
<1>6. expenseAudit' \in [Expenses -> Seq(AmountChanges)]
  BY <1>1 DEF ExpensesTyped, E!TypeOK, AmountChanges
<1> QED BY <1>1, <1>3, <1>5, <1>6, ExpenseOneWrite

LEMMA ExpenseCreateStep ==
    ASSUME ExpensesTyped, E!LedgerMatchesExpenses, NEW i \in Instances, NEW e \in Expenses,
           NEW a \in Amounts, E!Create(i, e, a)
    PROVE  ExpensesTyped' /\ E!LedgerMatchesExpenses'
<1> DEFINE new == [status |-> "requested", amount |-> a, deleted |-> FALSE]
<1>1. /\ expense[e].status = "absent" /\ expense' = [expense EXCEPT ![e] = new]
      /\ E!Audited(e, NoAmount, a) /\ expenseLedger' = expenseLedger /\ UNCHANGED <<expensePc, expenseCmd, expenseRow>>
  BY DEF E!Create
<1>2. new \in E!ExpenseRows /\ new.amount \in Amounts /\ new.status # "approved"
  BY DEF E!ExpenseRows, E!Statuses
<1> HIDE DEF new
<1>3. expenseAudit' \in [Expenses -> Seq(AmountChanges)]
  BY <1>1, ExpenseAuditTyped
<1> QED BY <1>1, <1>2, <1>3, ExpenseOneWrite

(* approve writes the amount that is then in the table.                    *)
LEMMA ExpenseApproveWrites ==
    ASSUME ExpensesTyped, NEW i \in Instances, E!Approve(i)
    PROVE  \E e \in Expenses, new \in E!ExpenseRows :
             /\ expense[e].status = "requested" /\ ~expense[e].deleted
             /\ expense[e].amount \in Amounts /\ E!Finish(i) /\ UNCHANGED expenseAudit
             /\ new.status = "approved" /\ ~new.deleted /\ new.amount = expense[e].amount
             /\ expense' = [expense EXCEPT ![e] = new]
             /\ expenseLedger' = Append(expenseLedger, [doc |-> e, direction |-> "out",
                                                        amount |-> expense[e].amount])
<1>1. expensePc[i] = "commit" /\ E!StillRequested(i) /\ E!Finish(i) /\ expenseAudit' = expenseAudit
  BY DEF E!Approve, E!Committing
<1>2. PICK e \in Expenses : e = E!Target(i)
  BY <1>1, ExpenseFound
<1>3. /\ expense[e] \in E!ExpenseRows /\ expense[e].status = "requested" /\ ~expense[e].deleted
      /\ expense[e].amount \in Amounts
  BY <1>1, <1>2, ExpenseFound
<1> DEFINE new == [expense[e] EXCEPT !.status = "approved"]
<1>4. expense' = [expense EXCEPT ![e] = new]
  BY <1>2 DEF E!Approve
<1>5. /\ new \in E!ExpenseRows /\ new.status = "approved" /\ ~new.deleted
      /\ new.amount = expense[e].amount
  BY <1>3 DEF E!ExpenseRows, E!Statuses
<1> HIDE DEF new
<1>6. expenseLedger' = Append(expenseLedger, [doc |-> e, direction |-> "out", amount |-> expense[e].amount])
  BY <1>2 DEF E!Approve
<1> QED BY <1>1, <1>3, <1>4, <1>5, <1>6

LEMMA ExpenseEntered ==
    ASSUME ExpensesTyped, NEW new \in ExpenseEntries, expenseLedger' = Append(expenseLedger, new)
    PROVE  /\ expenseLedger' \in Seq(ExpenseEntries)
           /\ Len(expenseLedger) + 1 \notin DOMAIN expenseLedger
           /\ DOMAIN expenseLedger' = DOMAIN expenseLedger \cup {Len(expenseLedger) + 1}
           /\ \A n \in DOMAIN expenseLedger : expenseLedger'[n] = expenseLedger[n]
           /\ expenseLedger'[Len(expenseLedger) + 1] = new
<1>1. expenseLedger \in Seq(ExpenseEntries)
  BY DEF ExpensesTyped, E!TypeOK, ExpenseEntries
<1>2. expenseLedger' \in Seq(ExpenseEntries) /\ Len(expenseLedger') = Len(expenseLedger) + 1 /\ Len(expenseLedger) \in Nat
  BY <1>1
<1>3. DOMAIN expenseLedger' = 1 .. Len(expenseLedger') /\ DOMAIN expenseLedger = 1 .. Len(expenseLedger)
  BY <1>1, <1>2
<1> QED BY <1>1, <1>2, <1>3

LEMMA ExpenseApproveStep ==
    ASSUME ExpensesTyped, E!LedgerMatchesExpenses, NEW i \in Instances, E!Approve(i)
    PROVE  ExpensesTyped' /\ E!LedgerMatchesExpenses'
<1>1. PICK e \in Expenses, new \in E!ExpenseRows :
             /\ expense[e].status = "requested" /\ ~expense[e].deleted
             /\ expense[e].amount \in Amounts /\ E!Finish(i) /\ UNCHANGED expenseAudit
             /\ new.status = "approved" /\ ~new.deleted /\ new.amount = expense[e].amount
             /\ expense' = [expense EXCEPT ![e] = new]
             /\ expenseLedger' = Append(expenseLedger, [doc |-> e, direction |-> "out",
                                                        amount |-> expense[e].amount])
  BY ExpenseApproveWrites
<1> DEFINE entry == [doc |-> e, direction |-> "out", amount |-> expense[e].amount]
<1>2. /\ entry \in ExpenseEntries /\ entry.doc = e /\ entry.amount = expense[e].amount
  BY <1>1 DEF ExpenseEntries
<1>3. expense' = [expense EXCEPT ![e] = new] /\ expenseLedger' = Append(expenseLedger, entry)
  BY <1>1
<1> HIDE DEF entry
<1>4. /\ expenseLedger' \in Seq(ExpenseEntries)
      /\ Len(expenseLedger) + 1 \notin DOMAIN expenseLedger
      /\ DOMAIN expenseLedger' = DOMAIN expenseLedger \cup {Len(expenseLedger) + 1}
      /\ \A n \in DOMAIN expenseLedger : expenseLedger'[n] = expenseLedger[n]
      /\ expenseLedger'[Len(expenseLedger) + 1] = entry
  BY <1>2, <1>3, ExpenseEntered
<1>5. expenseAudit' \in [Expenses -> Seq(AmountChanges)]
  BY <1>1 DEF ExpensesTyped, E!TypeOK, AmountChanges
<1>6. ExpensesTyped'
  BY <1>1, <1>2, <1>3, <1>4, <1>5, ExpenseWriteTyped
<1>7. expense'[e] = new /\ \A x \in Expenses \ {e} : expense'[x] = expense[x]
  BY <1>3 DEF ExpensesTyped, E!TypeOK
<1>8. ExpenseRowsOf(e)' = ExpenseRowsOf(e) \cup {Len(expenseLedger) + 1}
  BY <1>2, <1>4 DEF ExpenseRowsOf
<1>9. \A x \in Expenses \ {e} : ExpenseRowsOf(x)' = ExpenseRowsOf(x)
  BY <1>2, <1>4 DEF ExpenseRowsOf
<1>10. ExpenseMatches(e)'
  <2>1. ExpenseRowsOf(e) = {}
    BY <1>1, ExpensesMatchIsIt DEF ExpenseMatches
  <2> QED BY <1>1, <1>2, <1>4, <1>7, <1>8, <2>1 DEF ExpenseMatches
<1>11. ASSUME NEW x \in Expenses \ {e} PROVE ExpenseMatches(x)'
  <2>1. ExpenseMatches(x) /\ expense'[x] = expense[x] /\ ExpenseRowsOf(x)' = ExpenseRowsOf(x)
    BY <1>7, <1>9, ExpensesMatchIsIt
  <2>2. \A n \in ExpenseRowsOf(x) : expenseLedger'[n] = expenseLedger[n]
    BY <1>4 DEF ExpenseRowsOf
  <2> QED BY <2>1, <2>2 DEF ExpenseMatches
<1>12. \A x \in Expenses : ExpenseMatches(x)'
  BY <1>10, <1>11
<1> QED BY <1>6, <1>12, ExpensesMatchIsIt DEF E!LedgerMatchesExpenses, ExpenseMatches, ExpenseRowsOf

LEMMA ExpensesNextMatch ==
    ExpensesTyped /\ E!LedgerMatchesExpenses /\ [E!Next]_(E!vars) => ExpensesTyped' /\ E!LedgerMatchesExpenses'
<1> SUFFICES ASSUME ExpensesTyped, E!LedgerMatchesExpenses, [E!Next]_(E!vars)
             PROVE  ExpensesTyped' /\ E!LedgerMatchesExpenses'
  OBVIOUS
<1>1. CASE UNCHANGED E!vars
  <2>1. ExpensesTyped'
    BY <1>1 DEF E!vars, E!data, ExpensesTyped, E!TypeOK
  <2>2. E!LedgerMatchesExpenses'
    BY <1>1 DEF E!vars, E!data, E!LedgerMatchesExpenses
  <2> QED BY <2>1, <2>2
<1>2. ASSUME NEW i \in Instances, \E e \in Expenses, a \in Amounts : E!Create(i, e, a)
      PROVE  ExpensesTyped' /\ E!LedgerMatchesExpenses'
  BY <1>2, ExpenseCreateStep
<1>3. ASSUME NEW i \in Instances, E!BeginAny(i) \/ E!Read(i) \/ E!Abort(i)
      PROVE  ExpensesTyped' /\ E!LedgerMatchesExpenses'
  BY <1>3, ExpenseOtherSteps
<1>4. ASSUME NEW i \in Instances, E!Update(i) \/ E!Withdraw(i) \/ E!Approve(i) \/ E!Reject(i)
      PROVE  ExpensesTyped' /\ E!LedgerMatchesExpenses'
  BY <1>4, ExpenseUpdateStep, ExpenseDecisionSteps, ExpenseApproveStep
<1> QED BY <1>1, <1>2, <1>3, <1>4 DEF E!Next

LEMMA ExpensesAlwaysMatch == E!Spec => [](ExpensesTyped /\ E!LedgerMatchesExpenses)
<1>1. E!Init => ExpensesTyped /\ E!LedgerMatchesExpenses
  BY ExpensesInitTyped
<1>2. ExpensesTyped /\ E!LedgerMatchesExpenses /\ [E!Next]_(E!vars)
         => (ExpensesTyped /\ E!LedgerMatchesExpenses)'
  BY ExpensesNextMatch
<1> QED BY <1>1, <1>2, PTL DEF E!Spec

LEMMA ExpensesBook == E!Spec => E!KeepsTheBooks
<1> USE DEF E!LedgerStage
<1>1. E!Init => E!Books!MLInit
  BY DEF E!Init, E!Books!MLInit, E!NoRow
<1>2. ExpensesTyped /\ E!LedgerMatchesExpenses /\ [E!Next]_(E!vars) => [E!Books!MLNext]_(E!Books!mvars)
  <2> SUFFICES ASSUME ExpensesTyped, E!LedgerMatchesExpenses, [E!Next]_(E!vars)
               PROVE  E!Books!MLNext \/ UNCHANGED <<E!LedgerStage, expenseLedger>>
    BY DEF E!Books!mvars
  <2>1. CASE UNCHANGED <<expense, expenseLedger>>
    BY <2>1
  <2>2. ASSUME NEW i \in Instances, NEW e \in Expenses, NEW a \in Amounts, E!Create(i, e, a)
        PROVE  UNCHANGED <<E!LedgerStage, expenseLedger>>
    <3>1. /\ expense[e].status = "absent" /\ expense'[e].status = "requested" /\ UNCHANGED expenseLedger
          /\ \A x \in Expenses \ {e} : expense'[x] = expense[x]
      BY <2>2 DEF E!Create, ExpensesTyped, E!TypeOK
    <3> QED BY <3>1
  <2>3. ASSUME NEW i \in Instances, E!Update(i) \/ E!Withdraw(i) \/ E!Reject(i)
        PROVE  UNCHANGED <<E!LedgerStage, expenseLedger>>
    <3>1. expensePc[i] = "commit" /\ E!StillRequested(i)
      BY <2>3 DEF E!Update, E!Withdraw, E!Reject, E!Committing
    <3>2. PICK e \in Expenses : e = E!Target(i) /\ expense[e].status = "requested"
      BY <3>1, ExpenseFound
    <3>3. /\ UNCHANGED expenseLedger /\ expense'[e].status # "approved"
          /\ \A x \in Expenses \ {e} : expense'[x] = expense[x]
      <4>1. expense[e] \in E!ExpenseRows /\ DOMAIN expense = Expenses
        BY DEF ExpensesTyped, E!TypeOK
      <4>2. CASE E!Update(i)
        BY <3>2, <4>1, <4>2 DEF E!Update, E!ExpenseRows
      <4>3. CASE E!Withdraw(i)
        BY <3>2, <4>1, <4>3 DEF E!Withdraw, E!ExpenseRows
      <4>4. CASE E!Reject(i)
        BY <3>2, <4>1, <4>4 DEF E!Reject, E!ExpenseRows
      <4> QED BY <2>3, <4>2, <4>3, <4>4
    <3> QED BY <3>2, <3>3
  <2>4. ASSUME NEW i \in Instances, E!Approve(i)
        PROVE  E!Books!MLNext
    <3>1. PICK e \in Expenses, new \in E!ExpenseRows :
             /\ expense[e].status = "requested" /\ expense[e].amount \in Amounts
             /\ new.status = "approved" /\ ~new.deleted /\ new.amount = expense[e].amount
             /\ expense' = [expense EXCEPT ![e] = new]
             /\ expenseLedger' = Append(expenseLedger, [doc |-> e, direction |-> "out",
                                                        amount |-> expense[e].amount])
      BY <2>4, ExpenseApproveWrites
    <3>2. E!LedgerStage[e] = "open" /\ E!LedgerStage' = [E!LedgerStage EXCEPT ![e] = "booked"]
      <4>1. /\ expense'[e].status = "approved"
            /\ \A x \in Expenses \ {e} : expense'[x] = expense[x]
        BY <3>1 DEF ExpensesTyped, E!TypeOK
      <4>2. E!LedgerStage[e] = "open"
        BY <3>1
      <4>3. E!LedgerStage' = [E!LedgerStage EXCEPT ![e] = "booked"]
        BY <4>1
      <4> QED BY <4>2, <4>3
    <3>3. [doc |-> e, direction |-> "out", amount |-> expense[e].amount] \in ExpenseEntries
      BY <3>1 DEF ExpenseEntries
    <3>4. expenseLedger'[Len(expenseLedger) + 1] = [doc |-> e, direction |-> "out", amount |-> expense[e].amount]
      BY <3>1, <3>3, ExpenseEntered
    <3>5. E!Books!Book(e)
      BY <3>1, <3>2, <3>4 DEF E!Books!Book, E!Books!Entry
    <3> QED BY <3>5 DEF E!Books!MLNext
  <2>5. ASSUME NEW i \in Instances, E!BeginAny(i) \/ E!Read(i) \/ E!Abort(i)
        PROVE  UNCHANGED <<expense, expenseLedger>>
    BY <2>5 DEF E!BeginAny, E!Begin, E!Read, E!Abort, E!data
  <2> QED BY <2>1, <2>2, <2>3, <2>4, <2>5 DEF E!Next, E!vars, E!data
<1> QED BY <1>1, <1>2, ExpensesAlwaysMatch, PTL DEF E!Spec, E!KeepsTheBooks, E!Books!MLSpec

-----------------------------------------------------------------------------
(* Both: neither touches the other's rows, so that each behaves as it does *)
(* alone.                                                                  *)
LEMMA PaymentsAlone == LedgersSpec => P!Spec
<1>1. LedgersInit => P!Init
  BY DEF LedgersInit
<1>2. [PaymentsNext \/ ExpensesNext]_ledgersVars => [P!Next]_(P!vars)
  BY DEF PaymentsNext, ExpensesNext, ledgersVars, paymentVars, P!vars, P!data
<1> QED BY <1>1, <1>2, PTL DEF LedgersSpec, P!Spec

LEMMA ExpensesAlone == LedgersSpec => E!Spec
<1>1. LedgersInit => E!Init
  BY DEF LedgersInit
<1>2. [PaymentsNext \/ ExpensesNext]_ledgersVars => [E!Next]_(E!vars)
  BY DEF PaymentsNext, ExpensesNext, ledgersVars, expenseVars, E!vars, E!data
<1> QED BY <1>1, <1>2, PTL DEF LedgersSpec, E!Spec

(* Every variable of the two has its type.                                 *)
THEOREM LedgersTyping == LedgersSpec => [](P!TypeOK /\ E!TypeOK)
<1>1. PaymentsKept => P!TypeOK
  BY DEF PaymentsKept, PaymentsTyped
<1>2. ExpensesTyped => E!TypeOK
  BY DEF ExpensesTyped
<1> QED BY <1>1, <1>2, PaymentsAlone, ExpensesAlone, PaymentsAlwaysKept, ExpensesAlwaysMatch, PTL

LEMMA LedgersAudit == LedgersSpec => []AuditIsAChain
<1>1. PaymentsKept => AuditIsAChain
  BY DEF PaymentsKept, PaymentStory, AuditChain, AuditIsAChain, P!AuditIsAChain
<1> QED BY <1>1, PaymentsAlone, PaymentsAlwaysKept, PTL

LEMMA LedgersMatch == LedgersSpec => []DocumentsMatchLedger
<1>1. PaymentsKept => P!CollectedIsBilled
  BY DEF PaymentsKept, PaymentStory, P!CollectedIsBilled
<1> QED BY <1>1, PaymentsAlone, ExpensesAlone, PaymentsAlwaysKept, ExpensesAlwaysMatch, PTL
        DEF DocumentsMatchLedger

LEMMA LedgersBook == LedgersSpec => KeepsTheBooks
BY PaymentsAlone, ExpensesAlone, PaymentsBook, ExpensesBook, PTL DEF KeepsTheBooks
=============================================================================
