------------------------- MODULE PayoutSettlement -------------------------
(***************************************************************************)
(* Settlement of instructor pay (payouts.service.ts) together with the     *)
(* commands of other services that change what a class session is worth    *)
(* (schedule, attendance and reports services).                            *)
(*                                                                         *)
(* Every command runs as one Postgres transaction on one of several        *)
(* serverless instances.  An instance runs one command at a time: the      *)
(* transaction queue of in-memory.database.ts is a global FIFO.  Between   *)
(* instances the only guards are advisory locks held to the end of the     *)
(* transaction, READ COMMITTED re-reads, and conditional UPDATEs.          *)
(*                                                                         *)
(* A command is split where another instance can interleave:               *)
(*   Begin -> Acquire ... -> (LoadSessions) -> read -> commit              *)
(* Its writes are one step, the commit: they start with a conditional      *)
(* UPDATE whose row lock is kept until COMMIT, and a conflicting UPDATE    *)
(* re-evaluates its condition after waiting for it.  A failed validation,  *)
(* a failed conditional UPDATE, a lost connection and a dying instance all *)
(* roll everything back: Abort.                                            *)
(***************************************************************************)
EXTENDS Integers, Sequences, FiniteSets, Functions

CONSTANTS
    Instances,      \* serverless instances
    Instructors,
    Sessions,       \* class_sessions ids
    Teacher,        \* [Sessions -> Instructors]: class_sessions.instructor_id
    Periods,        \* the settlement periods clients ask for
    Within,         \* [Periods -> SUBSET Sessions]: the sessions dated in it
    Commands,       \* the commands clients send (all of them, or fewer as a bound)
    Payouts,        \* the instructor_payouts ids the sequence can hand out
    AutoAmount,     \* [Sessions -> Nat]: round(minutes / 60 * hourly rate)
    Overrides,      \* amounts a manager sets for a session by hand
    Adjustments,    \* amounts the principal sets for a payout by hand
    NoAmount,       \* SQL NULL in an amount column
    NoPayout,       \* SQL NULL in payout_id and paid_payout_id
    NoTarget,       \* target of an instance that runs no command
    Nobody          \* holder of a free advisory lock

ASSUME ConstantsAssumption ==
    /\ Sessions \subseteq Nat
    /\ Teacher \in [Sessions -> Instructors]
    /\ Within \in [Periods -> SUBSET Sessions]
    /\ AutoAmount \in [Sessions -> Nat]
    /\ Overrides \subseteq Nat
    /\ Adjustments \subseteq Nat
    /\ NoAmount \notin Nat
    /\ NoPayout \notin Payouts
    /\ Nobody \notin Instances

VARIABLES
    session,   \* class_sessions: what pricing and settlement read and write
    report,    \* approval_status of the session's report
    payout,    \* instructor_payouts
    ledger,    \* transactions
    covered,   \* history: the lines whose session lock generate held
    holder,    \* pg_advisory_xact_lock: who holds which key
    pc, cmd,   \* where each instance is, and in which command
    want,      \* the keys the current lockTargets call has yet to acquire
    mirror,    \* the session rows a refresh read, until they are used
    quote,     \* the lines the second measure of a generate produced
    row        \* the payout row the command validated

db      == <<session, report, payout, ledger, covered>>
process == <<holder, pc, cmd, want, mirror, quote, row>>
vars    == <<db, process>>

-----------------------------------------------------------------------------
(* Data.                                                                   *)

SessionStates == {"scheduled", "held", "canceled"}  \* no_show, makeup: as canceled
ReportStates  == {"submitted", "approved", "rejected"}
PayoutStates  == {"absent", "pending", "confirmed", "paid", "rejected"}
Active        == {"pending", "confirmed", "paid"}
LineAmounts   == Overrides \cup Range(AutoAmount)
Lines         == UNION {[S -> LineAmounts] : S \in SUBSET Sessions}
NoLines       == [s \in {} |-> 0]

Total(lines)  == SumFunction(lines)
PayoutAmounts == {0} \cup {Total(lines) : lines \in Lines} \cup Adjustments

SessionRows == [present : BOOLEAN,                  \* deleted_at IS NULL
                status : SessionStates,
                override : Overrides \cup {NoAmount},
                payoutId : Payouts \cup {NoPayout},
                isPaid : BOOLEAN,
                paidPayoutId : Payouts \cup {NoPayout}]

NewSession == [present |-> TRUE, status |-> "held", override |-> NoAmount,
               payoutId |-> NoPayout, isPaid |-> FALSE, paidPayoutId |-> NoPayout]

EmptyMirror == [s \in Sessions |-> NewSession]

NoRow == [status |-> "absent", instructor |-> NoTarget, lines |-> NoLines,
          adjusted |-> NoAmount, amount |-> 0, reversed |-> FALSE]

(* classifySessionForPayout: excluded unless held and unlinked; the manual *)
(* price wins; without one the session needs its approved report.          *)
(* Mutant: a session linked to a payout not yet paid counts as free.       *)
PayoutLockedWhenPaid(r) == r.isPaid

PayoutLocked(r) == r.payoutId # NoPayout \/ r.isPaid

Priced(r, rep) == r.override # NoAmount \/ rep = "approved"

Price(s, r) == IF r.override # NoAmount THEN r.override ELSE AutoAmount[s]

Billable(r, rep) == r.present /\ r.status = "held" /\ ~PayoutLocked(r) /\ Priced(r, rep)

(* measureCore over the rows of the mirror and the reports read after it.  *)
Measure(rows, instructor, period) ==
    [s \in {t \in Within[period] : Teacher[t] = instructor /\ Billable(rows[t], report[t])}
        |-> Price(s, rows[s])]

-----------------------------------------------------------------------------
(* Commands and advisory locks.                                            *)

PayoutOps  == {"confirm", "unconfirm", "adjust", "reject", "pay", "reverse"}
SessionOps == {"setPayAmount", "approveReport", "rejectReport", "submitReport",
               "rescheduleSession", "cancelSession", "recordAttendance",
               "clearAttendance", "removeSession"}

Idle == [op |-> "none", target |-> NoTarget, arg |-> NoAmount]

LockKeys == ({"instructor"} \X Instructors) \cup ({"session"} \X Sessions)
                \cup ({"payout"} \X Payouts)

SessionKeys(S) == {"session"} \X S

(* The keys of the first lockTargets call of a command.                    *)
FirstKeys(op, target) ==
    CASE op = "generate"    -> {<<"instructor", target>>}
      [] op = "reject"      -> {<<"instructor", payout[target].instructor>>}
      [] op \in SessionOps  -> SessionKeys({target})
      [] OTHER              -> {<<"payout", target>>}

(* lockTargets sorts the keys of one call.  In this module all keys of one *)
(* call have one kind, so the order is that of the ids.                    *)
NextKey(keys) == CHOOSE k \in keys : \A other \in keys : other = k \/ k[2] < other[2]

AfterLocks(op, at) ==
    IF at = "lock2" THEN "load2"
    ELSE IF op \in {"generate", "unconfirm", "reject", "pay", "reverse"} THEN "load"
    ELSE "read"

Goto(i, at) == pc' = [pc EXCEPT ![i] = at]

Begin(i, op, target, arg) ==
    /\ pc[i] = "idle"
    /\ op \in Commands
    /\ Goto(i, "lock")
    /\ cmd' = [cmd EXCEPT ![i] = [op |-> op, target |-> target, arg |-> arg]]
    /\ want' = [want EXCEPT ![i] = FirstKeys(op, target)]
    /\ UNCHANGED <<db, holder, mirror, quote, row>>

(* One SELECT pg_advisory_xact_lock of the loop of lockTargets.            *)
Acquire(i) ==
    /\ pc[i] \in {"lock", "lock2"}
    /\ LET k == NextKey(want[i])
       IN  /\ holder[k] \in {Nobody, i}
           /\ holder' = [holder EXCEPT ![k] = i]
           /\ want' = [want EXCEPT ![i] = @ \ {k}]
           /\ IF want[i] = {k} THEN Goto(i, AfterLocks(cmd[i].op, pc[i])) ELSE UNCHANGED pc
    /\ UNCHANGED <<db, cmd, mirror, quote, row>>

(* The transaction ends: locks are released, the instance is free again.   *)
Finish(i) ==
    /\ holder' = [k \in LockKeys |-> IF holder[k] = i THEN Nobody ELSE holder[k]]
    /\ Goto(i, "idle")
    /\ cmd' = [cmd EXCEPT ![i] = Idle]
    /\ want' = [want EXCEPT ![i] = {}]
    /\ mirror' = [mirror EXCEPT ![i] = EmptyMirror]
    /\ quote' = [quote EXCEPT ![i] = NoLines]
    /\ row' = [row EXCEPT ![i] = NoRow]

Abort(i) == pc[i] # "idle" /\ Finish(i) /\ UNCHANGED db

(* refreshReadInputs, first statement: the session rows enter the mirror.  *)
(* Reports and payouts are read by later statements, so later snapshots.   *)
LoadSessions(i) ==
    /\ pc[i] \in {"load", "load2"}
    /\ mirror' = [mirror EXCEPT ![i] = session]
    /\ Goto(i, IF pc[i] = "load" THEN "read" ELSE "read2")
    /\ UNCHANGED <<db, holder, cmd, want, quote, row>>

-----------------------------------------------------------------------------
(* generate: instructor lock, measure, lock the measured sessions, refresh *)
(* and measure again, insert the payout, claim every line.                 *)

Args(i) == cmd[i].arg
Target(i) == cmd[i].target

Generating(i, at) == cmd[i].op = "generate" /\ pc[i] = at

MeasureLines(i) ==
    /\ Generating(i, "read")
    /\ LET lines == Measure(mirror[i], Target(i), Args(i))
       IN  /\ lines # NoLines
           /\ want' = [want EXCEPT ![i] = SessionKeys(DOMAIN lines)]
    /\ mirror' = [mirror EXCEPT ![i] = EmptyMirror]
    /\ Goto(i, "lock2")
    /\ UNCHANGED <<db, holder, cmd, quote, row>>

(* The second measure is not confined to the sessions just locked.         *)
MeasureAgain(i) ==
    /\ Generating(i, "read2")
    /\ LET lines == Measure(mirror[i], Target(i), Args(i))
       IN  lines # NoLines /\ quote' = [quote EXCEPT ![i] = lines]
    /\ mirror' = [mirror EXCEPT ![i] = EmptyMirror]
    /\ Goto(i, "commit")
    /\ UNCHANGED <<db, holder, cmd, want, row>>

(* claimPayout: WHERE deleted_at IS NULL AND payout_id IS NULL AND NOT is_paid *)
Claimable(s) == session[s].present /\ ~PayoutLocked(session[s])

NewPayout(instructor, lines) ==
    [status |-> "pending", instructor |-> instructor, lines |-> lines,
     adjusted |-> NoAmount, amount |-> Total(lines), reversed |-> FALSE]

Generate(i) ==
    /\ Generating(i, "commit")
    /\ \A s \in DOMAIN quote[i] : Claimable(s)
    /\ \E p \in Payouts :
         /\ payout[p].status = "absent"
         /\ payout' = [payout EXCEPT ![p] = NewPayout(Target(i), quote[i])]
         /\ session' = [s \in Sessions |->
                IF s \in DOMAIN quote[i] THEN [session[s] EXCEPT !.payoutId = p] ELSE session[s]]
         /\ covered' = [covered EXCEPT ![p] =
                {s \in DOMAIN quote[i] : holder[<<"session", s>>] = i}]
    /\ Finish(i)
    /\ UNCHANGED <<report, ledger>>

-----------------------------------------------------------------------------
(* Commands on one payout.                                                 *)

(* The statuses each command lets through; anything else is refused.       *)
From(op) ==
    CASE op = "confirm"                -> {"pending"}
      [] op \in {"unconfirm", "pay"}   -> {"confirmed"}
      [] op = "adjust"                 -> {"pending", "confirmed"}
      [] op = "reject"                 -> {"pending", "confirmed", "rejected"}
      [] op = "reverse"                -> {"paid"}

ReadPayout(i) ==
    /\ pc[i] = "read"
    /\ cmd[i].op \in PayoutOps
    /\ payout[Target(i)].status \in From(cmd[i].op)
    /\ row' = [row EXCEPT ![i] = payout[Target(i)]]
    /\ Goto(i, "commit")
    /\ UNCHANGED <<db, holder, cmd, want, mirror, quote>>

Committing(i, op) == cmd[i].op = op /\ pc[i] = "commit"

(* payoutCas also compares updated_at; the row itself stands for it here.  *)
(* Mutants: the conditional UPDATE drops its condition.                    *)
AnyRevision(i) == TRUE
AnyStatus(i)   == TRUE

SameRevision(i) == payout[Target(i)] = row[i]

SameStatus(i) == payout[Target(i)].status = row[i].status

SetStatus(i, status) == payout' = [payout EXCEPT ![Target(i)].status = status]

Confirm(i) ==
    /\ Committing(i, "confirm")
    /\ SameRevision(i)
    /\ SetStatus(i, "confirmed")
    /\ Finish(i)
    /\ UNCHANGED <<session, report, ledger, covered>>

Unconfirm(i) ==
    /\ Committing(i, "unconfirm")
    /\ SameStatus(i)
    /\ SetStatus(i, "pending")
    /\ Finish(i)
    /\ UNCHANGED <<session, report, ledger, covered>>

Adjust(i) ==
    /\ Committing(i, "adjust")
    /\ SameRevision(i)
    /\ payout' = [payout EXCEPT ![Target(i)].adjusted = Args(i), ![Target(i)].amount = Args(i)]
    /\ Finish(i)
    /\ UNCHANGED <<session, report, ledger, covered>>

(* The lines whose mirror row is linked to the payout and not deleted.     *)
LinkedLines(i) ==
    {s \in DOMAIN row[i].lines : mirror[i][s].present /\ mirror[i][s].payoutId = Target(i)}

(* class-sessions.store update: only rows that are still there change.     *)
Stamp(i, after) ==
    session' = [s \in Sessions |->
        IF s \in LinkedLines(i) /\ session[s].present THEN after[s] ELSE session[s]]

(* Mutant: reverse forgets is_paid.  Mutant: the two columns are swapped.  *)
ReleasedStillPaid == [s \in Sessions |-> [session[s] EXCEPT !.payoutId = NoPayout]]
PaidBySwapped(p)  == [s \in Sessions |-> [session[s] EXCEPT !.isPaid = p, !.paidPayoutId = TRUE]]

Released       == [s \in Sessions |-> [session[s] EXCEPT !.payoutId = NoPayout]]
ReleasedUnpaid == [s \in Sessions |-> [session[s] EXCEPT !.payoutId = NoPayout, !.isPaid = FALSE]]
PaidBy(p)      == [s \in Sessions |-> [session[s] EXCEPT !.isPaid = TRUE, !.paidPayoutId = p]]

Reject(i) ==
    /\ Committing(i, "reject")
    /\ SameStatus(i)
    /\ SetStatus(i, "rejected")
    /\ Stamp(i, Released)
    /\ Finish(i)
    /\ UNCHANGED <<report, ledger, covered>>

(* The amount is that of the row the conditional UPDATE returned.          *)
LedgerRow(p, direction) == [doc |-> p, direction |-> direction, amount |-> payout[p].amount]

Pay(i) ==
    /\ Committing(i, "pay")
    /\ SameStatus(i)
    /\ SetStatus(i, "paid")
    /\ ledger' = Append(ledger, LedgerRow(Target(i), "out"))
    /\ Stamp(i, PaidBy(Target(i)))
    /\ Finish(i)
    /\ UNCHANGED <<report, covered>>

(* Mutant: the reversal is booked in the direction of the payment.         *)
ReverseOut(i) ==
    /\ Committing(i, "reverse")
    /\ SameStatus(i)
    /\ payout' = [payout EXCEPT ![Target(i)].status = "rejected", ![Target(i)].reversed = TRUE]
    /\ ledger' = Append(ledger, LedgerRow(Target(i), "out"))
    /\ Stamp(i, ReleasedUnpaid)
    /\ Finish(i)
    /\ UNCHANGED <<report, covered>>

Reverse(i) ==
    /\ Committing(i, "reverse")
    /\ SameStatus(i)
    /\ payout' = [payout EXCEPT ![Target(i)].status = "rejected", ![Target(i)].reversed = TRUE]
    /\ ledger' = Append(ledger, LedgerRow(Target(i), "in"))
    /\ Stamp(i, ReleasedUnpaid)
    /\ Finish(i)
    /\ UNCHANGED <<report, covered>>

-----------------------------------------------------------------------------
(* Commands on one session: session lock, DB re-read, write.  Validation   *)
(* of money impact (the acknowledgement hash) can only refuse: Abort.      *)

(* Mutant: reports, times and attendance of locked sessions may change.    *)
AcceptsLocked(op, r, rep) == op = "setPayAmount" => r.payoutId = NoPayout

Accepts(op, r, rep) ==
    CASE op = "setPayAmount"      -> r.status = "held" /\ r.payoutId = NoPayout
      [] op = "approveReport"     -> rep = "submitted" /\ r.status # "canceled"
      [] op = "rejectReport"      -> rep = "approved" => ~PayoutLocked(r)
      [] op = "submitReport"      -> rep # "approved"
      [] op = "recordAttendance"  -> r.status = "scheduled"
      [] op = "clearAttendance"   -> r.status = "held" /\ ~PayoutLocked(r)
      [] OTHER                    -> ~PayoutLocked(r)

ReadSession(i) ==
    /\ pc[i] = "read"
    /\ cmd[i].op \in SessionOps
    /\ session[Target(i)].present
    /\ Accepts(cmd[i].op, session[Target(i)], report[Target(i)])
    /\ Goto(i, "commit")
    /\ UNCHANGED <<db, holder, cmd, want, mirror, quote, row>>

(* The UPDATE by id that every write to a session row ends in.             *)
UpdateRow(i, new) ==
    /\ session[Target(i)].present
    /\ session' = [session EXCEPT ![Target(i)] = new]

SetPayAmount(i) ==
    /\ Committing(i, "setPayAmount")
    /\ session[Target(i)].payoutId = NoPayout
    /\ UpdateRow(i, [session[Target(i)] EXCEPT !.override = Args(i)])
    /\ Finish(i)
    /\ UNCHANGED <<report, payout, ledger, covered>>

(* Approval also holds a scheduled session whose attendance is complete.   *)
ApproveReport(i) ==
    /\ Committing(i, "approveReport")
    /\ report[Target(i)] = "submitted"
    /\ report' = [report EXCEPT ![Target(i)] = "approved"]
    /\ \/ UNCHANGED session
       \/ /\ session[Target(i)].status = "scheduled"
          /\ UpdateRow(i, [session[Target(i)] EXCEPT !.status = "held"])
    /\ Finish(i)
    /\ UNCHANGED <<payout, ledger, covered>>

(* The report's approval_status cannot have moved since ReadSession: every *)
(* command that moves it holds the session lock.                           *)
RejectReport(i) ==
    /\ Committing(i, "rejectReport")
    /\ report' = [report EXCEPT ![Target(i)] = "rejected"]
    /\ Finish(i)
    /\ UNCHANGED <<session, payout, ledger, covered>>

SubmitReport(i) ==
    /\ Committing(i, "submitReport")
    /\ report' = [report EXCEPT ![Target(i)] = "submitted"]
    /\ Finish(i)
    /\ UNCHANGED <<session, payout, ledger, covered>>

(* PATCH /schedule: a new time, or an explicit status, makes it scheduled. *)
RescheduleSession(i) ==
    /\ Committing(i, "rescheduleSession")
    /\ UpdateRow(i, [session[Target(i)] EXCEPT !.status = "scheduled"])
    /\ Finish(i)
    /\ UNCHANGED <<report, payout, ledger, covered>>

CancelSession(i) ==
    /\ Committing(i, "cancelSession")
    /\ UpdateRow(i, [session[Target(i)] EXCEPT !.status = "canceled"])
    /\ Finish(i)
    /\ UNCHANGED <<report, payout, ledger, covered>>

(* The last missing attendance row of an ended session makes it held.      *)
RecordAttendance(i) ==
    /\ Committing(i, "recordAttendance")
    /\ UpdateRow(i, [session[Target(i)] EXCEPT !.status = "held"])
    /\ Finish(i)
    /\ UNCHANGED <<report, payout, ledger, covered>>

ClearAttendance(i) ==
    /\ Committing(i, "clearAttendance")
    /\ UpdateRow(i, [session[Target(i)] EXCEPT !.status = "scheduled"])
    /\ Finish(i)
    /\ UNCHANGED <<report, payout, ledger, covered>>

(* The UPDATE of the store's remove does not look at payout_id.            *)
RemoveSession(i) ==
    /\ Committing(i, "removeSession")
    /\ UpdateRow(i, [session[Target(i)] EXCEPT !.present = FALSE])
    /\ Finish(i)
    /\ UNCHANGED <<report, payout, ledger, covered>>

-----------------------------------------------------------------------------
Init ==
    /\ session = [s \in Sessions |-> NewSession]
    /\ report \in [Sessions -> {"submitted", "approved"}]
    /\ payout = [p \in Payouts |-> NoRow]
    /\ ledger = <<>>
    /\ covered = [p \in Payouts |-> {}]
    /\ holder = [k \in LockKeys |-> Nobody]
    /\ pc = [i \in Instances |-> "idle"]
    /\ cmd = [i \in Instances |-> Idle]
    /\ want = [i \in Instances |-> {}]
    /\ mirror = [i \in Instances |-> EmptyMirror]
    /\ quote = [i \in Instances |-> NoLines]
    /\ row = [i \in Instances |-> NoRow]

(* A client names a payout it has seen, never an id not yet handed out.    *)
BeginAny(i) ==
    \/ \E t \in Instructors, period \in Periods : Begin(i, "generate", t, period)
    \/ \E p \in Payouts : /\ payout[p].status # "absent"
                          /\ \/ \E op \in PayoutOps \ {"adjust"} : Begin(i, op, p, NoAmount)
                             \/ \E a \in Adjustments : Begin(i, "adjust", p, a)
    \/ \E s \in Sessions : \/ \E op \in SessionOps \ {"setPayAmount"} : Begin(i, op, s, NoAmount)
                           \/ \E a \in Overrides \cup {NoAmount} : Begin(i, "setPayAmount", s, a)

Proceed(i) ==
    Acquire(i) \/ LoadSessions(i) \/ MeasureLines(i) \/ MeasureAgain(i)
        \/ ReadPayout(i) \/ ReadSession(i)

CommitPayout(i) ==
    Generate(i) \/ Confirm(i) \/ Unconfirm(i) \/ Adjust(i) \/ Reject(i) \/ Pay(i) \/ Reverse(i)

CommitSession(i) ==
    \/ SetPayAmount(i) \/ ApproveReport(i) \/ RejectReport(i) \/ SubmitReport(i)
    \/ RescheduleSession(i) \/ CancelSession(i) \/ RecordAttendance(i)
    \/ ClearAttendance(i) \/ RemoveSession(i)

Next == \E i \in Instances :
    BeginAny(i) \/ Proceed(i) \/ CommitPayout(i) \/ CommitSession(i) \/ Abort(i)

Spec == Init /\ [][Next]_vars

-----------------------------------------------------------------------------
(* Properties.                                                             *)

Steps == {"idle", "lock", "load", "read", "lock2", "load2", "read2", "commit"}

PayoutRows == [status : PayoutStates, instructor : Instructors \cup {NoTarget},
               lines : Lines, adjusted : Adjustments \cup {NoAmount},
               amount : PayoutAmounts, reversed : BOOLEAN]

LedgerEntries == [doc : Payouts, direction : {"in", "out"}, amount : PayoutAmounts]

(* A command names something of the kind it works on.                      *)
CommandOK(c) ==
    /\ c = [op |-> c.op, target |-> c.target, arg |-> c.arg]
    /\ \/ c.op = "none"
       \/ c.op = "generate" /\ c.target \in Instructors /\ c.arg \in Periods
       \/ c.op \in PayoutOps /\ c.target \in Payouts /\ (c.op = "adjust" => c.arg \in Adjustments)
       \/ c.op \in SessionOps /\ c.target \in Sessions
                             /\ (c.op = "setPayAmount" => c.arg \in Overrides \cup {NoAmount})

DbTypes ==
    /\ session \in [Sessions -> SessionRows]
    /\ report \in [Sessions -> ReportStates]
    /\ payout \in [Payouts -> PayoutRows]
    /\ \A p \in Payouts : payout[p].status # "absent" => payout[p].instructor \in Instructors
    /\ ledger \in Seq(LedgerEntries)
    /\ covered \in [Payouts -> SUBSET Sessions]

ProcessTypes ==
    /\ holder \in [LockKeys -> Instances \cup {Nobody}]
    /\ pc \in [Instances -> Steps]
    /\ cmd = [i \in Instances |-> cmd[i]] /\ \A i \in Instances : CommandOK(cmd[i])
    /\ want \in [Instances -> SUBSET LockKeys]
    /\ mirror \in [Instances -> [Sessions -> SessionRows]]
    /\ quote \in [Instances -> Lines]
    /\ row \in [Instances -> PayoutRows]

(* Every variable has its type, and a payout that exists has its instructor. *)
TypeOK == DbTypes /\ ProcessTypes

LedgerRows(p, direction) ==
    {n \in DOMAIN ledger : ledger[n].doc = p /\ ledger[n].direction = direction}

Unbooked(p) == LedgerRows(p, "out") = {} /\ LedgerRows(p, "in") = {}

PaidOut(p) ==
    /\ LedgerRows(p, "in") = {}
    /\ \E n \in DOMAIN ledger : LedgerRows(p, "out") = {n} /\ ledger[n].amount = payout[p].amount

PaidBack(p) ==
    \E n, m \in DOMAIN ledger :
        /\ LedgerRows(p, "out") = {n} /\ ledger[n].amount = payout[p].amount
        /\ LedgerRows(p, "in") = {m} /\ ledger[m].amount = payout[p].amount
        /\ n < m

BookedAs(p) ==
    IF payout[p].reversed THEN payout[p].status = "rejected" /\ PaidBack(p)
    ELSE IF payout[p].status = "paid" THEN PaidOut(p)
    ELSE Unbooked(p)

(* pay, reverse: the ledger tells the same story as the payout.  A paid    *)
(* payout has exactly one "out" row of its amount and no "in" row; a       *)
(* reversed one exactly one of each, of the same amount; any other none.   *)
LedgerMatchesStatus == \A p \in Payouts : BookedAs(p)

(* checkPayoutIntegrity and checkAccountingIntegrity: what the integrity   *)
(* check of the production data (db-integrity-check.ts) reports of a       *)
(* payout, of a line of one and of a session.  The check loads the         *)
(* sessions that are not removed.  The total of the lines is not stored    *)
(* here, so that only the effective amount is looked at.                   *)
BackReferenced(p, s) == session[s].payoutId = p

ClaimedTwice(p) ==
    \E q \in Payouts \ {p} : /\ payout[q].status \in Active
                             /\ DOMAIN payout[p].lines \cap DOMAIN payout[q].lines # {}

Effective(r) == IF r.adjusted = NoAmount THEN Total(r.lines) ELSE r.adjusted

PayoutReported(p) ==
    LET r      == payout[p]
        outs   == LedgerRows(p, "out")
        backs  == LedgerRows(p, "in")
        paid   == r.status = "paid"
        active == r.status \in Active
    IN  \/ r.amount # Effective(r)                    \* PAYOUT_AMOUNT_RULE, PAYOUT_EFFECTIVE_AMOUNT_MISMATCH
        \/ paid /\ ~(Cardinality(outs) = 1 /\ backs = {})                  \* PAYOUT_PAID_LEDGER
        \/ paid /\ \E n \in outs : ledger[n].amount # r.amount             \* PAYOUT_TX_MISMATCH
        \/ r.reversed /\ active                                            \* REVERSED_PAYOUT_BAD_STATUS
        \/ r.reversed /\ ~(Cardinality(outs) = 1 /\ Cardinality(backs) = 1)  \* PAYOUT_REVERSAL_LEDGER
        \/ r.reversed /\ \E n \in outs, m \in backs : ledger[n].amount # ledger[m].amount
                                                                           \* PAYOUT_REVERSAL_TX_MISMATCH
        \/ ~paid /\ ~r.reversed /\ outs \cup backs # {}                    \* PAYOUT_LEDGER_UNEXPECTED
        \/ ~r.reversed /\ backs # {}                                       \* PAYOUT_STRAY_REVERSAL_TX
        \/ active /\ ClaimedTwice(p)                                       \* PAYOUT_DUPLICATE_SESSION
        \/ ~active /\ \E s \in Sessions : session[s].present /\ BackReferenced(p, s)
                                                                           \* REJECTED_PAYOUT_HAS_LINKS

LineReported(p, s) ==
    \/ ~session[s].present                                                 \* PAYOUT_LINE_ORPHAN_SESSION
    \/ payout[p].status \in Active /\ ~BackReferenced(p, s)  \* PAYOUT_SESSION_LINK, PAYOUT_BACKREF_MISMATCH

SessionReported(s) ==                                  \* SESSION_PAYOUT_ORPHAN, SESSION_ORPHAN_PAYOUT
    /\ session[s].present
    /\ session[s].payoutId # NoPayout
    /\ LET p == session[s].payoutId IN ~(payout[p].status \in Active /\ s \in DOMAIN payout[p].lines)

(* generate, pay, adjust, reject, reverse: however they interleave, the    *)
(* integrity check reports no payout and no session: the amount comes from *)
(* its source, the ledger has the right rows of the right amounts, no      *)
(* session is claimed twice or by a payout given up.  A line is reported   *)
(* for one reason only, that its session was removed since: after the      *)
(* payout was rejected or reversed, or, while it is active, where generate *)
(* had not locked the session.                                             *)
IntegrityCheckIsClean ==
    /\ \A p \in Payouts : payout[p].status # "absent" =>
          /\ ~PayoutReported(p)
          /\ \A s \in DOMAIN payout[p].lines : LineReported(p, s) =>
                /\ ~session[s].present
                /\ payout[p].status \in Active => s \notin covered[p]
    /\ \A s \in Sessions : ~SessionReported(s)

(* pay, reverse: is_paid is set exactly on the sessions of paid payouts,   *)
(* all of them, with paid_payout_id naming the payout that paid.           *)
PaidFlagsAgree ==
    \A s \in Sessions : session[s].present =>
        /\ session[s].isPaid <=> \E p \in Payouts : session[s].payoutId = p /\ payout[p].status = "paid"
        /\ session[s].isPaid => session[s].paidPayoutId = session[s].payoutId

StillWorth(p, s) ==
    /\ session[s].present
    /\ session[s].status = "held"
    /\ Priced(session[s], report[s])
    /\ Price(s, session[s]) = payout[p].lines[s]

(* What the session lock of generate protects: a line it held the lock of  *)
(* stays worth what the active payout says, whatever reports, attendance,  *)
(* schedule and price commands run.                                        *)
CoveredLinesStayBillable ==
    \A p \in Payouts : payout[p].status \in Active =>
        \A s \in covered[p] : StillWorth(p, s)

(* payouts.service.ts:100-101 and reports.service.ts:588 claim it of every *)
(* line of an active payout.                                               *)
LinesStayBillable ==
    \A p \in Payouts : payout[p].status \in Active =>
        \A s \in DOMAIN payout[p].lines : StillWorth(p, s)

(* pay, reject, reverse: once money moved or the payout was given up, its  *)
(* amount and its lines never change again, a paid payout can only be      *)
(* reversed, and a rejected one stays rejected, whatever commands were     *)
(* under way on other instances.                                           *)
SettledIsFrozen ==
    [][\A p \in Payouts : payout[p].status \in {"paid", "rejected"} =>
          /\ payout'[p].amount = payout[p].amount
          /\ payout'[p].lines = payout[p].lines
          /\ payout'[p].status \in {"paid", "rejected"}
          /\ payout[p].status = "rejected" => payout'[p].status = "rejected"]_vars

(* Seen from the ledger a payout is open, booked or compensated, and the   *)
(* settlement implements the ledger's contract.                            *)
LedgerStage == [p \in Payouts |->
    IF payout[p].status = "paid" THEN "booked"
    ELSE IF payout[p].reversed THEN "compensated" ELSE "open"]

Books == INSTANCE MoneyLedger WITH
    Docs <- Payouts, Amounts <- PayoutAmounts, BookDir <- "out", UndoDir <- "in",
    stage <- LedgerStage

KeepsTheBooks == Books!MLSpec
=============================================================================
