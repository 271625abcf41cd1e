---------------------- MODULE PayoutSettlementProofs ----------------------
(* What holds of PayoutSettlement for every number of instances, sessions, *)
(* payouts and periods, and for every price list.                          *)
EXTENDS PayoutSettlement, SequenceTheorems, FiniteSetTheorems, TLAPS

-----------------------------------------------------------------------------
(* Lemmas about the operators the commands are built from.                 *)

(* The values every instance starts from and returns to are typed.         *)
LEMMA RestingTypes == /\ NoLines \in Lines
                      /\ NewSession \in SessionRows
                      /\ EmptyMirror \in [Sessions -> SessionRows]
                      /\ NoRow \in PayoutRows
                      /\ CommandOK(Idle)
<1>1. NoLines \in Lines
  <2>1. NoLines \in [{} -> LineAmounts]  BY DEF NoLines
  <2>2. {} \in SUBSET Sessions  OBVIOUS
  <2>. QED  BY <2>1, <2>2 DEF Lines
<1>2. NewSession \in SessionRows  BY DEF NewSession, SessionRows, SessionStates
<1>3. NoRow \in PayoutRows
  BY <1>1 DEF NoRow, PayoutRows, PayoutStates, PayoutAmounts
<1>. QED  BY <1>1, <1>2, <1>3 DEF EmptyMirror, CommandOK, Idle

(* classifySessionForPayout prices a session by the manual amount or by    *)
(* the automatic one, so a measured line has a line amount.                *)
LEMMA MeasureTypes ==
  ASSUME NEW rows \in [Sessions -> SessionRows], NEW t \in Instructors, NEW q \in Periods
  PROVE  Measure(rows, t, q) \in Lines
<1> DEFINE S == {s \in Within[q] : Teacher[s] = t /\ Billable(rows[s], report[s])}
<1>1. S \in SUBSET Sessions  BY ConstantsAssumption
<1>2. \A s \in S : Price(s, rows[s]) \in LineAmounts
  <2>. SUFFICES ASSUME NEW s \in S PROVE Price(s, rows[s]) \in LineAmounts  OBVIOUS
  <2>1. s \in Sessions  BY <1>1
  <2>2. rows[s].override \in Overrides \cup {NoAmount}  BY <2>1 DEF SessionRows
  <2>3. AutoAmount[s] \in Range(AutoAmount)  BY <2>1, ConstantsAssumption DEF Range
  <2>. QED  BY <2>2, <2>3 DEF Price, LineAmounts
<1>3. Measure(rows, t, q) = [s \in S |-> Price(s, rows[s])]  BY DEF Measure
<1>4. Measure(rows, t, q) \in [S -> LineAmounts]  BY <1>2, <1>3
<1>. QED  BY <1>1, <1>4 DEF Lines

(* The keys of the first lockTargets call are lock keys.                   *)
LEMMA FirstKeysTypes ==
  ASSUME TypeOK, NEW op \in {"generate"} \cup PayoutOps \cup SessionOps, NEW target,
         op = "generate" => target \in Instructors,
         op \in PayoutOps => target \in Payouts /\ payout[target].status # "absent",
         op \in SessionOps => target \in Sessions
  PROVE  FirstKeys(op, target) \in SUBSET LockKeys
<1>1. CASE op = "generate"
  <2>1. FirstKeys(op, target) = {<<"instructor", target>>}  BY <1>1 DEF FirstKeys, SessionOps
  <2>. QED  BY <1>1, <2>1 DEF LockKeys
<1>2. CASE op = "reject"
  <2>1. payout[target].instructor \in Instructors  BY <1>2 DEF TypeOK, DbTypes, PayoutOps
  <2>2. FirstKeys(op, target) = {<<"instructor", payout[target].instructor>>}
    BY <1>2 DEF FirstKeys, SessionOps
  <2>. QED  BY <2>1, <2>2 DEF LockKeys
<1>3. CASE op \in SessionOps
  BY <1>3 DEF FirstKeys, LockKeys, SessionKeys, SessionOps
<1>4. CASE op \in PayoutOps \ {"reject"}
  BY <1>4 DEF FirstKeys, LockKeys, PayoutOps, SessionOps
<1>. QED  BY <1>1, <1>2, <1>3, <1>4

(* A command on a payout names a payout, one on a session a session.       *)
LEMMA TargetTypes ==
  ASSUME TypeOK, NEW i \in Instances
  PROVE  /\ cmd[i].op = "generate" => Target(i) \in Instructors /\ Args(i) \in Periods
         /\ cmd[i].op \in PayoutOps => Target(i) \in Payouts
         /\ cmd[i].op \in SessionOps => Target(i) \in Sessions
         /\ cmd[i].op = "adjust" => Args(i) \in Adjustments
         /\ cmd[i].op = "setPayAmount" => Args(i) \in Overrides \cup {NoAmount}
BY DEF TypeOK, ProcessTypes, CommandOK, PayoutOps, SessionOps, Target, Args

(* The end of a transaction, committed or rolled back, leaves the instance *)
(* as it was before it began.                                              *)
LEMMA FinishTypes ==
  ASSUME TypeOK, NEW i \in Instances, Finish(i)
  PROVE  ProcessTypes'
<1>. USE DEF TypeOK, ProcessTypes, Finish
<1>1. (holder \in [LockKeys -> Instances \cup {Nobody}])'  OBVIOUS
<1>2. (pc \in [Instances -> Steps])'  BY DEF Goto, Steps
<1>3. (cmd = [j \in Instances |-> cmd[j]] /\ \A j \in Instances : CommandOK(cmd[j]))'
  <2>1. cmd' = [cmd EXCEPT ![i] = Idle] /\ cmd = [j \in Instances |-> cmd[j]]  OBVIOUS
  <2>2. \A j \in Instances : cmd'[j] = IF j = i THEN Idle ELSE cmd[j]  BY <2>1
  <2>. QED  BY <2>1, <2>2, RestingTypes
<1>4. (want \in [Instances -> SUBSET LockKeys])'  OBVIOUS
<1>5. (mirror \in [Instances -> [Sessions -> SessionRows]])'  BY RestingTypes
<1>6. (quote \in [Instances -> Lines])'  BY RestingTypes
<1>7. (row \in [Instances -> PayoutRows])'  BY RestingTypes
<1>. QED  BY <1>1, <1>2, <1>3, <1>4, <1>5, <1>6, <1>7

(* A new command keeps the types of the command table.                     *)
LEMMA BeginTypes ==
  ASSUME TypeOK, NEW i \in Instances,
         NEW op \in {"generate"} \cup PayoutOps \cup SessionOps, NEW target, NEW arg,
         op = "generate" => target \in Instructors /\ arg \in Periods,
         op \in PayoutOps => target \in Payouts /\ payout[target].status # "absent",
         op = "adjust" => arg \in Adjustments,
         op \in SessionOps => target \in Sessions,
         op = "setPayAmount" => arg \in Overrides \cup {NoAmount},
         Begin(i, op, target, arg)
  PROVE  TypeOK'
<1> DEFINE c == [op |-> op, target |-> target, arg |-> arg]
<1>1. CommandOK(c)
  BY DEF CommandOK
<1>2. /\ cmd' = [cmd EXCEPT ![i] = c]
      /\ want' = [want EXCEPT ![i] = FirstKeys(op, target)]
      /\ pc' = [pc EXCEPT ![i] = "lock"]
      /\ UNCHANGED <<db, holder, mirror, quote, row>>
  BY DEF Begin, Goto
<1>3. (cmd = [j \in Instances |-> cmd[j]] /\ \A j \in Instances : CommandOK(cmd[j]))'
  <2>. HIDE DEF c
  <2>1. cmd = [j \in Instances |-> cmd[j]]  BY DEF TypeOK, ProcessTypes
  <2>2. \A j \in Instances : cmd'[j] = IF j = i THEN c ELSE cmd[j]  BY <1>2, <2>1
  <2>. QED  BY <1>1, <1>2, <2>1, <2>2 DEF TypeOK, ProcessTypes
<1>4. (want \in [Instances -> SUBSET LockKeys])'
  <2>1. FirstKeys(op, target) \in SUBSET LockKeys  BY FirstKeysTypes
  <2>. QED  BY <1>2, <2>1 DEF TypeOK, ProcessTypes
<1>5. (pc \in [Instances -> Steps])'  BY <1>2 DEF TypeOK, ProcessTypes, Steps
<1>6. DbTypes'  BY <1>2 DEF TypeOK, DbTypes, db
<1>. QED  BY <1>2, <1>3, <1>4, <1>5, <1>6 DEF TypeOK, ProcessTypes

-----------------------------------------------------------------------------
(* What a command on a payout knows when it commits: the row it validated  *)
(* was in a status the command lets through.  Type correctness rests on it *)
(* (no command writes a payout that does not exist), and so does the       *)
(* ledger invariant below.  Type correctness has one lemma per group of    *)
(* actions of Next.                                                        *)
RowFits ==
    \A i \in Instances : pc[i] = "commit" /\ cmd[i].op \in PayoutOps
                            => row[i].status \in From(cmd[i].op)

LEMMA InitTypes == Init => TypeOK
<1>. SUFFICES ASSUME Init PROVE TypeOK  OBVIOUS
<1>. USE DEF Init
<1>1. /\ session \in [Sessions -> SessionRows]
      /\ payout \in [Payouts -> PayoutRows]
      /\ mirror \in [Instances -> [Sessions -> SessionRows]]
      /\ quote \in [Instances -> Lines]
      /\ row \in [Instances -> PayoutRows]
  BY RestingTypes
<1>2. report \in [Sessions -> ReportStates]  BY DEF ReportStates
<1>3. \A p \in Payouts : payout[p].status = "absent"  BY DEF NoRow
<1>4. cmd = [i \in Instances |-> cmd[i]] /\ \A i \in Instances : CommandOK(cmd[i])
  BY RestingTypes
<1>5. /\ ledger \in Seq(LedgerEntries)
      /\ covered \in [Payouts -> SUBSET Sessions]
      /\ holder \in [LockKeys -> Instances \cup {Nobody}]
      /\ pc \in [Instances -> Steps]
      /\ want \in [Instances -> SUBSET LockKeys]
  BY DEF Steps
<1>. QED  BY <1>1, <1>2, <1>3, <1>4, <1>5 DEF TypeOK, DbTypes, ProcessTypes

LEMMA BeginAnyTypes ==
  ASSUME TypeOK, NEW i \in Instances, BeginAny(i)
  PROVE  TypeOK'
<1>1. CASE \E t \in Instructors, period \in Periods : Begin(i, "generate", t, period)
  <2>1. PICK t \in Instructors, period \in Periods : Begin(i, "generate", t, period)  BY <1>1
  <2>. QED  BY <2>1, BeginTypes DEF PayoutOps, SessionOps
<1>2. CASE \E p \in Payouts : /\ payout[p].status # "absent"
                              /\ \E op \in PayoutOps \ {"adjust"} : Begin(i, op, p, NoAmount)
  <2>1. PICK p \in Payouts, op \in PayoutOps \ {"adjust"} :
          payout[p].status # "absent" /\ Begin(i, op, p, NoAmount)  BY <1>2
  <2>2. op # "generate" /\ op \notin SessionOps /\ op # "setPayAmount"
    BY <2>1 DEF PayoutOps, SessionOps
  <2>. QED  BY <2>1, <2>2, BeginTypes
<1>3. CASE \E p \in Payouts : /\ payout[p].status # "absent"
                              /\ \E a \in Adjustments : Begin(i, "adjust", p, a)
  <2>1. PICK p \in Payouts, a \in Adjustments :
          payout[p].status # "absent" /\ Begin(i, "adjust", p, a)  BY <1>3
  <2>. QED  BY <2>1, BeginTypes DEF PayoutOps, SessionOps
<1>4. CASE \E s \in Sessions : \E op \in SessionOps \ {"setPayAmount"} : Begin(i, op, s, NoAmount)
  <2>1. PICK s \in Sessions, op \in SessionOps \ {"setPayAmount"} : Begin(i, op, s, NoAmount)
    BY <1>4
  <2>2. op # "generate" /\ op \notin PayoutOps /\ op # "adjust"
    BY <2>1 DEF PayoutOps, SessionOps
  <2>. QED  BY <2>1, <2>2, BeginTypes
<1>5. CASE \E s \in Sessions : \E a \in Overrides \cup {NoAmount} : Begin(i, "setPayAmount", s, a)
  <2>1. PICK s \in Sessions, a \in Overrides \cup {NoAmount} : Begin(i, "setPayAmount", s, a)
    BY <1>5
  <2>. QED  BY <2>1, BeginTypes DEF PayoutOps, SessionOps
<1>. QED  BY <1>1, <1>2, <1>3, <1>4, <1>5 DEF BeginAny

LEMMA ProceedTypes ==
  ASSUME TypeOK, NEW i \in Instances, Proceed(i)
  PROVE  TypeOK'
<1>. USE DEF TypeOK, ProcessTypes
<1>1. DbTypes'
  BY DEF Proceed, Acquire, LoadSessions, MeasureLines, MeasureAgain, ReadPayout, ReadSession,
         DbTypes, db
<1>2. CASE Acquire(i)
  <2>1. \A op, at : AfterLocks(op, at) \in Steps  BY DEF AfterLocks, Steps
  <2>2. (pc \in [Instances -> Steps])'  BY <1>2, <2>1 DEF Acquire, Goto
  <2>3. (holder \in [LockKeys -> Instances \cup {Nobody}])'  BY <1>2 DEF Acquire
  <2>4. (want \in [Instances -> SUBSET LockKeys])'  BY <1>2 DEF Acquire
  <2>. QED  BY <1>1, <1>2, <2>2, <2>3, <2>4 DEF Acquire
<1>3. CASE LoadSessions(i)
  <2>1. session \in [Sessions -> SessionRows]  BY DEF DbTypes
  <2>2. (mirror \in [Instances -> [Sessions -> SessionRows]])'  BY <1>3, <2>1 DEF LoadSessions
  <2>3. (pc \in [Instances -> Steps])'  BY <1>3 DEF LoadSessions, Goto, Steps
  <2>. QED  BY <1>1, <1>3, <2>2, <2>3 DEF LoadSessions
<1>4. ASSUME MeasureLines(i) \/ MeasureAgain(i)
      PROVE  /\ Measure(mirror[i], Target(i), Args(i)) \in Lines
             /\ (mirror \in [Instances -> [Sessions -> SessionRows]])'
             /\ (pc \in [Instances -> Steps])'
  <2>1. mirror[i] \in [Sessions -> SessionRows]  OBVIOUS
  <2>2. Target(i) \in Instructors /\ Args(i) \in Periods
    BY <1>4, TargetTypes DEF MeasureLines, MeasureAgain, Generating
  <2>3. (mirror \in [Instances -> [Sessions -> SessionRows]])'
    BY <1>4, RestingTypes DEF MeasureLines, MeasureAgain
  <2>4. (pc \in [Instances -> Steps])'  BY <1>4 DEF MeasureLines, MeasureAgain, Goto, Steps
  <2>. QED  BY <2>1, <2>2, <2>3, <2>4, MeasureTypes
<1>5. CASE MeasureLines(i)
  <2> DEFINE lines == Measure(mirror[i], Target(i), Args(i))
  <2>1. want' = [want EXCEPT ![i] = SessionKeys(DOMAIN lines)]  BY <1>5 DEF MeasureLines
  <2>2. DOMAIN lines \subseteq Sessions  BY <1>4, <1>5 DEF Lines
  <2>3. SessionKeys(DOMAIN lines) \in SUBSET LockKeys  BY <2>2 DEF SessionKeys, LockKeys
  <2>. HIDE DEF lines
  <2>4. (want \in [Instances -> SUBSET LockKeys])'  BY <2>1, <2>3
  <2>. QED  BY <1>1, <1>4, <1>5, <2>4 DEF MeasureLines
<1>6. CASE MeasureAgain(i)
  <2>1. (quote \in [Instances -> Lines])'  BY <1>4, <1>6 DEF MeasureAgain
  <2>. QED  BY <1>1, <1>4, <1>6, <2>1 DEF MeasureAgain
<1>7. CASE ReadPayout(i)
  <2>1. payout[Target(i)] \in PayoutRows  BY <1>7, TargetTypes DEF ReadPayout, DbTypes
  <2>2. (row \in [Instances -> PayoutRows])'  BY <1>7, <2>1 DEF ReadPayout
  <2>3. (pc \in [Instances -> Steps])'  BY <1>7 DEF ReadPayout, Goto, Steps
  <2>. QED  BY <1>1, <1>7, <2>2, <2>3 DEF ReadPayout
<1>8. CASE ReadSession(i)
  BY <1>1, <1>8 DEF ReadSession, Goto, Steps
<1>. QED  BY <1>2, <1>3, <1>5, <1>6, <1>7, <1>8 DEF Proceed

(* Linking, releasing and paying rewrite session rows field by field.      *)
LEMMA StampTypes ==
  ASSUME DbTypes, NEW i \in Instances, NEW p \in Payouts,
         Stamp(i, Released) \/ Stamp(i, ReleasedUnpaid) \/ Stamp(i, PaidBy(p))
  PROVE  (session \in [Sessions -> SessionRows])'
<1>1. session \in [Sessions -> SessionRows]  BY DEF DbTypes
<1>2. /\ Released \in [Sessions -> SessionRows]
      /\ ReleasedUnpaid \in [Sessions -> SessionRows]
      /\ PaidBy(p) \in [Sessions -> SessionRows]
  BY <1>1 DEF Released, ReleasedUnpaid, PaidBy, SessionRows
<1>. QED  BY <1>1, <1>2 DEF Stamp

(* The conditional UPDATE carries what the command read over to the row it *)
(* writes: the status is still one the command lets through.               *)
LEMMA CommitFrom ==
  ASSUME TypeOK, RowFits, NEW i \in Instances, NEW op \in PayoutOps,
         Committing(i, op), SameRevision(i) \/ SameStatus(i)
  PROVE  Target(i) \in Payouts /\ payout[Target(i)].status \in From(op)
<1>1. payout[Target(i)].status = row[i].status  BY DEF SameRevision, SameStatus
<1>2. row[i].status \in From(op)  BY DEF RowFits, Committing
<1>3. Target(i) \in Payouts  BY TargetTypes DEF Committing
<1>. QED  BY <1>1, <1>2, <1>3

LEMMA CommitPayoutTypes ==
  ASSUME TypeOK, RowFits, NEW i \in Instances, CommitPayout(i)
  PROVE  TypeOK'
<1>. USE DEF TypeOK, DbTypes
<1> DEFINE t == Target(i)
<1>1. ProcessTypes'
  BY FinishTypes DEF CommitPayout, Generate, Confirm, Unconfirm, Adjust, Reject, Pay, Reverse
<1>2. CASE Generate(i)
  <2>1. PICK p \in Payouts :
          /\ payout[p].status = "absent"
          /\ payout' = [payout EXCEPT ![p] = NewPayout(t, quote[i])]
          /\ session' = [s \in Sessions |-> IF s \in DOMAIN quote[i]
                           THEN [session[s] EXCEPT !.payoutId = p] ELSE session[s]]
          /\ covered' = [covered EXCEPT ![p] =
                           {s \in DOMAIN quote[i] : holder[<<"session", s>>] = i}]
    BY <1>2 DEF Generate
  <2>2. t \in Instructors  BY <1>2, TargetTypes DEF Generate, Generating
  <2>3. quote[i] \in Lines  BY DEF ProcessTypes
  <2>4. Total(quote[i]) \in PayoutAmounts  BY <2>3 DEF PayoutAmounts
  <2>5. NewPayout(t, quote[i]) \in PayoutRows
    BY <2>2, <2>3, <2>4 DEF NewPayout, PayoutRows, PayoutStates
  <2>6. (payout \in [Payouts -> PayoutRows])'  BY <2>1, <2>5
  <2>7. (\A q \in Payouts : payout[q].status # "absent" => payout[q].instructor \in Instructors)'
    BY <2>1, <2>2 DEF NewPayout
  <2>8. (session \in [Sessions -> SessionRows])'  BY <2>1 DEF SessionRows
  <2>9. (covered \in [Payouts -> SUBSET Sessions])'
    <3>1. DOMAIN quote[i] \subseteq Sessions  BY <2>3 DEF Lines
    <3>. QED  BY <2>1, <3>1
  <2>. QED  BY <1>1, <1>2, <2>6, <2>7, <2>8, <2>9 DEF Generate
<1>3. ASSUME NEW new \in {"pending", "confirmed", "paid", "rejected"}, t \in Payouts,
             payout' = [payout EXCEPT ![t].status = new]
                \/ payout' = [payout EXCEPT ![t].status = new, ![t].reversed = TRUE],
             payout[t].status # "absent"
      PROVE  /\ (payout \in [Payouts -> PayoutRows])'
             /\ (\A p \in Payouts :
                    payout[p].status # "absent" => payout[p].instructor \in Instructors)'
  <2>1. payout[t] \in PayoutRows  BY <1>3
  <2>2. /\ [payout[t] EXCEPT !.status = new] \in PayoutRows
        /\ [payout[t] EXCEPT !.status = new, !.reversed = TRUE] \in PayoutRows
    BY <2>1 DEF PayoutRows, PayoutStates
  <2>3. CASE payout' = [payout EXCEPT ![t].status = new]
    BY <1>3, <2>1, <2>2, <2>3 DEF PayoutRows
  <2>4. CASE payout' = [payout EXCEPT ![t].status = new, ![t].reversed = TRUE]
    BY <1>3, <2>1, <2>2, <2>4 DEF PayoutRows
  <2>. QED  BY <1>3, <2>3, <2>4
<1>4. ASSUME NEW direction \in {"in", "out"}, t \in Payouts,
             ledger' = Append(ledger, LedgerRow(t, direction))
      PROVE  (ledger \in Seq(LedgerEntries))'
  <2>1. LedgerRow(t, direction) \in LedgerEntries
    BY <1>4 DEF LedgerRow, LedgerEntries, PayoutRows
  <2>. QED  BY <1>4, <2>1
<1>5. ASSUME NEW op \in PayoutOps, Committing(i, op), SameRevision(i) \/ SameStatus(i)
      PROVE  t \in Payouts /\ payout[t].status # "absent"
  BY <1>5, CommitFrom DEF From, PayoutOps
<1>6. CASE Confirm(i)
  <2>1. t \in Payouts /\ payout[t].status # "absent"  BY <1>5, <1>6 DEF Confirm, PayoutOps
  <2>. QED  BY <1>1, <1>3, <1>6, <2>1 DEF Confirm, SetStatus
<1>7. CASE Unconfirm(i)
  <2>1. t \in Payouts /\ payout[t].status # "absent"  BY <1>5, <1>7 DEF Unconfirm, PayoutOps
  <2>. QED  BY <1>1, <1>3, <1>7, <2>1 DEF Unconfirm, SetStatus
<1>8. CASE Adjust(i)
  <2>1. t \in Payouts /\ payout[t].status # "absent"  BY <1>5, <1>8 DEF Adjust, PayoutOps
  <2>2. Args(i) \in Adjustments  BY <1>8, TargetTypes DEF Adjust, Committing
  <2>3. Args(i) \in PayoutAmounts  BY <2>2 DEF PayoutAmounts
  <2>4. (payout \in [Payouts -> PayoutRows])'  BY <1>8, <2>1, <2>2, <2>3 DEF Adjust, PayoutRows
  <2>5. (\A p \in Payouts : payout[p].status # "absent" => payout[p].instructor \in Instructors)'
    BY <1>8, <2>1 DEF Adjust, PayoutRows
  <2>. QED  BY <1>1, <1>8, <2>4, <2>5 DEF Adjust
<1>9. CASE Reject(i)
  <2>1. t \in Payouts /\ payout[t].status # "absent"  BY <1>5, <1>9 DEF Reject, PayoutOps
  <2>2. (session \in [Sessions -> SessionRows])'  BY <1>9, <2>1, StampTypes DEF Reject
  <2>. QED  BY <1>1, <1>3, <1>9, <2>1, <2>2 DEF Reject, SetStatus
<1>10. CASE Pay(i)
  <2>1. t \in Payouts /\ payout[t].status # "absent"  BY <1>5, <1>10 DEF Pay, PayoutOps
  <2>2. (session \in [Sessions -> SessionRows])'  BY <1>10, <2>1, StampTypes DEF Pay
  <2>3. (ledger \in Seq(LedgerEntries))'  BY <1>4, <1>10, <2>1 DEF Pay
  <2>. QED  BY <1>1, <1>3, <1>10, <2>1, <2>2, <2>3 DEF Pay, SetStatus
<1>11. CASE Reverse(i)
  <2>1. t \in Payouts /\ payout[t].status # "absent"  BY <1>5, <1>11 DEF Reverse, PayoutOps
  <2>2. (session \in [Sessions -> SessionRows])'  BY <1>11, <2>1, StampTypes DEF Reverse
  <2>3. (ledger \in Seq(LedgerEntries))'  BY <1>4, <1>11, <2>1 DEF Reverse
  <2>. QED  BY <1>1, <1>3, <1>11, <2>1, <2>2, <2>3 DEF Reverse
<1>. QED  BY <1>2, <1>6, <1>7, <1>8, <1>9, <1>10, <1>11 DEF CommitPayout

LEMMA CommitSessionTypes ==
  ASSUME TypeOK, NEW i \in Instances, CommitSession(i)
  PROVE  TypeOK'
<1>. USE DEF TypeOK, DbTypes
<1> DEFINE s == Target(i)
<1> DEFINE Commits == {"setPayAmount", "approveReport", "rescheduleSession", "cancelSession",
                       "recordAttendance", "clearAttendance", "removeSession"}
<1>1. ProcessTypes'
  BY FinishTypes DEF CommitSession, SetPayAmount, ApproveReport, RejectReport, SubmitReport,
     RescheduleSession, CancelSession, RecordAttendance, ClearAttendance, RemoveSession
<1>2. s \in Sessions
  BY TargetTypes DEF CommitSession, SetPayAmount, ApproveReport, RejectReport, SubmitReport,
     RescheduleSession, CancelSession, RecordAttendance, ClearAttendance, RemoveSession,
     Committing, SessionOps
<1>3. (session \in [Sessions -> SessionRows])'
  <2>1. session[s] \in SessionRows  BY <1>2
  <2>2. /\ \A st \in SessionStates : [session[s] EXCEPT !.status = st] \in SessionRows
        /\ [session[s] EXCEPT !.present = FALSE] \in SessionRows
        /\ \A a \in Overrides \cup {NoAmount} : [session[s] EXCEPT !.override = a] \in SessionRows
    BY <2>1 DEF SessionRows
  <2>3. {"scheduled", "held", "canceled"} = SessionStates  BY DEF SessionStates
  <2>4. ASSUME NEW new \in SessionRows, UpdateRow(i, new)
        PROVE  (session \in [Sessions -> SessionRows])'
    BY <2>4 DEF UpdateRow
  <2>5. CASE SetPayAmount(i)
    <3>1. Args(i) \in Overrides \cup {NoAmount}  BY <2>5, TargetTypes DEF SetPayAmount, Committing
    <3>. QED  BY <2>2, <2>4, <2>5, <3>1 DEF SetPayAmount
  <2>6. CASE ApproveReport(i)  BY <2>2, <2>3, <2>4, <2>6 DEF ApproveReport
  <2>7. CASE RescheduleSession(i)  BY <2>2, <2>3, <2>4, <2>7 DEF RescheduleSession
  <2>8. CASE CancelSession(i)  BY <2>2, <2>3, <2>4, <2>8 DEF CancelSession
  <2>9. CASE RecordAttendance(i)  BY <2>2, <2>3, <2>4, <2>9 DEF RecordAttendance
  <2>10. CASE ClearAttendance(i)  BY <2>2, <2>3, <2>4, <2>10 DEF ClearAttendance
  <2>11. CASE RemoveSession(i)  BY <2>2, <2>4, <2>11 DEF RemoveSession
  <2>12. CASE RejectReport(i) \/ SubmitReport(i)  BY <2>12 DEF RejectReport, SubmitReport
  <2>. QED  BY <2>5, <2>6, <2>7, <2>8, <2>9, <2>10, <2>11, <2>12 DEF CommitSession
<1>4. (report \in [Sessions -> ReportStates])'
  BY <1>2 DEF CommitSession, SetPayAmount, ApproveReport, RejectReport, SubmitReport,
     RescheduleSession, CancelSession, RecordAttendance, ClearAttendance, RemoveSession,
     ReportStates
<1>5. UNCHANGED <<payout, ledger, covered>>
  BY DEF CommitSession, SetPayAmount, ApproveReport, RejectReport, SubmitReport,
     RescheduleSession, CancelSession, RecordAttendance, ClearAttendance, RemoveSession
<1>. QED  BY <1>1, <1>3, <1>4, <1>5

(* A command only commits from a row it found in a status it lets through. *)
LEMMA RowFitsStep ==
  ASSUME TypeOK, RowFits, [Next]_vars
  PROVE  RowFits'
<1>. USE DEF RowFits
<1>1. CASE UNCHANGED vars  BY <1>1 DEF vars, process
<1>2. ASSUME NEW i \in Instances, Finish(i)
      PROVE  RowFits'
  BY <1>2 DEF Finish, Goto, TypeOK, ProcessTypes
<1>3. ASSUME NEW i \in Instances, BeginAny(i)
      PROVE  RowFits'
  BY <1>3 DEF BeginAny, Begin, Goto, TypeOK, ProcessTypes
<1>4. ASSUME NEW i \in Instances, Proceed(i)
      PROVE  RowFits'
  <2>. USE DEF TypeOK, ProcessTypes, Goto
  <2>1. CASE Acquire(i)
    <3>1. \A op, at : AfterLocks(op, at) # "commit"  BY DEF AfterLocks
    <3>. QED  BY <2>1, <3>1 DEF Acquire
  <2>2. CASE LoadSessions(i)  BY <2>2 DEF LoadSessions
  <2>3. CASE MeasureLines(i)  BY <2>3 DEF MeasureLines
  <2>4. CASE MeasureAgain(i)  BY <2>4 DEF MeasureAgain, Generating, PayoutOps
  <2>5. CASE ReadPayout(i)  BY <2>5 DEF ReadPayout
  <2>6. CASE ReadSession(i)  BY <2>6 DEF ReadSession, SessionOps, PayoutOps
  <2>. QED  BY <1>4, <2>1, <2>2, <2>3, <2>4, <2>5, <2>6 DEF Proceed
<1>5. ASSUME NEW i \in Instances, CommitPayout(i) \/ CommitSession(i) \/ Abort(i)
      PROVE  Finish(i)
  BY <1>5 DEF Abort, CommitPayout, Generate, Confirm, Unconfirm, Adjust, Reject, Pay, Reverse,
     CommitSession, SetPayAmount, ApproveReport, RejectReport, SubmitReport, RescheduleSession,
     CancelSession, RecordAttendance, ClearAttendance, RemoveSession
<1>. QED  BY <1>1, <1>2, <1>3, <1>4, <1>5 DEF Next

(* Type correctness of the settlement for every instance of its constants. *)
THEOREM Typing == Spec => [](TypeOK /\ RowFits)
<1>1. Init => TypeOK /\ RowFits
  BY InitTypes DEF Init, RowFits
<1>2. TypeOK /\ RowFits /\ [Next]_vars => TypeOK' /\ RowFits'
  <2>. SUFFICES ASSUME TypeOK, RowFits, [Next]_vars PROVE TypeOK'  BY RowFitsStep
  <2>1. CASE UNCHANGED vars
    BY <2>1 DEF vars, db, process, TypeOK, DbTypes, ProcessTypes
  <2>2. ASSUME NEW i \in Instances, Abort(i)
        PROVE  TypeOK'
    BY <2>2, FinishTypes DEF Abort, TypeOK, DbTypes, db
  <2>. QED  BY <2>1, <2>2, BeginAnyTypes, ProceedTypes, CommitPayoutTypes, CommitSessionTypes DEF Next
<1>. QED  BY <1>1, <1>2, PTL DEF Spec

-----------------------------------------------------------------------------
(* The ledger and the payouts tell the same story.                         *)

(* What one inserted transactions row changes.                             *)
LEMMA Booking ==
  ASSUME TypeOK, NEW t \in Payouts, NEW side \in {"in", "out"},
         ledger' = Append(ledger, LedgerRow(t, side))
  PROVE  /\ Len(ledger) + 1 \notin DOMAIN ledger
         /\ DOMAIN ledger' = DOMAIN ledger \cup {Len(ledger) + 1}
         /\ \A n \in DOMAIN ledger : ledger'[n] = ledger[n] /\ n < Len(ledger) + 1
         /\ ledger'[Len(ledger) + 1] = LedgerRow(t, side)
         /\ \A p \in Payouts, d \in {"in", "out"} :
              LedgerRows(p, d)' = IF p = t /\ d = side
                                  THEN LedgerRows(p, d) \cup {Len(ledger) + 1}
                                  ELSE LedgerRows(p, d)
<1>. DEFINE e == LedgerRow(t, side)
<1>1. e.doc = t /\ e.direction = side  BY DEF LedgerRow
<1>2. ledger \in Seq(LedgerEntries) /\ e \in LedgerEntries
  BY DEF TypeOK, DbTypes, LedgerRow, LedgerEntries, PayoutRows
<1>. HIDE DEF e
<1>3. /\ Len(ledger) + 1 \notin DOMAIN ledger
      /\ DOMAIN ledger' = DOMAIN ledger \cup {Len(ledger) + 1}
      /\ \A n \in DOMAIN ledger : ledger'[n] = ledger[n] /\ n < Len(ledger) + 1
      /\ ledger'[Len(ledger) + 1] = e
  <2>1. ledger' = Append(ledger, e)  BY DEF e
  <2>2. Len(ledger') = Len(ledger) + 1 /\ Len(ledger) \in Nat
    BY <1>2, <2>1
  <2>3. DOMAIN ledger' = 1 .. Len(ledger') /\ DOMAIN ledger = 1 .. Len(ledger)
    BY <1>2, <2>1
  <2>. QED  BY <1>2, <2>1, <2>2, <2>3
<1>. QED  BY <1>1, <1>3 DEF LedgerRows, e

(* A payout whose row and ledger rows are as before keeps its story.       *)
LEMMA SameStory ==
  ASSUME TypeOK, NEW p \in Payouts, BookedAs(p),
         payout'[p] = payout[p],
         \A d \in {"in", "out"} : LedgerRows(p, d)' = LedgerRows(p, d),
         \A n \in DOMAIN ledger : n \in DOMAIN ledger' /\ ledger'[n] = ledger[n]
  PROVE  BookedAs(p)'
BY DEF BookedAs, PaidBack, PaidOut, Unbooked

LEMMA BookedAsStep ==
  ASSUME TypeOK, RowFits, LedgerMatchesStatus, NEW i \in Instances, CommitPayout(i)
  PROVE  LedgerMatchesStatus'
<1>. DEFINE t == Target(i)
<1>. SUFFICES ASSUME NEW p \in Payouts PROVE BookedAs(p)'  BY DEF LedgerMatchesStatus
<1>1. BookedAs(p)  BY DEF LedgerMatchesStatus
<1>2. ASSUME ledger' = ledger, payout'[p] = payout[p]
      PROVE  BookedAs(p)'
  <2>1. \A d \in {"in", "out"} : LedgerRows(p, d)' = LedgerRows(p, d)  BY <1>2 DEF LedgerRows
  <2>. QED  BY <1>1, <1>2, <2>1, SameStory
<1>3. ASSUME ledger' = ledger, payout[p].status # "paid", ~payout[p].reversed,
             payout'[p].status # "paid", ~payout'[p].reversed
      PROVE  BookedAs(p)'
  BY <1>1, <1>3 DEF BookedAs, Unbooked, LedgerRows
<1>4. CASE Generate(i)
  <2>1. PICK q \in Payouts :
          payout[q].status = "absent" /\ payout' = [payout EXCEPT ![q] = NewPayout(t, quote[i])]
    BY <1>4 DEF Generate
  <2>2. CASE p = q
    <3>1. payout'[p] = NewPayout(t, quote[i])  BY <2>1, <2>2 DEF TypeOK, DbTypes
    <3>2. ~payout[p].reversed  BY <1>1, <2>1, <2>2 DEF BookedAs
    <3>. QED  BY <1>3, <1>4, <2>1, <2>2, <3>1, <3>2 DEF Generate, NewPayout
  <2>3. CASE p # q
    BY <1>2, <1>4, <2>1, <2>3 DEF Generate, TypeOK, DbTypes
  <2>. QED  BY <2>2, <2>3
<1>5. CASE Confirm(i) \/ Unconfirm(i) \/ Adjust(i)
  <2>1. payout[t].status \in {"pending", "confirmed"}
    BY <1>5, CommitFrom DEF Confirm, Unconfirm, Adjust, From, PayoutOps
  <2>2. CASE p = t
    <3>1. ~payout[p].reversed  BY <1>1, <2>1, <2>2 DEF BookedAs
    <3>2. payout'[p].status \in {"pending", "confirmed"} /\ payout'[p].reversed = payout[p].reversed
      BY <1>5, <2>1, <2>2 DEF Confirm, Unconfirm, Adjust, SetStatus, TypeOK, DbTypes, PayoutRows
    <3>. QED  BY <1>3, <1>5, <2>1, <2>2, <3>1, <3>2 DEF Confirm, Unconfirm, Adjust
  <2>3. CASE p # t
    BY <1>2, <1>5, <2>3 DEF Confirm, Unconfirm, Adjust, SetStatus, TypeOK, DbTypes
  <2>. QED  BY <2>2, <2>3
<1>6. CASE Reject(i)
  <2>1. payout[t].status \in {"pending", "confirmed", "rejected"}
    BY <1>6, CommitFrom DEF Reject, From, PayoutOps
  <2>2. payout' = [payout EXCEPT ![t].status = "rejected"] /\ ledger' = ledger
    BY <1>6 DEF Reject, SetStatus
  <2>3. CASE p = t /\ payout[p].reversed
    <3>1. payout[p].status = "rejected"  BY <1>1, <2>3 DEF BookedAs
    <3>2. payout'[p] = payout[p]  BY <2>2, <2>3, <3>1 DEF TypeOK, DbTypes, PayoutRows
    <3>. QED  BY <1>2, <2>2, <3>2
  <2>4. CASE p = t /\ ~payout[p].reversed
    <3>1. payout'[p].status = "rejected" /\ payout'[p].reversed = payout[p].reversed
      BY <2>2, <2>4 DEF TypeOK, DbTypes, PayoutRows
    <3>. QED  BY <1>3, <2>1, <2>2, <2>4, <3>1
  <2>5. CASE p # t
    BY <1>2, <2>2, <2>5 DEF TypeOK, DbTypes
  <2>. QED  BY <2>3, <2>4, <2>5
<1>7. CASE Pay(i)
  <2>1. t \in Payouts /\ payout[t].status = "confirmed"
    BY <1>7, CommitFrom DEF Pay, From, PayoutOps
  <2>2. /\ payout' = [payout EXCEPT ![t].status = "paid"]
        /\ ledger' = Append(ledger, LedgerRow(t, "out"))
    BY <1>7 DEF Pay, SetStatus
  <2>3. CASE p = t
    <3>1. ~payout[p].reversed /\ Unbooked(p)  BY <1>1, <2>1, <2>3 DEF BookedAs
    <3>2. /\ payout'[p].status = "paid" /\ payout'[p].reversed = payout[p].reversed
          /\ payout'[p].amount = payout[p].amount
      BY <2>2, <2>3 DEF TypeOK, DbTypes, PayoutRows
    <3>3. LedgerRows(p, "in")' = {} /\ LedgerRows(p, "out")' = {Len(ledger) + 1}
      BY <2>1, <2>2, <2>3, <3>1, Booking DEF Unbooked
    <3>4. Len(ledger) + 1 \in DOMAIN ledger' /\ ledger'[Len(ledger) + 1].amount = payout[p].amount
      BY <2>1, <2>2, <2>3, Booking DEF LedgerRow
    <3>5. PaidOut(p)'  BY <3>2, <3>3, <3>4 DEF PaidOut
    <3>. QED  BY <3>1, <3>2, <3>5 DEF BookedAs
  <2>4. CASE p # t
    BY <1>1, <2>1, <2>2, <2>4, Booking, SameStory DEF TypeOK, DbTypes
  <2>. QED  BY <2>3, <2>4
<1>8. CASE Reverse(i)
  <2>1. t \in Payouts /\ payout[t].status = "paid"
    BY <1>8, CommitFrom DEF Reverse, From, PayoutOps
  <2>2. /\ payout' = [payout EXCEPT ![t].status = "rejected", ![t].reversed = TRUE]
        /\ ledger' = Append(ledger, LedgerRow(t, "in"))
    BY <1>8 DEF Reverse
  <2>3. CASE p = t
    <3>1. PICK n \in DOMAIN ledger :
            /\ LedgerRows(p, "in") = {} /\ LedgerRows(p, "out") = {n}
            /\ ledger[n].amount = payout[p].amount
      BY <1>1, <2>1, <2>3 DEF BookedAs, PaidOut
    <3>2. /\ payout'[p].status = "rejected" /\ payout'[p].reversed
          /\ payout'[p].amount = payout[p].amount
      BY <2>2, <2>3 DEF TypeOK, DbTypes, PayoutRows
    <3>3. LedgerRows(p, "in")' = {Len(ledger) + 1} /\ LedgerRows(p, "out")' = {n}
      BY <2>1, <2>2, <2>3, <3>1, Booking
    <3>4. /\ n \in DOMAIN ledger' /\ ledger'[n].amount = payout[p].amount
          /\ Len(ledger) + 1 \in DOMAIN ledger' /\ n < Len(ledger) + 1
          /\ ledger'[Len(ledger) + 1].amount = payout[p].amount
      BY <2>1, <2>2, <2>3, <3>1, Booking DEF LedgerRow
    <3>5. PaidBack(p)'  BY <3>2, <3>3, <3>4 DEF PaidBack
    <3>. QED  BY <3>2, <3>5 DEF BookedAs
  <2>4. CASE p # t
    BY <1>1, <2>1, <2>2, <2>4, Booking, SameStory DEF TypeOK, DbTypes
  <2>. QED  BY <2>3, <2>4
<1>. QED  BY <1>4, <1>5, <1>6, <1>7, <1>8 DEF CommitPayout

(* Everything but the commit of a command on payouts leaves them alone.    *)
LEMMA OtherSteps ==
  ASSUME NEW i \in Instances, BeginAny(i) \/ Proceed(i) \/ CommitSession(i) \/ Abort(i)
  PROVE  UNCHANGED <<payout, ledger>>
<1>1. ASSUME BeginAny(i) PROVE UNCHANGED db
  BY <1>1 DEF BeginAny, Begin
<1>2. ASSUME Proceed(i) PROVE UNCHANGED db
  BY <1>2 DEF Proceed, Acquire, LoadSessions, MeasureLines, MeasureAgain, ReadPayout, ReadSession
<1>3. ASSUME Abort(i) PROVE UNCHANGED db
  BY <1>3 DEF Abort
<1>4. ASSUME CommitSession(i) PROVE UNCHANGED <<payout, ledger>>
  BY <1>4 DEF CommitSession, SetPayAmount, ApproveReport, RejectReport, SubmitReport,
     RescheduleSession, CancelSession, RecordAttendance, ClearAttendance, RemoveSession
<1>. QED  BY <1>1, <1>2, <1>3, <1>4 DEF db

(* pay and reverse: the ledger of any number of payouts tells their story. *)
THEOREM LedgerMatches == Spec => []LedgerMatchesStatus
<1>1. Init => LedgerMatchesStatus
  BY DEF Init, LedgerMatchesStatus, BookedAs, Unbooked, LedgerRows, NoRow
<1>2. TypeOK /\ RowFits /\ LedgerMatchesStatus /\ [Next]_vars => LedgerMatchesStatus'
  <2>. SUFFICES ASSUME TypeOK, RowFits, LedgerMatchesStatus, [Next]_vars
                PROVE  LedgerMatchesStatus'
    OBVIOUS
  <2>1. CASE UNCHANGED <<payout, ledger>>
    BY <2>1 DEF LedgerMatchesStatus, BookedAs, PaidBack, PaidOut, Unbooked, LedgerRows
  <2>2. ASSUME NEW i \in Instances, CommitPayout(i) PROVE LedgerMatchesStatus'
    BY <2>2, BookedAsStep
  <2>. QED  BY <2>1, <2>2, OtherSteps DEF Next, vars, db
<1>. QED  BY <1>1, <1>2, Typing, PTL DEF Spec

(* pay, reject and reverse: once money moved or a payout was given up, no  *)
(* command changes its amount or its lines, or takes it back into the      *)
(* workflow, however late it was started.                                  *)
THEOREM Frozen == Spec => SettledIsFrozen
<1> DEFINE Kept(p) ==
      payout[p].status \in {"paid", "rejected"} =>
          /\ payout'[p].amount = payout[p].amount
          /\ payout'[p].lines = payout[p].lines
          /\ payout'[p].status \in {"paid", "rejected"}
          /\ payout[p].status = "rejected" => payout'[p].status = "rejected"
<1>1. ASSUME TypeOK, RowFits, NEW i \in Instances, CommitPayout(i), NEW p \in Payouts
      PROVE  Kept(p)
  <2> DEFINE t == Target(i)
  <2>. USE DEF TypeOK, DbTypes, PayoutRows
  <2>1. CASE Generate(i)
    BY <2>1 DEF Generate
  <2>2. CASE Confirm(i) \/ Unconfirm(i) \/ Adjust(i)
    <3>1. payout[t].status \in {"pending", "confirmed"}
      BY <1>1, <2>2, CommitFrom DEF Confirm, Unconfirm, Adjust, From, PayoutOps
    <3>. QED  BY <1>1, <2>2, <3>1 DEF Confirm, Unconfirm, Adjust, SetStatus
  <2>3. CASE Reject(i)
    <3>1. payout[t].status # "paid"
      BY <1>1, <2>3, CommitFrom DEF Reject, From, PayoutOps
    <3>. QED  BY <1>1, <2>3, <3>1 DEF Reject, SetStatus
  <2>4. CASE Pay(i)
    <3>1. payout[t].status = "confirmed"  BY <1>1, <2>4, CommitFrom DEF Pay, From, PayoutOps
    <3>. QED  BY <1>1, <2>4, <3>1 DEF Pay, SetStatus
  <2>5. CASE Reverse(i)
    <3>1. payout[t].status = "paid"  BY <1>1, <2>5, CommitFrom DEF Reverse, From, PayoutOps
    <3>. QED  BY <1>1, <2>5, <3>1 DEF Reverse
  <2>. QED  BY <1>1, <2>1, <2>2, <2>3, <2>4, <2>5 DEF CommitPayout
<1>2. TypeOK /\ RowFits /\ [Next]_vars => [\A p \in Payouts : Kept(p)]_vars
  <2>. SUFFICES ASSUME TypeOK, RowFits, Next, NEW p \in Payouts PROVE Kept(p)  OBVIOUS
  <2>1. ASSUME UNCHANGED payout PROVE Kept(p)  BY <2>1
  <2>. QED  BY <1>1, <2>1, OtherSteps DEF Next
<1>. QED  BY <1>2, Typing, PTL DEF Spec, SettledIsFrozen

-----------------------------------------------------------------------------
(* The settlement implements the ledger's contract: pay books a payout,    *)
(* reverse compensates it, nothing else moves money.                       *)
THEOREM ImplementsLedger == Spec => KeepsTheBooks
<1>. USE DEF LedgerStage
<1>1. Init => Books!MLInit
  BY DEF Init, Books!MLInit, NoRow
<1>2. TypeOK /\ RowFits /\ LedgerMatchesStatus /\ [Next]_vars => [Books!MLNext]_(Books!mvars)
  <2>. SUFFICES ASSUME TypeOK, RowFits, LedgerMatchesStatus, [Next]_vars
                PROVE  Books!MLNext \/ UNCHANGED <<LedgerStage, ledger>>
    BY DEF Books!mvars
  <2>. USE DEF TypeOK, DbTypes, PayoutRows
  <2>1. CASE UNCHANGED <<payout, ledger>>
    BY <2>1
  <2>2. ASSUME NEW i \in Instances, Generate(i)
        PROVE  UNCHANGED <<LedgerStage, ledger>>
    <3>1. PICK q \in Payouts : /\ payout[q].status = "absent"
                               /\ payout' = [payout EXCEPT ![q] = NewPayout(Target(i), quote[i])]
      BY <2>2 DEF Generate
    <3>2. ~payout[q].reversed  BY <3>1 DEF LedgerMatchesStatus, BookedAs
    <3>3. payout'[q].status = "pending" /\ ~payout'[q].reversed  BY <3>1 DEF NewPayout
    <3>. QED  BY <2>2, <3>1, <3>2, <3>3 DEF Generate
  <2>3. ASSUME NEW i \in Instances, Confirm(i) \/ Unconfirm(i) \/ Adjust(i) \/ Reject(i)
        PROVE  UNCHANGED <<LedgerStage, ledger>>
    <3> DEFINE t == Target(i)
    <3>1. payout[t].status \notin {"paid", "absent"}
      BY <2>3, CommitFrom DEF Confirm, Unconfirm, Adjust, Reject, From, PayoutOps
    <3>2. /\ payout'[t].status # "paid" /\ payout'[t].reversed = payout[t].reversed
          /\ \A p \in Payouts \ {t} : payout'[p] = payout[p]
          /\ UNCHANGED ledger
      BY <2>3, <3>1 DEF Confirm, Unconfirm, Adjust, Reject, SetStatus
    <3>. QED  BY <3>1, <3>2
  <2>4. ASSUME NEW i \in Instances, Pay(i)
        PROVE  Books!MLNext
    <3>1. PICK t \in Payouts : t = Target(i) /\ payout[t].status = "confirmed"
      BY <2>4, CommitFrom DEF Pay, From, PayoutOps
    <3>2. ~payout[t].reversed  BY <3>1 DEF LedgerMatchesStatus, BookedAs
    <3>3. /\ payout' = [payout EXCEPT ![t].status = "paid"]
          /\ ledger' = Append(ledger, LedgerRow(t, "out"))
      BY <2>4, <3>1 DEF Pay, SetStatus
    <3>4. LedgerStage[t] = "open" /\ LedgerStage' = [LedgerStage EXCEPT ![t] = "booked"]
      <4>1. /\ payout'[t].status = "paid" /\ payout'[t].reversed = payout[t].reversed
            /\ \A p \in Payouts \ {t} : payout'[p] = payout[p]
        BY <3>1, <3>3
      <4>2. LedgerStage[t] = "open"  BY <3>1, <3>2
      <4>3. LedgerStage' = [LedgerStage EXCEPT ![t] = "booked"]  BY <3>1, <4>1
      <4>. QED  BY <4>2, <4>3
    <3>5. ledger'[Len(ledger) + 1] = LedgerRow(t, "out")  BY <3>1, <3>3, Booking
    <3>6. LedgerRow(t, "out").amount \in PayoutAmounts
          /\ LedgerRow(t, "out") = Books!Entry(t, "out", LedgerRow(t, "out").amount)
      BY <3>1 DEF LedgerRow, Books!Entry
    <3>7. Books!Book(t)  BY <3>3, <3>4, <3>5, <3>6 DEF Books!Book
    <3>. QED  BY <3>7 DEF Books!MLNext
  <2>5. ASSUME NEW i \in Instances, Reverse(i)
        PROVE  Books!MLNext
    <3>1. PICK t \in Payouts : t = Target(i) /\ payout[t].status = "paid"
      BY <2>5, CommitFrom DEF Reverse, From, PayoutOps
    <3>2. PICK n \in DOMAIN ledger :
            LedgerRows(t, "out") = {n} /\ ledger[n].amount = payout[t].amount
      BY <3>1 DEF LedgerMatchesStatus, BookedAs, PaidOut
    <3>3. ledger[n].doc = t /\ ledger[n].direction = "out"  BY <3>2 DEF LedgerRows
    <3>4. /\ payout' = [payout EXCEPT ![t].status = "rejected", ![t].reversed = TRUE]
          /\ ledger' = Append(ledger, LedgerRow(t, "in"))
      BY <2>5, <3>1 DEF Reverse
    <3>5. LedgerStage[t] = "booked" /\ LedgerStage' = [LedgerStage EXCEPT ![t] = "compensated"]
      <4>1. /\ payout'[t].status = "rejected" /\ payout'[t].reversed
            /\ \A p \in Payouts \ {t} : payout'[p] = payout[p]
        BY <3>1, <3>4
      <4>2. LedgerStage[t] = "booked"  BY <3>1
      <4>3. LedgerStage' = [LedgerStage EXCEPT ![t] = "compensated"]  BY <3>1, <4>1
      <4>. QED  BY <4>2, <4>3
    <3>6. LedgerRow(t, "in") = Books!Entry(t, "in", ledger[n].amount)
      BY <3>2 DEF LedgerRow, Books!Entry
    <3>7. Books!Compensate(t)  BY <3>3, <3>4, <3>5, <3>6 DEF Books!Compensate
    <3>. QED  BY <3>7 DEF Books!MLNext
  <2>. QED  BY <2>1, <2>2, <2>3, <2>4, <2>5, OtherSteps DEF Next, CommitPayout, vars, db
<1>. QED  BY <1>1, <1>2, Typing, LedgerMatches, PTL DEF Spec, KeepsTheBooks, Books!MLSpec

-----------------------------------------------------------------------------
(* Links, prices and flags.  What the integrity check looks for follows    *)
(* from how payouts and session rows refer to each other, and that is kept *)
(* because of what a command holds and has read.                           *)

(* The sessions a payout lists are its instructor's; what it pays is       *)
(* either their total or what was set by hand.                             *)
LinesFit ==
    \A p \in Payouts : payout[p].status # "absent" =>
        /\ \A s \in DOMAIN payout[p].lines : Teacher[s] = payout[p].instructor
        /\ covered[p] \subseteq DOMAIN payout[p].lines
        /\ payout[p].amount = Effective(payout[p])

(* A session that was not removed and an active payout refer to each       *)
(* other, or neither does.                                                 *)
Linked ==
    /\ \A s \in Sessions, p \in Payouts :
          session[s].present /\ session[s].payoutId = p =>
              payout[p].status \in Active /\ s \in DOMAIN payout[p].lines
    /\ \A p \in Payouts : payout[p].status \in Active =>
          \A s \in DOMAIN payout[p].lines : session[s].present => session[s].payoutId = p

ClaimedOnce ==
    \A p, q \in Payouts : p # q /\ payout[p].status \in Active /\ payout[q].status \in Active =>
        DOMAIN payout[p].lines \cap DOMAIN payout[q].lines = {}

(* Past its first lockTargets call a command holds the keys of it.         *)
HoldsFirst(i) ==
    /\ cmd[i].op \in PayoutOps => payout[Target(i)].status # "absent"
    /\ pc[i] = "idle" <=> cmd[i].op = "none"
    /\ pc[i] = "lock" => want[i] = FirstKeys(cmd[i].op, Target(i))
    /\ pc[i] \notin {"idle", "lock"} =>
          \A k \in FirstKeys(cmd[i].op, Target(i)) : holder[k] = i

(* What refreshReadInputs put into the mirror of a command that stamps the *)
(* lines of its payout: every link to the payout that there is, and for a  *)
(* rejection no link that has gone to another payout since.                *)
SawLinks(i) ==
    cmd[i].op \in {"reject", "pay", "reverse"} /\ pc[i] \in {"read", "commit"} =>
        /\ \A s \in Sessions : session[s].present /\ session[s].payoutId = Target(i) =>
              mirror[i][s].present /\ mirror[i][s].payoutId = Target(i)
        /\ cmd[i].op = "reject" =>
              \A s \in DOMAIN payout[Target(i)].lines :
                  mirror[i][s].present /\ mirror[i][s].payoutId = Target(i) /\ session[s].present =>
                      session[s].payoutId \in {Target(i), NoPayout}

SawLines(i) ==
    cmd[i].op \in PayoutOps /\ pc[i] = "commit" => row[i].lines = payout[Target(i)].lines

(* What generate measured of a session it has locked is still so.          *)
Locked(i, s) == holder[<<"session", s>>] = i

SawPrices(i) ==
    /\ Generating(i, "read2") => \A s \in Sessions : Locked(i, s) =>
           /\ mirror[i][s].present = session[s].present
           /\ mirror[i][s].status = session[s].status
           /\ mirror[i][s].override = session[s].override
    /\ Generating(i, "commit") => \A s \in DOMAIN quote[i] :
           /\ Teacher[s] = Target(i)
           /\ Locked(i, s) => /\ session[s].status = "held"
                              /\ Priced(session[s], report[s])
                              /\ quote[i][s] = Price(s, session[s])

(* What a command on a session validated holds for as long as it keeps the *)
(* session locked.                                                         *)
Uncovered(s) == \A p \in Payouts : payout[p].status \in Active => s \notin covered[p]

SawSession(i) ==
    pc[i] = "commit" =>
        /\ cmd[i].op \in {"rescheduleSession", "cancelSession", "clearAttendance", "removeSession"} =>
              Uncovered(Target(i))
        /\ cmd[i].op = "rejectReport" /\ report[Target(i)] = "approved" => Uncovered(Target(i))
        /\ cmd[i].op = "submitReport" => report[Target(i)] # "approved"

Prepared(i) == HoldsFirst(i) /\ SawLinks(i) /\ SawLines(i) /\ SawPrices(i) /\ SawSession(i)

(* What is true of the rows alone, and of all that processes have read.    *)
Rows == LinesFit /\ Linked /\ ClaimedOnce /\ PaidFlagsAgree /\ CoveredLinesStayBillable

Consistent == Rows /\ \A i \in Instances : Prepared(i)
-----------------------------------------------------------------------------
(* A step of one instance and what the others hold and have read.          *)

(* The step leaves instance j where it is, with the keys it holds.         *)
Spares(j) ==
    /\ pc'[j] = pc[j] /\ cmd'[j] = cmd[j] /\ want'[j] = want[j]
    /\ mirror'[j] = mirror[j] /\ quote'[j] = quote[j] /\ row'[j] = row[j]
    /\ \A k \in LockKeys : holder'[k] = j <=> holder[k] = j

(* What any step of instance i may do to the rows: payouts that exist keep *)
(* their lines and are never taken back; links go to new payouts of an     *)
(* instructor i has locked, or away; what is priced changes, and is newly  *)
(* covered, only in sessions i has locked.                                 *)
Moves(i) ==
    /\ \A p \in Payouts : payout[p].status # "absent" =>
          /\ payout'[p].status # "absent"
          /\ payout'[p].instructor = payout[p].instructor
          /\ payout'[p].lines = payout[p].lines
          /\ covered'[p] = covered[p]
          /\ payout'[p].status \in Active => payout[p].status \in Active
    /\ \A p \in Payouts : payout[p].status = "absent" /\ payout'[p].status \in Active =>
          \A s \in covered'[p] : Locked(i, s)
    /\ \A s \in Sessions :
          /\ session'[s].present => session[s].present
          /\ \/ session'[s].payoutId \in {session[s].payoutId, NoPayout}
             \/ /\ session'[s].payoutId \in Payouts
                /\ payout[session'[s].payoutId].status = "absent"
                /\ holder[<<"instructor", Teacher[s]>>] = i
          /\ \/ Locked(i, s)
             \/ /\ session'[s].present = session[s].present
                /\ session'[s].status = session[s].status
                /\ session'[s].override = session[s].override
                /\ report'[s] = report[s]

LEMMA FinishSpares ==
  ASSUME TypeOK, NEW i \in Instances, Finish(i), NEW j \in Instances, j # i
  PROVE  Spares(j)
BY ConstantsAssumption DEF Spares, Finish, Goto, TypeOK, ProcessTypes

LEMMA ProceedSpares ==
  ASSUME TypeOK, NEW i \in Instances, BeginAny(i) \/ Proceed(i), NEW j \in Instances, j # i
  PROVE  Spares(j)
<1>. USE DEF Spares, Goto, TypeOK, ProcessTypes
<1>1. CASE BeginAny(i)  BY <1>1 DEF BeginAny, Begin
<1>2. CASE Acquire(i)
  <2>1. PICK k : /\ holder[k] \in {Nobody, i} /\ holder' = [holder EXCEPT ![k] = i]
                 /\ want' = [want EXCEPT ![i] = @ \ {k}]
                 /\ pc' = [pc EXCEPT ![i] = AfterLocks(cmd[i].op, pc[i])] \/ UNCHANGED pc
    BY <1>2 DEF Acquire
  <2>. QED  BY <1>2, <2>1, ConstantsAssumption DEF Acquire
<1>3. CASE LoadSessions(i)  BY <1>3 DEF LoadSessions
<1>4. CASE MeasureLines(i)  BY <1>4 DEF MeasureLines
<1>5. CASE MeasureAgain(i)  BY <1>5 DEF MeasureAgain
<1>6. CASE ReadPayout(i) \/ ReadSession(i)  BY <1>6 DEF ReadPayout, ReadSession
<1>. QED  BY <1>1, <1>2, <1>3, <1>4, <1>5, <1>6 DEF Proceed

(* A command that does not write moves nothing.                            *)
LEMMA StillMoves ==
  ASSUME TypeOK, NEW i \in Instances, UNCHANGED db
  PROVE  Moves(i)
BY DEF Moves, db, Active

(* What an instance holds and has read stays true while others move.       *)
LEMMA OthersPrepared ==
  ASSUME TypeOK, Consistent, NEW i \in Instances, NEW j \in Instances, j # i,
         Spares(j), Moves(i)
  PROVE  Prepared(j)'
<1> DEFINE t == Target(j)
<1>1. Prepared(j)  BY DEF Consistent
<1>2. /\ pc'[j] = pc[j] /\ cmd'[j] = cmd[j] /\ want'[j] = want[j]
      /\ mirror'[j] = mirror[j] /\ quote'[j] = quote[j] /\ row'[j] = row[j]
      /\ Target(j)' = t
  BY DEF Spares, Target
<1>3. \A s \in Sessions : Locked(j, s)' <=> Locked(j, s)
  BY DEF Spares, Locked, LockKeys
<1>4. ASSUME NEW s \in Sessions, Locked(j, s)
      PROVE  /\ session'[s].present = session[s].present
             /\ session'[s].status = session[s].status
             /\ session'[s].override = session[s].override
             /\ report'[s] = report[s]
             /\ Uncovered(s) => Uncovered(s)'
  <2>1. ~Locked(i, s)  BY <1>4 DEF Locked
  <2>2. \A p \in Payouts : payout'[p].status \in Active /\ s \in covered'[p] =>
            payout[p].status \in Active /\ s \in covered[p]
    BY <2>1 DEF Moves
  <2>. QED  BY <2>1, <2>2 DEF Moves, Uncovered
<1>5. /\ cmd[j].op \in PayoutOps => t \in Payouts /\ payout[t].status # "absent"
      /\ cmd[j].op \in SessionOps => t \in Sessions
  BY <1>1, TargetTypes DEF Prepared, HoldsFirst
<1>6. FirstKeys(cmd[j].op, t)' = FirstKeys(cmd[j].op, t)
  <2>1. cmd[j].op \in PayoutOps => payout'[t].instructor = payout[t].instructor
    BY <1>5 DEF Moves
  <2>2. CommandOK(cmd[j])  BY DEF TypeOK, ProcessTypes
  <2>. QED  BY <1>2, <2>1, <2>2 DEF FirstKeys, SessionKeys, PayoutOps, SessionOps
<1>7. cmd[j].op # "none" => FirstKeys(cmd[j].op, t) \subseteq LockKeys
  <2>1. CommandOK(cmd[j])  BY DEF TypeOK, ProcessTypes
  <2>2. cmd[j].op # "none" => cmd[j].op \in {"generate"} \cup PayoutOps \cup SessionOps
    BY <2>1 DEF CommandOK
  <2>3. cmd[j].op = "generate" => t \in Instructors  BY TargetTypes
  <2>. QED  BY <1>5, <2>2, <2>3, FirstKeysTypes
<1>8. HoldsFirst(j)'
  <2>1. (cmd[j].op \in PayoutOps => payout[Target(j)].status # "absent")'
    BY <1>2, <1>5 DEF Moves
  <2>2. (pc[j] = "idle" <=> cmd[j].op = "none")'
    BY <1>1, <1>2 DEF Prepared, HoldsFirst
  <2>3. (pc[j] = "lock" => want[j] = FirstKeys(cmd[j].op, Target(j)))'
    BY <1>1, <1>2, <1>6 DEF Prepared, HoldsFirst
  <2>4. (pc[j] \notin {"idle", "lock"} =>
            \A k \in FirstKeys(cmd[j].op, Target(j)) : holder[k] = j)'
    BY <1>1, <1>2, <1>6, <1>7 DEF Prepared, HoldsFirst, Spares
  <2>. QED  BY <2>1, <2>2, <2>3, <2>4 DEF HoldsFirst
<1>9. SawLinks(j)'
  <2>. SUFFICES ASSUME cmd[j].op \in {"reject", "pay", "reverse"}, pc[j] \in {"read", "commit"}
                PROVE  (/\ \A s \in Sessions : session[s].present /\ session[s].payoutId = Target(j) =>
                              mirror[j][s].present /\ mirror[j][s].payoutId = Target(j)
                        /\ cmd[j].op = "reject" =>
                              \A s \in DOMAIN payout[Target(j)].lines :
                                  mirror[j][s].present /\ mirror[j][s].payoutId = Target(j) /\ session[s].present =>
                                      session[s].payoutId \in {Target(j), NoPayout})'
    BY <1>2 DEF SawLinks
  <2>1. t \in Payouts /\ payout[t].status # "absent"  BY <1>5 DEF PayoutOps
  <2>2. t # NoPayout  BY <2>1, ConstantsAssumption
  <2>3. ASSUME NEW s \in Sessions, session'[s].present, session'[s].payoutId = t
        PROVE  mirror[j][s].present /\ mirror[j][s].payoutId = t
    <3>1. session[s].present /\ session[s].payoutId = t  BY <2>1, <2>2, <2>3 DEF Moves
    <3>. QED  BY <1>1, <3>1 DEF Prepared, SawLinks
  <2>4. ASSUME cmd[j].op = "reject", NEW s \in DOMAIN payout'[t].lines,
               mirror[j][s].present, mirror[j][s].payoutId = t, session'[s].present
        PROVE  session'[s].payoutId \in {t, NoPayout}
    <3>1. payout'[t].lines = payout[t].lines  BY <2>1 DEF Moves
    <3>2. s \in Sessions  BY <2>1, <2>4, <3>1 DEF TypeOK, DbTypes, PayoutRows, Lines
    <3>3. session[s].payoutId \in {t, NoPayout}
      BY <1>1, <2>4, <3>1, <3>2 DEF Prepared, SawLinks, Moves
    <3>4. Teacher[s] = payout[t].instructor
      BY <2>1, <2>4, <3>1 DEF Consistent, Rows, LinesFit
    <3>5. holder[<<"instructor", Teacher[s]>>] = j
      <4>1. FirstKeys(cmd[j].op, t) = {<<"instructor", payout[t].instructor>>}
        BY <2>4 DEF FirstKeys, SessionOps
      <4>. QED  BY <1>1, <3>4, <4>1 DEF Prepared, HoldsFirst
    <3>. QED  BY <3>2, <3>3, <3>5 DEF Moves
  <2>. QED  BY <1>2, <2>3, <2>4
<1>10. SawLines(j)'
  BY <1>1, <1>2, <1>5 DEF Prepared, SawLines, Moves
<1>11. SawPrices(j)'
  <2>1. ASSUME Generating(j, "read2"), NEW s \in Sessions, Locked(j, s)
        PROVE  /\ mirror[j][s].present = session'[s].present
               /\ mirror[j][s].status = session'[s].status
               /\ mirror[j][s].override = session'[s].override
    BY <1>1, <1>4, <2>1 DEF Prepared, SawPrices
  <2>2. ASSUME Generating(j, "commit"), NEW s \in DOMAIN quote[j]
        PROVE  /\ Teacher[s] = t
               /\ Locked(j, s) => /\ session'[s].status = "held"
                                  /\ Priced(session'[s], report'[s])
                                  /\ quote[j][s] = Price(s, session'[s])
    <3>1. s \in Sessions  BY <2>2 DEF TypeOK, ProcessTypes, Lines
    <3>. QED  BY <1>1, <1>4, <2>2, <3>1 DEF Prepared, SawPrices, Priced, Price
  <2>3. \A at : Generating(j, at)' <=> Generating(j, at)  BY <1>2 DEF Generating
  <2>4. \A s \in DOMAIN quote[j] : s \in Sessions  BY DEF TypeOK, ProcessTypes, Lines
  <2>. QED  BY <1>2, <1>3, <2>1, <2>2, <2>3, <2>4 DEF SawPrices, Priced, Price
<1>12. SawSession(j)'
  <2>. SUFFICES ASSUME pc[j] = "commit", cmd[j].op \in SessionOps
                PROVE  /\ Uncovered(t) => Uncovered(t)'
                       /\ report'[t] = report[t]
    BY <1>1, <1>2 DEF Prepared, SawSession, SessionOps, Uncovered
  <2>1. FirstKeys(cmd[j].op, t) = {<<"session", t>>}
    BY DEF FirstKeys, SessionKeys, SessionOps
  <2>2. PICK s \in Sessions : s = t /\ Locked(j, s)
    BY <1>1, <1>5, <2>1 DEF Prepared, HoldsFirst, Locked
  <2>3. (Uncovered(s) => Uncovered(s)') /\ report'[s] = report[s]  BY <1>4, <2>2
  <2>4. s = Target(j)'  BY <1>2, <2>2
  <2>. QED  BY <2>2, <2>3, <2>4 DEF Uncovered
<1>. QED  BY <1>8, <1>9, <1>10, <1>11, <1>12 DEF Prepared

(* The end of a transaction, and the start of one.                         *)
LEMMA FinishPrepared ==
  ASSUME TypeOK, NEW i \in Instances, Finish(i)
  PROVE  Prepared(i)'
<1>1. pc'[i] = "idle" /\ cmd'[i].op = "none"
  <2>1. cmd'[i] = Idle  BY DEF Finish, TypeOK, ProcessTypes
  <2>. QED  BY <2>1 DEF Finish, Goto, Idle, TypeOK, ProcessTypes
<1>. QED  BY <1>1 DEF Prepared, HoldsFirst, SawLinks, SawLines, SawPrices, SawSession, Generating,
               PayoutOps, SessionOps

LEMMA BeginPrepared ==
  ASSUME TypeOK, NEW i \in Instances, BeginAny(i)
  PROVE  Prepared(i)'
<1>1. PICK op, target, arg :
        /\ op \in {"generate"} \cup PayoutOps \cup SessionOps
        /\ Begin(i, op, target, arg)
        /\ op \in PayoutOps => payout[target].status # "absent"
  <2>1. ASSUME NEW op \in {"generate"} \cup SessionOps
        PROVE  op \notin PayoutOps
    BY DEF PayoutOps, SessionOps
  <2>2. "adjust" \in PayoutOps /\ "setPayAmount" \in SessionOps  BY DEF PayoutOps, SessionOps
  <2>. QED  BY <2>1, <2>2 DEF BeginAny
<1>2. op # "none"  BY <1>1 DEF PayoutOps, SessionOps
<1>3. pc'[i] = "lock" /\ cmd'[i].op = op /\ cmd'[i].target = target
  <2>1. cmd' = [cmd EXCEPT ![i] = [op |-> op, target |-> target, arg |-> arg]]
    BY <1>1 DEF Begin
  <2>2. cmd'[i] = [op |-> op, target |-> target, arg |-> arg]
    BY <2>1 DEF TypeOK, ProcessTypes
  <2>. QED  BY <1>1, <2>2 DEF Begin, Goto, TypeOK, ProcessTypes
<1>4. want'[i] = FirstKeys(op, target) /\ UNCHANGED payout
  BY <1>1 DEF Begin, TypeOK, ProcessTypes, db
<1>5. HoldsFirst(i)'
  BY <1>1, <1>2, <1>3, <1>4 DEF HoldsFirst, Target, FirstKeys
<1>. QED  BY <1>3, <1>5 DEF Prepared, SawLinks, SawLines, SawPrices, SawSession, Generating

(* The first lockTargets call of every command asks for one key.           *)
LEMMA OneFirstKey ==
  ASSUME NEW op, NEW target
  PROVE  \E k : FirstKeys(op, target) = {k}
<1>1. SessionKeys({target}) = {<<"session", target>>}  BY DEF SessionKeys
<1>2. CASE op = "generate"  BY <1>2 DEF FirstKeys, SessionOps
<1>3. CASE op = "reject"  BY <1>3 DEF FirstKeys, SessionOps
<1>4. CASE op \in SessionOps  BY <1>1, <1>4 DEF FirstKeys, SessionOps
<1>5. CASE op \notin {"generate", "reject"} \cup SessionOps  BY <1>5 DEF FirstKeys
<1>. QED  BY <1>2, <1>3, <1>4, <1>5

(* A session that is there and free is a line of no active payout.         *)
LEMMA FreeIsUncovered ==
  ASSUME TypeOK, Consistent, NEW s \in Sessions, session[s].present, session[s].payoutId = NoPayout
  PROVE  Uncovered(s)
<1>. SUFFICES ASSUME NEW p \in Payouts, payout[p].status \in Active, s \in covered[p] PROVE FALSE
  BY DEF Uncovered
<1>1. s \in DOMAIN payout[p].lines  BY DEF Consistent, Rows, LinesFit, Active
<1>2. session[s].payoutId = p  BY <1>1 DEF Consistent, Rows, Linked
<1>. QED  BY <1>2, ConstantsAssumption

LEMMA ProceedPrepared ==
  ASSUME TypeOK, Consistent, NEW i \in Instances, Proceed(i)
  PROVE  Prepared(i)'
<1> DEFINE t == Target(i)
<1>. USE DEF Goto
<1>1. Prepared(i) /\ HoldsFirst(i)  BY DEF Consistent, Prepared
<1>2. /\ UNCHANGED db /\ cmd' = cmd /\ Target(i)' = t /\ Args(i)' = Args(i)
      /\ FirstKeys(cmd[i].op, t)' = FirstKeys(cmd[i].op, t)
  <2>1. UNCHANGED <<db, cmd>>
    BY DEF Proceed, Acquire, LoadSessions, MeasureLines, MeasureAgain, ReadPayout, ReadSession
  <2>. QED  BY <2>1 DEF Target, Args, FirstKeys, db
<1>3. UNCHANGED <<session, report, payout, covered>>  BY <1>2 DEF db
<1>4. ASSUME holder' = holder, pc[i] \notin {"idle", "lock"}, pc'[i] \notin {"idle", "lock"}
      PROVE  HoldsFirst(i)'
  BY <1>1, <1>2, <1>3, <1>4 DEF HoldsFirst
<1>5. CASE Acquire(i)
  <2>1. PICK k : /\ k = NextKey(want[i]) /\ holder' = [holder EXCEPT ![k] = i]
                 /\ want' = [want EXCEPT ![i] = @ \ {k}]
                 /\ IF want[i] = {k} THEN pc' = [pc EXCEPT ![i] = AfterLocks(cmd[i].op, pc[i])]
                    ELSE UNCHANGED pc
    BY <1>5 DEF Acquire
  <2>2. FirstKeys(cmd[i].op, t) \subseteq LockKeys
    <3>1. cmd[i].op # "none"  BY <1>1, <1>5 DEF HoldsFirst, Acquire
    <3>2. CommandOK(cmd[i])  BY DEF TypeOK, ProcessTypes
    <3>3. cmd[i].op \in {"generate"} \cup PayoutOps \cup SessionOps  BY <3>1, <3>2 DEF CommandOK
    <3>. QED  BY <1>1, <3>3, TargetTypes, FirstKeysTypes DEF HoldsFirst
  <2>3. CASE pc[i] = "lock"
    <3>1. PICK k0 : FirstKeys(cmd[i].op, t) = {k0}  BY OneFirstKey
    <3>2. want[i] = {k0}  BY <1>1, <2>3, <3>1 DEF HoldsFirst
    <3>3. k = k0  BY <2>1, <3>2 DEF NextKey
    <3>4. pc'[i] = AfterLocks(cmd[i].op, "lock") /\ holder'[k0] = i
      BY <2>1, <2>2, <2>3, <3>1, <3>2, <3>3 DEF TypeOK, ProcessTypes
    <3>5. pc'[i] \in {"load", "read"} /\ (cmd[i].op \in {"reject", "pay", "reverse"} => pc'[i] = "load")
      BY <3>4 DEF AfterLocks
    <3>6. HoldsFirst(i)'
      BY <1>1, <1>2, <1>3, <1>5, <3>1, <3>4, <3>5 DEF HoldsFirst, Acquire
    <3>. QED  BY <1>2, <3>5, <3>6 DEF Prepared, SawLinks, SawLines, SawPrices, SawSession, Generating
  <2>4. CASE pc[i] = "lock2"
    <3>1. pc'[i] \in {"lock2", "load2"}  BY <2>1, <2>4 DEF AfterLocks, TypeOK, ProcessTypes
    <3>2. \A k1 \in LockKeys : holder[k1] = i => holder'[k1] = i
      BY <2>1 DEF TypeOK, ProcessTypes
    <3>3. HoldsFirst(i)'  BY <1>1, <1>2, <1>3, <2>2, <2>4, <3>1, <3>2 DEF HoldsFirst
    <3>. QED  BY <3>1, <3>3 DEF Prepared, SawLinks, SawLines, SawPrices, SawSession, Generating
  <2>. QED  BY <1>5, <2>3, <2>4 DEF Acquire
<1>6. CASE LoadSessions(i)
  <2>1. mirror'[i] = session /\ holder' = holder /\ pc[i] \in {"load", "load2"}
        /\ pc'[i] = IF pc[i] = "load" THEN "read" ELSE "read2"
    BY <1>6 DEF LoadSessions, TypeOK, ProcessTypes
  <2>2. HoldsFirst(i)'  BY <1>4, <2>1
  <2>. QED  BY <1>2, <1>3, <2>1, <2>2
    DEF Prepared, SawLinks, SawLines, SawPrices, SawSession, Generating
<1>7. CASE MeasureLines(i)
  <2>1. pc[i] = "read" /\ pc'[i] = "lock2" /\ holder' = holder
    BY <1>7 DEF MeasureLines, Generating, TypeOK, ProcessTypes
  <2>2. HoldsFirst(i)'  BY <1>4, <2>1
  <2>. QED  BY <2>1, <2>2 DEF Prepared, SawLinks, SawLines, SawPrices, SawSession, Generating
<1>8. CASE MeasureAgain(i)
  <2>1. /\ cmd[i].op = "generate" /\ pc[i] = "read2" /\ pc'[i] = "commit" /\ holder' = holder
        /\ quote'[i] = Measure(mirror[i], t, Args(i))
    BY <1>8 DEF MeasureAgain, Generating, TypeOK, ProcessTypes
  <2>2. HoldsFirst(i)'  BY <1>4, <2>1
  <2>3. ASSUME NEW s \in DOMAIN quote'[i]
        PROVE  /\ Teacher[s] = t
               /\ Locked(i, s) => /\ session[s].status = "held"
                                  /\ Priced(session[s], report[s])
                                  /\ quote'[i][s] = Price(s, session[s])
    <3>1. /\ s \in Sessions /\ Teacher[s] = t /\ Billable(mirror[i][s], report[s])
          /\ quote'[i][s] = Price(s, mirror[i][s])
      <4>1. Args(i) \in Periods  BY <2>1, TargetTypes
      <4>. QED  BY <2>1, <2>3, <4>1, ConstantsAssumption DEF Measure
    <3>2. Locked(i, s) => /\ mirror[i][s].status = session[s].status
                          /\ mirror[i][s].override = session[s].override
      BY <1>1, <2>1, <3>1 DEF Prepared, SawPrices, Generating
    <3>. QED  BY <3>1, <3>2 DEF Billable, Priced, Price
  <2>4. SawPrices(i)'
    BY <1>2, <1>3, <2>1, <2>3 DEF SawPrices, Generating, Locked, Priced, Price
  <2>. QED  BY <1>2, <2>1, <2>2, <2>4 DEF Prepared, SawLinks, SawLines, SawSession, PayoutOps
<1>9. CASE ReadPayout(i)
  <2>1. /\ cmd[i].op \in PayoutOps /\ pc[i] = "read" /\ pc'[i] = "commit"
        /\ UNCHANGED <<holder, mirror>> /\ row'[i] = payout[t]
    BY <1>9 DEF ReadPayout, TypeOK, ProcessTypes
  <2>2. HoldsFirst(i)'  BY <1>4, <2>1
  <2>3. SawLinks(i)'  BY <1>1, <1>2, <1>3, <2>1 DEF Prepared, SawLinks
  <2>4. SawLines(i)'  BY <1>2, <1>3, <2>1 DEF SawLines
  <2>5. SawPrices(i)' /\ SawSession(i)'
    BY <1>2, <2>1 DEF SawPrices, SawSession, Generating, PayoutOps
  <2>. QED  BY <2>2, <2>3, <2>4, <2>5 DEF Prepared
<1>10. CASE ReadSession(i)
  <2>1. /\ cmd[i].op \in SessionOps /\ pc[i] = "read" /\ pc'[i] = "commit" /\ holder' = holder
        /\ session[t].present /\ Accepts(cmd[i].op, session[t], report[t])
    BY <1>10 DEF ReadSession, TypeOK, ProcessTypes
  <2>2. HoldsFirst(i)'  BY <1>4, <2>1
  <2>3. t \in Sessions  BY <2>1, TargetTypes
  <2>4. ~PayoutLocked(session[t]) => Uncovered(t)  BY <2>1, <2>3, FreeIsUncovered DEF PayoutLocked
  <2>5. SawSession(i)'
    BY <1>2, <1>3, <2>1, <2>4 DEF SawSession, Accepts, Uncovered
  <2>6. cmd[i].op \notin PayoutOps /\ cmd[i].op # "generate"
    BY <2>1 DEF SessionOps, PayoutOps
  <2>. QED  BY <1>2, <2>1, <2>2, <2>5, <2>6
    DEF Prepared, SawLinks, SawLines, SawPrices, Generating, PayoutOps
<1>. QED  BY <1>5, <1>6, <1>7, <1>8, <1>9, <1>10 DEF Proceed

-----------------------------------------------------------------------------
(* The commits of the commands on one session.                             *)

LEMMA SessionCommits ==
  ASSUME TypeOK, Consistent, NEW i \in Instances, CommitSession(i)
  PROVE  /\ Target(i) \in Sessions /\ Locked(i, Target(i)) /\ cmd[i].op \in SessionOps
         /\ Finish(i) /\ pc[i] = "commit"
         /\ UNCHANGED <<payout, ledger, covered>>
         /\ \A s \in Sessions :
               /\ session'[s].payoutId = session[s].payoutId
               /\ session'[s].isPaid = session[s].isPaid
               /\ session'[s].paidPayoutId = session[s].paidPayoutId
               /\ session'[s].present => session[s].present
               /\ s # Target(i) => session'[s] = session[s] /\ report'[s] = report[s]
<1> DEFINE t == Target(i)
<1>1. /\ cmd[i].op \in SessionOps /\ pc[i] = "commit" /\ Finish(i)
      /\ UNCHANGED <<payout, ledger, covered>>
  BY DEF CommitSession, SetPayAmount, ApproveReport, RejectReport, SubmitReport,
     RescheduleSession, CancelSession, RecordAttendance, ClearAttendance, RemoveSession,
     Committing, SessionOps
<1>2. t \in Sessions  BY <1>1, TargetTypes
<1>3. Locked(i, t)
  <2>1. FirstKeys(cmd[i].op, t) = {<<"session", t>>}
    BY <1>1 DEF FirstKeys, SessionKeys, SessionOps
  <2>. QED  BY <1>1, <2>1 DEF Consistent, Prepared, HoldsFirst, Locked
<1>4. \A s \in Sessions : s # t => report'[s] = report[s]
  BY <1>2 DEF CommitSession, SetPayAmount, ApproveReport, RejectReport, SubmitReport,
     RescheduleSession, CancelSession, RecordAttendance, ClearAttendance, RemoveSession,
     TypeOK, DbTypes
<1>5. \/ UNCHANGED session
      \/ \E a : session' = [session EXCEPT ![t] = [session[t] EXCEPT !.override = a]]
      \/ \E st : session' = [session EXCEPT ![t] = [session[t] EXCEPT !.status = st]]
      \/ session' = [session EXCEPT ![t] = [session[t] EXCEPT !.present = FALSE]]
  BY DEF CommitSession, SetPayAmount, ApproveReport, RejectReport, SubmitReport,
     RescheduleSession, CancelSession, RecordAttendance, ClearAttendance, RemoveSession, UpdateRow
<1>6. session \in [Sessions -> SessionRows]  BY DEF TypeOK, DbTypes
<1>7. \A s \in Sessions :
         /\ session'[s].payoutId = session[s].payoutId
         /\ session'[s].isPaid = session[s].isPaid
         /\ session'[s].paidPayoutId = session[s].paidPayoutId
         /\ session'[s].present => session[s].present
         /\ s # t => session'[s] = session[s]
  BY <1>5, <1>6 DEF SessionRows
<1>. QED  BY <1>1, <1>2, <1>3, <1>4, <1>7

(* A covered line of an active payout keeps its worth: either the command  *)
(* is refused while the line is covered, or what it writes does not count. *)
LEMMA WorthKept ==
  ASSUME TypeOK, Consistent, NEW i \in Instances, CommitSession(i),
         NEW s \in Sessions, s = Target(i),
         NEW p \in Payouts, payout[p].status \in Active, s \in covered[p]
  PROVE  StillWorth(p, s)'
<1>1. UNCHANGED <<payout, covered>> /\ SawSession(i) /\ pc[i] = "commit"
  BY SessionCommits DEF Consistent, Prepared
<1>2. /\ session[s].present /\ session[s].status = "held"
      /\ Priced(session[s], report[s]) /\ Price(s, session[s]) = payout[p].lines[s]
  BY DEF Consistent, Rows, CoveredLinesStayBillable, StillWorth
<1>3. session \in [Sessions -> SessionRows] /\ report \in [Sessions -> ReportStates]
  BY DEF TypeOK, DbTypes
<1>4. ~Uncovered(s)  BY DEF Uncovered
<1>5. session[s].payoutId # NoPayout  BY <1>2, <1>4, FreeIsUncovered
<1>6. ASSUME session'[s] = session[s], Priced(session[s], report'[s])
      PROVE  StillWorth(p, s)'
  BY <1>1, <1>2, <1>6 DEF StillWorth, Priced, Price
<1>7. CASE SetPayAmount(i)  BY <1>5, <1>7 DEF SetPayAmount
<1>8. CASE ApproveReport(i)
  <2>1. UNCHANGED session  BY <1>2, <1>8 DEF ApproveReport
  <2>2. Priced(session[s], report'[s])  BY <1>2, <1>3, <1>8 DEF ApproveReport, Priced
  <2>. QED  BY <1>6, <2>1, <2>2
<1>9. CASE RejectReport(i) \/ SubmitReport(i)
  <2>1. UNCHANGED session  BY <1>9 DEF RejectReport, SubmitReport
  <2>2. report[s] # "approved"
    BY <1>1, <1>4, <1>9 DEF RejectReport, SubmitReport, Committing, SawSession
  <2>3. session[s].override # NoAmount  BY <1>2, <2>2 DEF Priced
  <2>. QED  BY <1>6, <2>1, <2>3 DEF Priced
<1>10. CASE RescheduleSession(i) \/ CancelSession(i) \/ ClearAttendance(i) \/ RemoveSession(i)
  BY <1>1, <1>4, <1>10
  DEF RescheduleSession, CancelSession, ClearAttendance, RemoveSession, Committing, SawSession
<1>11. CASE RecordAttendance(i)
  <2>1. session' = [session EXCEPT ![s] = [session[s] EXCEPT !.status = "held"]] /\ report' = report
    BY <1>11 DEF RecordAttendance, UpdateRow
  <2>2. session'[s] = session[s]  BY <1>2, <1>3, <2>1 DEF SessionRows
  <2>. QED  BY <1>2, <1>6, <2>1, <2>2
<1>. QED  BY <1>7, <1>8, <1>9, <1>10, <1>11 DEF CommitSession

LEMMA CommitSessionRows ==
  ASSUME TypeOK, Consistent, NEW i \in Instances, CommitSession(i)
  PROVE  Rows' /\ Moves(i)
<1>. DEFINE t == Target(i)
<1>1. /\ t \in Sessions /\ Locked(i, t) /\ UNCHANGED <<payout, ledger, covered>>
      /\ \A s \in Sessions :
            /\ session'[s].payoutId = session[s].payoutId
            /\ session'[s].isPaid = session[s].isPaid
            /\ session'[s].paidPayoutId = session[s].paidPayoutId
            /\ session'[s].present => session[s].present
            /\ s # t => session'[s] = session[s] /\ report'[s] = report[s]
  BY SessionCommits
<1>2. LinesFit' /\ ClaimedOnce'
  BY <1>1 DEF Consistent, Rows, LinesFit, ClaimedOnce, Effective
<1>3. \A p \in Payouts : DOMAIN payout[p].lines \subseteq Sessions
  BY DEF TypeOK, DbTypes, PayoutRows, Lines
<1>4. Linked'  BY <1>1, <1>3 DEF Consistent, Rows, Linked
<1>5. PaidFlagsAgree'  BY <1>1 DEF Consistent, Rows, PaidFlagsAgree
<1>6. CoveredLinesStayBillable'
  <2>. SUFFICES ASSUME NEW p \in Payouts, payout[p].status \in Active, NEW s \in covered[p]
                PROVE  StillWorth(p, s)'
    BY <1>1 DEF CoveredLinesStayBillable
  <2>1. s \in Sessions /\ StillWorth(p, s)
    BY DEF Consistent, Rows, CoveredLinesStayBillable, TypeOK, DbTypes
  <2>2. CASE s = t  BY <2>1, <2>2, WorthKept
  <2>3. CASE s # t  BY <1>1, <2>1, <2>3 DEF StillWorth, Priced, Price
  <2>. QED  BY <2>2, <2>3
<1>7. Moves(i)  BY <1>1 DEF Moves, Active
<1>. QED  BY <1>2, <1>4, <1>5, <1>6, <1>7 DEF Rows

-----------------------------------------------------------------------------
(* The commits of the commands on payouts.                                 *)

LEMMA GenerateRows ==
  ASSUME TypeOK, Consistent, NEW i \in Instances, Generate(i)
  PROVE  Rows' /\ Moves(i)
<1>. DEFINE q == quote[i]
<1>1. PICK n \in Payouts :
        /\ payout[n].status = "absent"
        /\ payout' = [payout EXCEPT ![n] = NewPayout(Target(i), q)]
        /\ session' = [s \in Sessions |-> IF s \in DOMAIN q
                         THEN [session[s] EXCEPT !.payoutId = n] ELSE session[s]]
        /\ covered' = [covered EXCEPT ![n] = {s \in DOMAIN q : Locked(i, s)}]
        /\ report' = report
  BY DEF Generate, Locked
<1>2. /\ payout'[n] = NewPayout(Target(i), q)
      /\ covered'[n] = {s \in DOMAIN q : Locked(i, s)}
      /\ \A p \in Payouts \ {n} : payout'[p] = payout[p] /\ covered'[p] = covered[p]
  BY <1>1 DEF TypeOK, DbTypes
<1>3. \A s \in Sessions : session'[s] = IF s \in DOMAIN q
                             THEN [session[s] EXCEPT !.payoutId = n] ELSE session[s]
  BY <1>1
<1>4. \A s \in Sessions : session[s] \in SessionRows  BY DEF TypeOK, DbTypes
<1>5. \A s \in Sessions : /\ session'[s].present = session[s].present
                          /\ session'[s].status = session[s].status
                          /\ session'[s].override = session[s].override
                          /\ session'[s].isPaid = session[s].isPaid
                          /\ session'[s].paidPayoutId = session[s].paidPayoutId
                          /\ session'[s].payoutId = IF s \in DOMAIN q THEN n ELSE session[s].payoutId
  BY <1>3, <1>4 DEF SessionRows
<1>6. \A s \in DOMAIN q : /\ s \in Sessions /\ session[s].present /\ ~session[s].isPaid
                          /\ session[s].payoutId = NoPayout
  BY DEF Generate, Claimable, PayoutLocked, TypeOK, ProcessTypes, Lines
<1>7. /\ pc[i] = "commit" /\ cmd[i].op = "generate" /\ Prepared(i)
      /\ \A s \in DOMAIN q : /\ Teacher[s] = Target(i)
                             /\ Locked(i, s) => /\ session[s].status = "held"
                                                /\ Priced(session[s], report[s])
                                                /\ q[s] = Price(s, session[s])
  BY DEF Generate, Generating, Consistent, Prepared, SawPrices
<1>8. /\ payout'[n].status = "pending" /\ payout'[n].lines = q /\ payout'[n].adjusted = NoAmount
      /\ payout'[n].instructor = Target(i) /\ payout'[n].amount = Total(q)
  BY <1>2 DEF NewPayout
<1>9. \A p \in Payouts : DOMAIN payout[p].lines \subseteq Sessions
  BY DEF TypeOK, DbTypes, PayoutRows, Lines
<1>. HIDE DEF q
<1>10. LinesFit'
  <2>. SUFFICES ASSUME NEW p \in Payouts, payout'[p].status # "absent"
                PROVE  /\ \A s \in DOMAIN payout'[p].lines : Teacher[s] = payout'[p].instructor
                       /\ covered'[p] \subseteq DOMAIN payout'[p].lines
                       /\ payout'[p].amount = Effective(payout'[p])
    BY DEF LinesFit, Effective
  <2>1. CASE p = n  BY <1>2, <1>7, <1>8, <2>1 DEF Effective
  <2>2. CASE p # n  BY <1>2, <2>2 DEF Consistent, Rows, LinesFit
  <2>. QED  BY <2>1, <2>2
<1>11. Linked'
  <2>1. ASSUME NEW s \in Sessions, NEW p \in Payouts,
               session'[s].present, session'[s].payoutId = p
        PROVE  payout'[p].status \in Active /\ s \in DOMAIN payout'[p].lines
    <3>1. CASE s \in DOMAIN q  BY <1>5, <1>8, <2>1, <3>1 DEF Active
    <3>2. CASE s \notin DOMAIN q
      <4>1. payout[p].status \in Active /\ s \in DOMAIN payout[p].lines
        BY <1>5, <2>1, <3>2 DEF Consistent, Rows, Linked
      <4>. QED  BY <1>1, <1>2, <4>1 DEF Active
    <3>. QED  BY <3>1, <3>2
  <2>2. ASSUME NEW p \in Payouts, payout'[p].status \in Active,
               NEW s \in DOMAIN payout'[p].lines, session'[s].present
        PROVE  session'[s].payoutId = p
    <3>1. CASE p = n  BY <1>5, <1>6, <1>8, <2>2, <3>1
    <3>2. CASE p # n
      <4>1. s \in Sessions /\ payout[p].status \in Active /\ s \in DOMAIN payout[p].lines
        BY <1>2, <1>9, <2>2, <3>2
      <4>2. session[s].payoutId = p  BY <1>5, <2>2, <4>1 DEF Consistent, Rows, Linked
      <4>3. s \notin DOMAIN q  BY <1>6, <4>2, ConstantsAssumption
      <4>. QED  BY <1>5, <4>1, <4>2, <4>3
    <3>. QED  BY <3>1, <3>2
  <2>. QED  BY <2>1, <2>2 DEF Linked
<1>12. ClaimedOnce'
  <2>1. ASSUME NEW p \in Payouts \ {n}, payout[p].status \in Active
        PROVE  DOMAIN payout[p].lines \cap DOMAIN q = {}
    BY <1>6, <2>1, ConstantsAssumption DEF Consistent, Rows, Linked
  <2>. QED  BY <1>2, <1>8, <2>1 DEF Consistent, Rows, ClaimedOnce
<1>13. PaidFlagsAgree'
  <2>. SUFFICES ASSUME NEW s \in Sessions, session'[s].present
                PROVE  /\ session'[s].isPaid <=> \E p \in Payouts : session'[s].payoutId = p
                                                                    /\ payout'[p].status = "paid"
                       /\ session'[s].isPaid => session'[s].paidPayoutId = session'[s].payoutId
    BY DEF PaidFlagsAgree
  <2>1. CASE s \in DOMAIN q  BY <1>5, <1>6, <1>8, <2>1
  <2>2. CASE s \notin DOMAIN q
    BY <1>1, <1>2, <1>5, <1>8, <2>2 DEF Consistent, Rows, PaidFlagsAgree
  <2>. QED  BY <2>1, <2>2
<1>14. CoveredLinesStayBillable'
  <2>. SUFFICES ASSUME NEW p \in Payouts, payout'[p].status \in Active, NEW s \in covered'[p]
                PROVE  StillWorth(p, s)'
    BY DEF CoveredLinesStayBillable
  <2>1. CASE p = n
    BY <1>1, <1>2, <1>5, <1>6, <1>7, <1>8, <2>1 DEF StillWorth, Priced, Price
  <2>2. CASE p # n
    <3>1. s \in Sessions /\ StillWorth(p, s)
      BY <1>2, <2>2 DEF Consistent, Rows, CoveredLinesStayBillable, TypeOK, DbTypes
    <3>. QED  BY <1>1, <1>2, <1>5, <2>2, <3>1 DEF StillWorth, Priced, Price
  <2>. QED  BY <2>1, <2>2
<1>15. Moves(i)
  <2>1. holder[<<"instructor", Target(i)>>] = i
    BY <1>7 DEF Prepared, HoldsFirst, FirstKeys, SessionOps
  <2>2. \A s \in Sessions :
          \/ session'[s].payoutId = session[s].payoutId
          \/ /\ session'[s].payoutId = n
             /\ holder[<<"instructor", Teacher[s]>>] = i
    BY <1>5, <1>7, <2>1
  <2>. QED  BY <1>1, <1>2, <1>5, <1>8, <2>2 DEF Moves, Active
<1>. QED  BY <1>10, <1>11, <1>12, <1>13, <1>14, <1>15 DEF Rows

(* The commands that leave sessions alone.                                 *)
LEMMA PlainRows ==
  ASSUME TypeOK, RowFits, Consistent, NEW i \in Instances, Confirm(i) \/ Unconfirm(i) \/ Adjust(i)
  PROVE  Rows' /\ Moves(i)
<1>. DEFINE t == Target(i)
<1>1. t \in Payouts /\ payout[t].status \in {"pending", "confirmed"}
  BY CommitFrom DEF Confirm, Unconfirm, Adjust, From, PayoutOps
<1>2. UNCHANGED <<session, report, covered>>  BY DEF Confirm, Unconfirm, Adjust
<1>3. /\ payout'[t].status \in {"pending", "confirmed"}
      /\ payout'[t].lines = payout[t].lines /\ payout'[t].instructor = payout[t].instructor
      /\ \A p \in Payouts \ {t} : payout'[p] = payout[p]
  BY <1>1 DEF Confirm, Unconfirm, Adjust, SetStatus, TypeOK, DbTypes, PayoutRows
<1>4. payout'[t].amount = Effective(payout'[t])
  <2>1. payout[t].amount = Effective(payout[t])  BY <1>1 DEF Consistent, Rows, LinesFit
  <2>2. CASE Adjust(i)
    <3>1. Args(i) \in Nat
      BY <2>2, TargetTypes, ConstantsAssumption DEF Adjust, Committing
    <3>2. payout'[t].amount = Args(i) /\ payout'[t].adjusted = Args(i)
      BY <1>1, <2>2 DEF Adjust, TypeOK, DbTypes, PayoutRows
    <3>. QED  BY <3>1, <3>2, ConstantsAssumption DEF Effective
  <2>3. CASE Confirm(i) \/ Unconfirm(i)
    <3>1. payout'[t].amount = payout[t].amount /\ payout'[t].adjusted = payout[t].adjusted
      BY <1>1, <2>3 DEF Confirm, Unconfirm, SetStatus, TypeOK, DbTypes, PayoutRows
    <3>. QED  BY <1>3, <2>1, <3>1 DEF Effective
  <2>. QED  BY <2>2, <2>3
<1>. HIDE DEF t
<1>5. \A p \in Payouts : /\ payout'[p].lines = payout[p].lines
                         /\ payout'[p].instructor = payout[p].instructor
                         /\ payout'[p].status = "absent" <=> payout[p].status = "absent"
                         /\ payout'[p].status \in Active <=> payout[p].status \in Active
                         /\ payout'[p].status = "paid" <=> payout[p].status = "paid"
  BY <1>1, <1>3 DEF Active
<1>6. LinesFit'
  <2>1. \A p \in Payouts : payout'[p].status # "absent" => payout'[p].amount = Effective(payout'[p])
    BY <1>3, <1>4, <1>5 DEF Consistent, Rows, LinesFit
  <2>. QED  BY <1>2, <1>5, <2>1 DEF Consistent, Rows, LinesFit, Effective
<1>7. Linked' /\ ClaimedOnce'  BY <1>2, <1>5 DEF Consistent, Rows, Linked, ClaimedOnce
<1>8. PaidFlagsAgree'  BY <1>2, <1>5 DEF Consistent, Rows, PaidFlagsAgree
<1>9. CoveredLinesStayBillable'
  BY <1>2, <1>5 DEF Consistent, Rows, CoveredLinesStayBillable, StillWorth, Priced, Price
<1>10. Moves(i)  BY <1>2, <1>5 DEF Moves, Active
<1>. QED  BY <1>6, <1>7, <1>8, <1>9, <1>10 DEF Rows

(* reject, pay and reverse stamp every session that is linked to their     *)
(* payout, and none that another payout has.                               *)
LEMMA Stamped ==
  ASSUME TypeOK, Consistent, NEW i \in Instances, NEW after, Stamp(i, after),
         cmd[i].op \in {"reject", "pay", "reverse"}, pc[i] = "commit"
  PROVE  \A s \in Sessions :
            LET stamped == s \in LinkedLines(i) /\ session[s].present IN
            /\ session'[s] = IF stamped THEN after[s] ELSE session[s]
            /\ session[s].present /\ session[s].payoutId = Target(i) => stamped
            /\ stamped => /\ s \in DOMAIN payout[Target(i)].lines
                          /\ cmd[i].op = "reject" => session[s].payoutId \in {Target(i), NoPayout}
<1>. DEFINE t == Target(i)
<1>1. /\ Prepared(i) /\ t \in Payouts /\ row[i].lines = payout[t].lines
  BY TargetTypes DEF Consistent, Prepared, SawLines, PayoutOps
<1>2. ASSUME NEW s \in Sessions, session[s].present, session[s].payoutId = t
      PROVE  s \in LinkedLines(i)
  <2>1. s \in DOMAIN payout[t].lines  BY <1>1, <1>2 DEF Consistent, Rows, Linked
  <2>2. mirror[i][s].present /\ mirror[i][s].payoutId = t  BY <1>1, <1>2 DEF Prepared, SawLinks
  <2>. QED  BY <1>1, <2>1, <2>2 DEF LinkedLines
<1>3. ASSUME NEW s \in Sessions, s \in LinkedLines(i), session[s].present
      PROVE  /\ s \in DOMAIN payout[t].lines
             /\ cmd[i].op = "reject" => session[s].payoutId \in {t, NoPayout}
  BY <1>1, <1>3 DEF Prepared, SawLinks, LinkedLines
<1>. QED  BY <1>2, <1>3 DEF Stamp

(* reject and reverse release the sessions of their payout: no session is  *)
(* linked to it any more, and one that another payout has is not touched.  *)
LEMMA ReleaseRows ==
  ASSUME TypeOK, RowFits, Consistent, NEW i \in Instances, Reject(i) \/ Reverse(i)
  PROVE  Rows' /\ Moves(i)
<1>. DEFINE t == Target(i)
<1>1. /\ t \in Payouts /\ pc[i] = "commit" /\ cmd[i].op \in {"reject", "pay", "reverse"}
      /\ payout[t].status # "absent"
      /\ Reject(i) => payout[t].status # "paid"
      /\ Reverse(i) => payout[t].status \in Active
  BY CommitFrom DEF Reject, Reverse, Committing, From, PayoutOps, Active
<1>2. UNCHANGED <<report, covered>>  BY DEF Reject, Reverse
<1>3. /\ payout'[t].status = "rejected"
      /\ payout'[t].lines = payout[t].lines /\ payout'[t].instructor = payout[t].instructor
      /\ payout'[t].amount = payout[t].amount /\ payout'[t].adjusted = payout[t].adjusted
      /\ \A p \in Payouts \ {t} : payout'[p] = payout[p]
  BY <1>1 DEF Reject, Reverse, SetStatus, TypeOK, DbTypes, PayoutRows
<1>4. \A s \in Sessions : session[s] \in SessionRows  BY DEF TypeOK, DbTypes
<1>5. \A s \in Sessions : session[s].present =>
        /\ session[s].isPaid => session[s].payoutId \in Payouts
                                /\ payout[session[s].payoutId].status = "paid"
        /\ \A p \in Payouts : session[s].payoutId = p =>
              payout[p].status \in Active /\ s \in DOMAIN payout[p].lines
  BY DEF Consistent, Rows, PaidFlagsAgree, Linked
(* A stamped session ends unlinked and unpaid, any other stays as it is    *)
(* and is not linked to t.                                                 *)
<1>6. ASSUME NEW s \in Sessions, session[s].present
      PROVE  \/ /\ session[s].payoutId \in {t, NoPayout}
                /\ session'[s].payoutId = NoPayout /\ ~session'[s].isPaid
             \/ /\ session[s].payoutId # t
                /\ session'[s] = session[s]
  <2>1. CASE Reject(i)
    <3>1. cmd[i].op = "reject" /\ Stamp(i, Released)  BY <2>1 DEF Reject, Committing
    <3>2. \/ session[s].payoutId \in {t, NoPayout} /\ session'[s] = Released[s]
          \/ session[s].payoutId # t /\ session'[s] = session[s]
      BY <1>1, <1>6, <3>1, Stamped
    <3>3. session[s].payoutId \in {t, NoPayout} => ~session[s].isPaid
      BY <1>1, <1>5, <1>6, <2>1, ConstantsAssumption
    <3>4. Released[s].payoutId = NoPayout /\ Released[s].isPaid = session[s].isPaid
      BY <1>4 DEF Released, SessionRows
    <3>. QED  BY <3>2, <3>3, <3>4
  <2>2. CASE Reverse(i)
    <3>1. Stamp(i, ReleasedUnpaid)  BY <2>2 DEF Reverse
    <3>2. \/ s \in DOMAIN payout[t].lines /\ session'[s] = ReleasedUnpaid[s]
          \/ session[s].payoutId # t /\ session'[s] = session[s]
      BY <1>1, <1>6, <3>1, Stamped
    <3>3. s \in DOMAIN payout[t].lines => session[s].payoutId = t
      BY <1>1, <1>6, <2>2 DEF Consistent, Rows, Linked
    <3>4. ReleasedUnpaid[s].payoutId = NoPayout /\ ~ReleasedUnpaid[s].isPaid
      BY <1>4 DEF ReleasedUnpaid, SessionRows
    <3>. QED  BY <3>2, <3>3, <3>4
  <2>. QED  BY <2>1, <2>2
<1>7. \A s \in Sessions : /\ session'[s].present = session[s].present
                          /\ session'[s].status = session[s].status
                          /\ session'[s].override = session[s].override
                          /\ session'[s].payoutId \in {session[s].payoutId, NoPayout}
  <2>1. \A s \in Sessions : session'[s] \in {session[s], Released[s], ReleasedUnpaid[s]}
    BY <1>1, Stamped DEF Reject, Reverse
  <2>2. ASSUME NEW s \in Sessions, NEW r \in {session[s], Released[s], ReleasedUnpaid[s]}
        PROVE  /\ r.present = session[s].present /\ r.status = session[s].status
               /\ r.override = session[s].override
               /\ r.payoutId \in {session[s].payoutId, NoPayout}
    BY <1>4, <2>2 DEF Released, ReleasedUnpaid, SessionRows
  <2>. QED  BY <2>1, <2>2
<1>8. \A p \in Payouts : payout'[p].status \in Active =>
                            p # t /\ p # NoPayout /\ payout'[p] = payout[p]
  BY <1>3, ConstantsAssumption DEF Active
<1>. HIDE DEF t
<1>9. LinesFit'  BY <1>1, <1>2, <1>3 DEF Consistent, Rows, LinesFit, Effective
<1>10. Linked'
  <2>1. \A p \in Payouts : DOMAIN payout[p].lines \subseteq Sessions
    BY DEF TypeOK, DbTypes, PayoutRows, Lines
  <2>2. ASSUME NEW s \in Sessions, NEW p \in Payouts, session'[s].present, session'[s].payoutId = p
        PROVE  payout'[p].status \in Active /\ s \in DOMAIN payout'[p].lines
    <3>1. session[s].present /\ session[s].payoutId = p /\ p # t
      BY <1>6, <1>7, <2>2, ConstantsAssumption
    <3>. QED  BY <1>3, <3>1 DEF Consistent, Rows, Linked
  <2>3. ASSUME NEW p \in Payouts, payout'[p].status \in Active,
               NEW s \in DOMAIN payout'[p].lines, session'[s].present
        PROVE  session'[s].payoutId = p
    <3>1. p # t /\ p # NoPayout /\ s \in Sessions /\ session[s].present
      BY <1>7, <1>8, <2>1, <2>3
    <3>2. session[s].payoutId = p
      BY <1>8, <2>3, <3>1 DEF Consistent, Rows, Linked
    <3>. QED  BY <1>6, <3>1, <3>2
  <2>. QED  BY <2>2, <2>3 DEF Linked
<1>11. ClaimedOnce'  BY <1>8 DEF Consistent, Rows, ClaimedOnce
<1>12. PaidFlagsAgree'
  <2>. SUFFICES ASSUME NEW s \in Sessions, session'[s].present
                PROVE  /\ session'[s].isPaid <=> \E p \in Payouts : session'[s].payoutId = p
                                                                    /\ payout'[p].status = "paid"
                       /\ session'[s].isPaid => session'[s].paidPayoutId = session'[s].payoutId
    BY DEF PaidFlagsAgree
  <2>1. CASE session'[s].payoutId = NoPayout /\ ~session'[s].isPaid
    BY <2>1, ConstantsAssumption
  <2>2. CASE session[s].payoutId # t /\ session'[s] = session[s]
    BY <1>3, <2>2 DEF Consistent, Rows, PaidFlagsAgree
  <2>. QED  BY <1>6, <1>7, <2>1, <2>2
<1>13. CoveredLinesStayBillable'
  <2>. SUFFICES ASSUME NEW p \in Payouts, payout'[p].status \in Active, NEW s \in covered'[p]
                PROVE  StillWorth(p, s)'
    BY DEF CoveredLinesStayBillable
  <2>1. s \in Sessions /\ StillWorth(p, s)
    BY <1>2, <1>8 DEF Consistent, Rows, CoveredLinesStayBillable, TypeOK, DbTypes
  <2>. QED  BY <1>2, <1>7, <1>8, <2>1 DEF StillWorth, Priced, Price
<1>14. Moves(i)
  <2>1. \A p \in Payouts : payout[p].status = "absent" => payout'[p].status \notin Active
    BY <1>1, <1>3 DEF Active
  <2>. QED  BY <1>1, <1>2, <1>3, <1>7, <1>8, <2>1 DEF Moves
<1>. QED  BY <1>9, <1>10, <1>11, <1>12, <1>13, <1>14 DEF Rows

LEMMA PayRows ==
  ASSUME TypeOK, RowFits, Consistent, NEW i \in Instances, Pay(i)
  PROVE  Rows' /\ Moves(i)
<1>. DEFINE t == Target(i)
<1>1. t \in Payouts /\ payout[t].status = "confirmed" /\ Committing(i, "pay")
  BY CommitFrom DEF Pay, From, PayoutOps
<1>2. UNCHANGED <<report, covered>>  BY DEF Pay
<1>3. /\ payout'[t].status = "paid"
      /\ payout'[t].lines = payout[t].lines /\ payout'[t].instructor = payout[t].instructor
      /\ payout'[t].amount = payout[t].amount /\ payout'[t].adjusted = payout[t].adjusted
      /\ \A p \in Payouts \ {t} : payout'[p] = payout[p]
  BY <1>1 DEF Pay, SetStatus, TypeOK, DbTypes, PayoutRows
<1>4. \A s \in Sessions : session[s] \in SessionRows  BY DEF TypeOK, DbTypes
<1>5. \A s \in Sessions :
        /\ session'[s] = IF session[s].present /\ session[s].payoutId = t
                         THEN PaidBy(t)[s] ELSE session[s]
  <2>1. Stamp(i, PaidBy(t)) /\ cmd[i].op = "pay" /\ pc[i] = "commit"
    BY <1>1 DEF Pay, Committing
  <2>2. \A s \in DOMAIN payout[t].lines : session[s].present => session[s].payoutId = t
    BY <1>1 DEF Consistent, Rows, Linked, Active
  <2>. QED  BY <2>1, <2>2, Stamped
<1>6. \A s \in Sessions :
        /\ session'[s].present = session[s].present
        /\ session'[s].status = session[s].status
        /\ session'[s].override = session[s].override
        /\ session'[s].payoutId = session[s].payoutId
        /\ session[s].present /\ session[s].payoutId = t =>
              session'[s].isPaid /\ session'[s].paidPayoutId = t
        /\ session[s].payoutId # t =>
              session'[s].isPaid = session[s].isPaid /\ session'[s].paidPayoutId = session[s].paidPayoutId
  BY <1>4, <1>5 DEF PaidBy, SessionRows
<1>. HIDE DEF t
<1>7. \A p \in Payouts : /\ payout'[p].lines = payout[p].lines
                         /\ payout'[p].instructor = payout[p].instructor
                         /\ payout'[p].status = "absent" <=> payout[p].status = "absent"
                         /\ payout'[p].status \in Active <=> payout[p].status \in Active
  BY <1>1, <1>3 DEF Active
<1>8. LinesFit'  BY <1>1, <1>2, <1>3 DEF Consistent, Rows, LinesFit, Effective
<1>9. \A p \in Payouts : DOMAIN payout[p].lines \subseteq Sessions
  BY DEF TypeOK, DbTypes, PayoutRows, Lines
<1>10. Linked' /\ ClaimedOnce'
  BY <1>6, <1>7, <1>9 DEF Consistent, Rows, Linked, ClaimedOnce
<1>11. PaidFlagsAgree'
  <2>. SUFFICES ASSUME NEW s \in Sessions, session'[s].present
                PROVE  /\ session'[s].isPaid <=> \E p \in Payouts : session'[s].payoutId = p
                                                                    /\ payout'[p].status = "paid"
                       /\ session'[s].isPaid => session'[s].paidPayoutId = session'[s].payoutId
    BY DEF PaidFlagsAgree
  <2>1. CASE session[s].payoutId = t  BY <1>1, <1>3, <1>6, <2>1
  <2>2. CASE session[s].payoutId # t
    BY <1>3, <1>6, <2>2 DEF Consistent, Rows, PaidFlagsAgree
  <2>. QED  BY <2>1, <2>2
<1>12. CoveredLinesStayBillable'
  <2>. SUFFICES ASSUME NEW p \in Payouts, payout'[p].status \in Active, NEW s \in covered'[p]
                PROVE  StillWorth(p, s)'
    BY DEF CoveredLinesStayBillable
  <2>1. s \in Sessions /\ StillWorth(p, s)
    BY <1>2, <1>7 DEF Consistent, Rows, CoveredLinesStayBillable, TypeOK, DbTypes
  <2>. QED  BY <1>2, <1>6, <1>7, <2>1 DEF StillWorth, Priced, Price
<1>13. Moves(i)  BY <1>2, <1>6, <1>7 DEF Moves, Active
<1>. QED  BY <1>8, <1>10, <1>11, <1>12, <1>13 DEF Rows

-----------------------------------------------------------------------------
(* What the rows and the processes say of each other holds at all times.   *)
LEMMA ConsistentStep ==
  ASSUME TypeOK, RowFits, Consistent, [Next]_vars
  PROVE  Consistent'
<1>1. CASE UNCHANGED vars
  <2>1. UNCHANGED <<session, report, payout, covered, holder, pc, cmd, want, mirror, quote, row>>
    BY <1>1 DEF vars, db, process
  <2>2. Rows'
    BY <2>1 DEF Consistent, Rows, LinesFit, Linked, ClaimedOnce, PaidFlagsAgree,
       CoveredLinesStayBillable, StillWorth
  <2>. SUFFICES ASSUME NEW i \in Instances PROVE Prepared(i)'  BY <2>2 DEF Consistent
  <2>3. Target(i)' = Target(i) /\ Prepared(i)  BY <2>1 DEF Target, Consistent
  <2>4. HoldsFirst(i)'  BY <2>1, <2>3 DEF Prepared, HoldsFirst, FirstKeys
  <2>5. SawLinks(i)' /\ SawLines(i)'  BY <2>1, <2>3 DEF Prepared, SawLinks, SawLines
  <2>6. SawPrices(i)'
    BY <2>1, <2>3 DEF Prepared, SawPrices, Generating, Locked
  <2>7. SawSession(i)'  BY <2>1, <2>3 DEF Prepared, SawSession, Uncovered
  <2>. QED  BY <2>4, <2>5, <2>6, <2>7 DEF Prepared
<1>2. ASSUME NEW i \in Instances, UNCHANGED db
      PROVE  Rows' /\ Moves(i)
  BY <1>2, StillMoves DEF db, Consistent, Rows, LinesFit, Linked, ClaimedOnce, PaidFlagsAgree,
     CoveredLinesStayBillable, StillWorth
<1>3. ASSUME NEW i \in Instances, Finish(i), Rows', Moves(i)
      PROVE  Consistent'
  BY <1>3, FinishSpares, OthersPrepared, FinishPrepared DEF Consistent
<1>4. ASSUME NEW i \in Instances, BeginAny(i) \/ Proceed(i)
      PROVE  Consistent'
  <2>1. UNCHANGED db
    BY <1>4 DEF BeginAny, Begin, Proceed, Acquire, LoadSessions, MeasureLines, MeasureAgain,
       ReadPayout, ReadSession
  <2>2. Prepared(i)'  BY <1>4, BeginPrepared, ProceedPrepared
  <2>. QED  BY <1>2, <1>4, <2>1, <2>2, ProceedSpares, OthersPrepared DEF Consistent
<1>5. ASSUME NEW i \in Instances, Abort(i)
      PROVE  Consistent'
  BY <1>2, <1>3, <1>5 DEF Abort
<1>6. ASSUME NEW i \in Instances, CommitSession(i)
      PROVE  Consistent'
  BY <1>3, <1>6, SessionCommits, CommitSessionRows
<1>7. ASSUME NEW i \in Instances, CommitPayout(i)
      PROVE  Consistent'
  <2>1. Finish(i)
    BY <1>7 DEF CommitPayout, Generate, Confirm, Unconfirm, Adjust, Reject, Pay, Reverse
  <2>2. Rows' /\ Moves(i)
    BY <1>7, GenerateRows, PlainRows, ReleaseRows, PayRows DEF CommitPayout
  <2>. QED  BY <1>3, <2>1, <2>2
<1>. QED  BY <1>1, <1>4, <1>5, <1>6, <1>7 DEF Next

(* The rows agree with each other and every command's picture of what it   *)
(* has locked agrees with them, until it commits (claimPayout, pay).       *)
THEOREM Consistency == Spec => []Consistent
<1>1. Init => Consistent
  <2>. SUFFICES ASSUME Init PROVE Consistent  OBVIOUS
  <2>1. /\ \A p \in Payouts : payout[p].status = "absent" /\ covered[p] = {}
        /\ \A s \in Sessions : session[s].payoutId = NoPayout /\ ~session[s].isPaid
    BY DEF Init, NoRow, NewSession
  <2>2. Rows
    BY <2>1, ConstantsAssumption
    DEF Rows, LinesFit, Linked, ClaimedOnce, PaidFlagsAgree, CoveredLinesStayBillable, Active
  <2>3. \A i \in Instances : pc[i] = "idle" /\ cmd[i].op = "none"  BY DEF Init, Idle
  <2>4. \A i \in Instances : Prepared(i)
    BY <2>3 DEF Prepared, HoldsFirst, SawLinks, SawLines, SawPrices, SawSession, Generating,
                PayoutOps
  <2>. QED  BY <2>2, <2>4 DEF Consistent
<1>2. TypeOK /\ RowFits /\ Consistent /\ [Next]_vars => Consistent'
  BY ConsistentStep
<1>. QED  BY <1>1, <1>2, Typing, PTL DEF Spec

(* pay, reverse: is_paid is set exactly on the sessions of paid payouts,   *)
(* all of them, and paid_payout_id names the payout that paid.             *)
THEOREM PaidFlags == Spec => []PaidFlagsAgree
BY Consistency, PTL DEF Consistent, Rows

(* generate and every command that can change what a session is worth: a   *)
(* line generate held the session lock of stays billable, at its price,    *)
(* while its payout is active.                                             *)
THEOREM CoveredLines == Spec => []CoveredLinesStayBillable
BY Consistency, PTL DEF Consistent, Rows

(* The integrity check of the production data reports no payout and no     *)
(* session: the link it looks for in each direction is there, no session   *)
(* is claimed twice, the amount has a source and the transactions rows are *)
(* those of the status.  It reports a line only because its session was    *)
(* removed, which an active payout whose generate held the lock rules out. *)
THEOREM CleanCheck == Spec => []IntegrityCheckIsClean
<1>1. TypeOK /\ LedgerMatchesStatus /\ Consistent => IntegrityCheckIsClean
  <2>. SUFFICES ASSUME TypeOK, LedgerMatchesStatus, Consistent PROVE IntegrityCheckIsClean
    OBVIOUS
  <2>1. ASSUME NEW p \in Payouts, payout[p].status # "absent" PROVE ~PayoutReported(p)
    <3>. DEFINE outs == LedgerRows(p, "out")
    <3>. DEFINE backs == LedgerRows(p, "in")
    <3>1. BookedAs(p) /\ payout[p].reversed \in BOOLEAN /\ payout[p].status \in PayoutStates
      BY DEF LedgerMatchesStatus, TypeOK, DbTypes, PayoutRows
    <3>2. \A n : Cardinality({n}) = 1  BY FS_Singleton
    <3>3. /\ payout[p].reversed => /\ payout[p].status = "rejected"
                                   /\ Cardinality(outs) = 1 /\ Cardinality(backs) = 1
                                   /\ \A n \in outs, m \in backs : ledger[n].amount = ledger[m].amount
          /\ ~payout[p].reversed => backs = {}
          /\ ~payout[p].reversed /\ payout[p].status # "paid" => outs = {}
          /\ payout[p].status = "paid" => /\ Cardinality(outs) = 1
                                          /\ \A n \in outs : ledger[n].amount = payout[p].amount
      BY <3>1, <3>2 DEF BookedAs, PaidBack, PaidOut, Unbooked
    <3>4. payout[p].amount = Effective(payout[p])  BY <2>1 DEF Consistent, Rows, LinesFit
    <3>5. payout[p].status \in Active => ~ClaimedTwice(p)
      BY DEF Consistent, Rows, ClaimedOnce, ClaimedTwice
    <3>6. \A s \in Sessions : session[s].present /\ BackReferenced(p, s) => payout[p].status \in Active
      BY DEF Consistent, Rows, Linked, BackReferenced
    <3>. HIDE DEF outs, backs
    <3>. QED  BY <3>1, <3>3, <3>4, <3>5, <3>6 DEF PayoutReported, outs, backs, Active
  <2>2. ASSUME NEW p \in Payouts, payout[p].status # "absent",
               NEW s \in DOMAIN payout[p].lines, LineReported(p, s)
        PROVE  /\ ~session[s].present
               /\ payout[p].status \in Active => s \notin covered[p]
    <3>1. payout[p].status \in Active => (session[s].present => BackReferenced(p, s))
      BY <2>2 DEF Consistent, Rows, Linked, BackReferenced
    <3>2. payout[p].status \in Active /\ s \in covered[p] => session[s].present
      BY <2>2 DEF Consistent, Rows, CoveredLinesStayBillable, StillWorth
    <3>. QED  BY <2>2, <3>1, <3>2 DEF LineReported
  <2>3. ASSUME NEW s \in Sessions PROVE ~SessionReported(s)
    <3>1. session[s].payoutId \in Payouts \cup {NoPayout}  BY DEF TypeOK, DbTypes, SessionRows
    <3>. QED  BY <3>1 DEF Consistent, Rows, Linked, SessionReported
  <2>. QED  BY <2>1, <2>2, <2>3 DEF IntegrityCheckIsClean
<1>. QED  BY <1>1, Typing, LedgerMatches, Consistency, PTL

=============================================================================
