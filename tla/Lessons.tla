------------------------------ MODULE Lessons ------------------------------
(***************************************************************************)
(* The facts of lessons that have a place in the timetable: who teaches,   *)
(* who takes part, who was there, what the reports say, and what follows   *)
(* for hours and pay (schedule.service, attendance.service,                *)
(* reports.service and the session-* policies).  Timetable has the places  *)
(* and hours, PayoutSettlement the payouts.                                *)
(*                                                                         *)
(* A client first sees a preview (the impact on hours and pay, the version *)
(* of a report), then sends its command; the command takes its locks, and  *)
(* reads; then it writes.  Texts are numbers.  All lessons are of one      *)
(* course and one series.                                                  *)
(***************************************************************************)
EXTENDS UnitOfWork, Functions

CONSTANTS SeriesLessons, Learners, Lecturers, ReportIds,
          NoLecturer,      \* an unassigned lesson
          NoFee,           \* SQL NULL in instructor_pay_amount
          Rate,            \* what a lesson is worth by the hourly rate
          LessonSeeds, LessonCommands,
          MaxLessonSteps   \* bound: commands that begin

VARIABLES lesson,          \* class_sessions: [there, status, past, teacher, mark, roster, fee, linked]
          marked,          \* attendance: the learners with a row
          cohort,          \* learners with an active enrollment in the course
          written,         \* session_reports
          revisions,       \* session_report_revisions
          lessonSteps,     \* counts up to MaxLessonSteps
          everLeft,        \* history: learners whose enrollment ended at some time
          approvedAs       \* history: version and text of a report when it was approved

lessonRows == <<lesson, marked, cohort, written, revisions>>
lessonVars == <<lessonRows, lessonSteps, everLeft, approvedAs>>

NoReport == [live |-> FALSE, l |-> 0, x |-> 0, teacher |-> NoLecturer, status |-> "draft",
             approval |-> "none", version |-> 0, text |-> 0]

Statuses == {"scheduled", "held", "canceled", "no_show", "makeup"}
Marks    == {"none", "present", "late", "absent", "makeup"}

LessonRows ==
    [there : BOOLEAN, status : Statuses, past : BOOLEAN, teacher : Lecturers \cup {NoLecturer}, mark : Marks,
     roster : SUBSET Learners, fee : Nat \cup {NoFee}, linked : BOOLEAN]

ReportRows ==
    [live : BOOLEAN, l : SeriesLessons \cup {0}, x : Learners \cup {0}, teacher : Lecturers \cup {NoLecturer},
     status : {"draft", "submitted"}, approval : {"none", "draft", "submitted", "approved", "rejected"},
     version : Nat, text : Nat]

LessonsInit ==
    /\ \E seed \in LessonSeeds : lesson = seed.lesson /\ marked = seed.marked /\ written = seed.written
    /\ cohort = Learners
    /\ revisions = {}
    /\ lessonSteps = 0 /\ everLeft = {}
    /\ approvedAs = [r \in ReportIds |-> [version |-> written[r].version, text |-> written[r].text]]

Now == [lesson |-> lesson, marked |-> marked, cohort |-> cohort, written |-> written]

-----------------------------------------------------------------------------
(* Who takes part: the lesson's own list, or else whoever is enrolled.     *)
Participants(row, enrolled) == IF row.roster # {} THEN row.roster ELSE enrolled

ReportsOn(db, l) == {r \in ReportIds : db.written[r].live /\ db.written[r].l = l}

ApprovedFor(db, l) == {db.written[r].x : r \in {q \in ReportsOn(db, l) : db.written[q].approval = "approved"}}

(* attendanceCompletionHoldPatch: a lesson that is over and whose lecturer *)
(* and participants all have their attendance is held, with them for good. *)
FactsComplete(row, marks, enrolled) ==
    /\ row.status = "scheduled" /\ row.past /\ row.teacher # NoLecturer /\ row.mark # "none"
    /\ Participants(row, enrolled) # {} /\ Participants(row, enrolled) \subseteq marks

HeldIfComplete(row, marks, enrolled) ==
    IF FactsComplete(row, marks, enrolled)
      THEN [row EXCEPT !.status = "held", !.roster = Participants(row, enrolled)] ELSE row

(* accountingProjectionOf: hours, hours that are paid, and the amount.     *)
Automatic(row, marks, approved, enrolled) ==
    LET who == Participants(row, enrolled)
    IN  row.mark # "late" /\ who # {} /\ who \subseteq marks /\ who \subseteq approved

Worth(row, marks, approved, enrolled) ==
    LET taught == row.there /\ row.status = "held" /\ row.mark # "absent"
        priced == taught /\ row.teacher # NoLecturer
                  /\ (row.fee # NoFee \/ Automatic(row, marks, approved, enrolled))
    IN  <<IF taught THEN 1 ELSE 0, IF priced THEN 1 ELSE 0,
          IF ~priced THEN 0 ELSE IF row.fee # NoFee THEN row.fee ELSE Rate>>

WorthIn(db, l) == Worth(db.lesson[l], db.marked[l], ApprovedFor(db, l), db.cohort)

Sum3(f) == [i \in 1 .. 3 |-> SumFunction([l \in DOMAIN f |-> f[l][i]])]

(* assertDependentsCompatible, reports.create, attendance.upsert, remove:  *)
(* what is recorded of lesson l belongs there.                             *)
Belong(db, left, l) ==
    /\ db.marked[l] \cup {db.written[r].x : r \in ReportsOn(db, l)}
           \subseteq Participants(db.lesson[l], db.cohort) \cup left
    /\ db.marked[l] # {} \/ ReportsOn(db, l) # {} => db.lesson[l].there
    /\ \A r \in ReportsOn(db, l) :
          db.written[r].teacher = db.lesson[l].teacher /\ db.lesson[l].teacher # NoLecturer
    /\ \A r, q \in ReportsOn(db, l) : db.written[r].x = db.written[q].x => r = q

ASSUME LessonSeedsAssumption ==
    \A s \in LessonSeeds :
        /\ s.lesson \in [SeriesLessons -> LessonRows] /\ s.marked \in [SeriesLessons -> SUBSET Learners]
        /\ s.written \in [ReportIds -> ReportRows]
        /\ \A r \in ReportIds : s.written[r] # NoReport =>
              s.written[r].version > 0 /\ s.written[r].l \in SeriesLessons /\ s.written[r].x \in Learners
        /\ \A l \in SeriesLessons :
              Belong([lesson |-> s.lesson, marked |-> s.marked, cohort |-> Learners, written |-> s.written], {}, l)

-----------------------------------------------------------------------------
(* The lessons a command touches: selectSeriesScope.                       *)
ThereIn(db) == {l \in SeriesLessons : db.lesson[l].there}

LessonTargets(db, c) ==
    IF "scope" \notin DOMAIN c \/ c.scope = "this" THEN {c.l}
    ELSE {l \in ThereIn(db) : c.scope = "all" \/ l >= c.l} \cup {c.l}

(* mergeFields and what update makes of the lesson it is about.            *)
First(db, c) ==
    LET row == db.lesson[c.l] IN
    CASE c.op = "move"      -> [row EXCEPT !.status = "scheduled", !.mark = "none", !.past = c.past]
      [] c.op = "setStatus" -> [row EXCEPT !.status = c.status]
      [] c.op = "setRoster" -> [row EXCEPT !.roster = c.roster]
      [] c.op = "setMark"   -> HeldIfComplete([row EXCEPT !.mark = c.mark], db.marked[c.l], db.cohort)
      [] c.op = "clearMark" -> [row EXCEPT !.mark = "none", !.status = IF @ = "held" THEN "scheduled" ELSE @]
      [] c.op = "clear"     -> [row EXCEPT !.status = IF @ = "held" THEN "scheduled" ELSE @]
      [] c.op = "remove"    -> [row EXCEPT !.there = FALSE]
      [] OTHER              -> row

(* The other lessons of the scope: status and lecturer are those of the    *)
(* first, whatever the request was about.                                  *)
Edited(db, c, l) ==
    LET row == db.lesson[l] IN
    IF l = c.l THEN First(db, c)
    ELSE CASE c.op = "remove" -> [row EXCEPT !.there = FALSE]
           [] c.op = "move"   -> [row EXCEPT !.status = "scheduled", !.mark = "none", !.past = c.past,
                                             !.teacher = db.lesson[c.l].teacher]
           [] OTHER           -> [row EXCEPT !.status = First(db, c).status, !.teacher = First(db, c).teacher]

MarksAfter(db, c, l)    == db.marked[l] \ (IF c.op = "clear" THEN {c.x} ELSE {})
ApprovedAfter(db, c, l) == ApprovedFor(db, l) \ (IF c.op = "reject" THEN {db.written[c.r].x} ELSE {})

(* combineAccountingImpacts and accountingImpactHash: which lessons, is one *)
(* in a payout, is one of them worth something else, and the sums.         *)
ImpactOn(targets, inPayout, before, after) ==
    [on |-> targets, inPayout |-> inPayout, changed |-> before # after,
     before |-> Sum3(before), after |-> Sum3(after)]

Impact(db, c) ==
    LET targets == LessonTargets(db, c)
    IN  ImpactOn(targets, \E l \in targets : db.lesson[l].linked,
            [l \in targets |-> WorthIn(db, l)],
            [l \in targets |-> Worth(Edited(db, c, l), MarksAfter(db, c, l), ApprovedAfter(db, c, l), db.cohort)])

Changes(impact) == impact.changed

-----------------------------------------------------------------------------
Edits     == {"move", "setStatus", "setRoom", "setRoster", "setMark", "clearMark"}
Previewed == Edits \cup {"clear", "reject", "remove"}
OfLessons == Edits \cup {"remove", "assign", "price", "link", "attend", "clear", "write", "correct"}
OfReports == {"rewrite", "withdraw", "submit", "approve", "reject", "revise"}

ASSUME LessonIdsAssumption == 0 \notin SeriesLessons

ASSUME RateAssumption == Rate \in Nat

(* The requests a client may send.                                         *)
ASSUME LessonCommandsAssumption ==
    \A c \in LessonCommands :
        /\ "op" \in DOMAIN c /\ c.op \in OfLessons \cup OfReports \cup {"leave", "rejoin"} /\ "q" \notin DOMAIN c
        /\ ("l" \in DOMAIN c <=> c.op \in OfLessons) /\ (c.op \in OfLessons => c.l \in SeriesLessons)
        /\ ("r" \in DOMAIN c <=> c.op \in OfReports) /\ (c.op \in OfReports => c.r \in ReportIds)
        /\ "scope" \in DOMAIN c => c.op \in Edits \cup {"remove"}
        /\ c.op \in {"leave", "rejoin", "attend", "clear", "write"} => c.x \in Learners
        /\ c.op \in {"rewrite", "revise"} => "text" \in DOMAIN c /\ c.text \in Nat
        /\ c.op \in {"setMark", "correct"} => c.mark \in Marks
        /\ c.op = "move"      => c.past \in BOOLEAN
        /\ c.op = "setStatus" => c.status \in Statuses
        /\ c.op = "setRoster" => c.roster \subseteq Learners
        /\ c.op = "assign"    => c.teacher \in Lecturers \cup {NoLecturer}
        /\ c.op = "price"     => c.fee \in Nat \cup {NoFee}
        /\ c.op = "write"     => c.status \in {"draft", "submitted"}
        /\ c.op = "correct"   => c.by \in Lecturers

LessonOf(c) ==
    IF "r" \in DOMAIN c
      THEN [f \in DOMAIN c \cup {"l"} |-> IF f = "l" THEN written[c.r].l ELSE c[f]] ELSE c

(* What the client is shown before it sends the command.                   *)
Shown(c) ==
    IF c.op \in Previewed THEN Impact(Now, LessonOf(c))
    ELSE IF c.op = "revise" THEN [version |-> written[c.r].version]
    ELSE [nothing |-> TRUE]

(* A report or a lesson the client names has been there.                   *)
Known(c) == ("r" \in DOMAIN c => written[c.r] # NoReport) /\ ("l" \in DOMAIN c => lesson[c.l].there)

AskLesson(p) ==
    /\ lessonSteps < MaxLessonSteps
    /\ \E c \in LessonCommands : Known(c) /\ Begin(p, LessonOf(c), {}, [shown |-> Shown(c)])
    /\ lessonSteps' = lessonSteps + 1
    /\ UNCHANGED <<lessonRows, everLeft, approvedAs>>

(* sessionAccountingLockKeys, and the series before them.                  *)
LessonKeys(c) ==
    IF c.op \in {"leave", "rejoin"} THEN {<<"enrollment", c.x>>}
    ELSE {<<"session", l>> : l \in LessonTargets(Now, c)} \cup
         (IF c.op \in Edits \cup {"remove"} THEN {<<"series">>} ELSE {}) \cup
         (IF "r" \in DOMAIN c THEN {<<"report", c.r>>} ELSE {}) \cup
         (IF "q" \in DOMAIN c THEN {<<"request", c.q>>} ELSE {})

(* Mutants: create locks no lesson; a command acts on what it was shown.   *)
WrittenUnlocked(c) == IF c.op = "write" THEN {} ELSE LessonKeys(c)

KeysOfLessonCommand(c) == LessonKeys(c)

ReadLesson(p) ==
    LET c == run[p].cmd IN
    /\ "shown" \in DOMAIN run[p].saw /\ "now" \notin DOMAIN run[p].saw
    /\ Free(p, KeysOfLessonCommand(c))
    /\ run' = [run EXCEPT ![p].held = KeysOfLessonCommand(c), ![p].saw = [shown |-> @.shown, now |-> Now]]
    /\ UNCHANGED lessonVars

RefuseLesson(p) == Abort(p) /\ UNCHANGED lessonVars

Doing(p, op) == run[p].cmd.op = op /\ "now" \in DOMAIN run[p].saw
Saw(p)       == run[p].saw.now
Exists(p, l) == Saw(p).lesson[l].there

Locked(row) == row.linked

(* assertAcknowledged: the impact is the one that was shown.               *)
(* Mutant: that it was acknowledged is enough.                             *)
AcknowledgedAtAll(p, impact) == TRUE

Acknowledged(p, impact) == run[p].saw.shown = impact

(* assertDependentsCompatible: for the others of a series the request has  *)
(* no list of participants, so that those enrolled count.                  *)
Compatible(db, c, l) ==
    LET after  == Edited(db, c, l)
        roster == IF l = c.l THEN Participants(after, db.cohort) ELSE db.cohort
    IN  /\ db.marked[l] \cup {db.written[r].x : r \in ReportsOn(db, l)} \subseteq roster
        /\ ReportsOn(db, l) # {} => after.teacher = db.lesson[l].teacher

(* CHECK of class_sessions: a lesson without lecturer has no results.      *)
UnassignedIsBare(row) ==
    row.teacher = NoLecturer =>
        row.status \notin {"held", "makeup"} /\ row.mark = "none" /\ row.fee = NoFee /\ ~row.linked

(* isManualCompletionStatusViolation, isTemporalChangeBlockedStatus.       *)
AllowedEdit(db, c) ==
    /\ c.op = "setStatus" => /\ c.status = "held" => db.lesson[c.l].status = "held"
                             /\ c.status = "scheduled" => db.lesson[c.l].status # "held"
    /\ c.op = "move" => \A l \in LessonTargets(db, c) : db.lesson[l].status \notin {"canceled", "no_show", "makeup"}
    /\ c.op \in {"setMark", "clearMark"} => db.lesson[c.l].teacher # NoLecturer

(* schedule.update, for one lesson or a part of its series.  A command     *)
(* with a q is the approval of a request (LessonRequests).                 *)
Update(p) ==
    LET c       == run[p].cmd
        db      == Saw(p)
        targets == LessonTargets(db, c)
        impact  == Impact(db, c)
    IN  /\ \E op \in Edits : Doing(p, op)
        /\ Exists(p, c.l) /\ AllowedEdit(db, c)
        /\ \A l \in targets : Compatible(db, c, l) /\ ~Locked(db.lesson[l]) /\ UnassignedIsBare(Edited(db, c, l))
        /\ Changes(impact) /\ (\E l \in targets : db.lesson[l].status = "held") => Acknowledged(p, impact)
        /\ lesson' = [l \in SeriesLessons |-> IF l \in targets THEN Edited(db, c, l) ELSE lesson[l]]
        /\ marked' = [l \in SeriesLessons |-> IF c.op = "move" /\ l \in targets THEN {} ELSE marked[l]]
        /\ End(p)
        /\ UNCHANGED <<cohort, written, revisions, lessonSteps, everLeft, approvedAs>>

EditLesson(p) == "q" \notin DOMAIN run[p].cmd /\ Update(p)

(* schedule.remove, with its attendance and its reports.                   *)
RemoveLesson(p) ==
    LET c       == run[p].cmd
        db      == Saw(p)
        targets == LessonTargets(db, c)
    IN  /\ Doing(p, "remove") /\ Exists(p, c.l)
        /\ \A l \in targets : ~Locked(db.lesson[l])
        /\ Changes(Impact(db, c)) => Acknowledged(p, Impact(db, c))
        /\ lesson' = [l \in SeriesLessons |-> IF l \in targets THEN [lesson[l] EXCEPT !.there = FALSE] ELSE lesson[l]]
        /\ marked' = [l \in SeriesLessons |-> IF l \in targets THEN {} ELSE marked[l]]
        /\ written' = [r \in ReportIds |->
                         IF written[r].l \in targets THEN [written[r] EXCEPT !.live = FALSE] ELSE written[r]]
        /\ End(p)
        /\ UNCHANGED <<cohort, revisions, lessonSteps, everLeft, approvedAs>>

(* schedule.assignInstructor.                                              *)
Assign(p) ==
    LET c   == run[p].cmd
        row == Saw(p).lesson[c.l]
    IN  /\ Doing(p, "assign") /\ Exists(p, c.l)
        /\ row.teacher # c.teacher /\ ~Locked(row)
        /\ ReportsOn(Saw(p), c.l) = {}
        /\ Saw(p).marked[c.l] \subseteq Participants(row, Saw(p).cohort)
        /\ c.teacher = NoLecturer =>
             /\ row.status \notin {"held", "makeup"} /\ row.mark = "none" /\ row.fee = NoFee
             /\ Saw(p).marked[c.l] = {}
        /\ lesson' = [lesson EXCEPT ![c.l].teacher = c.teacher]
        /\ End(p)
        /\ UNCHANGED <<marked, cohort, written, revisions, lessonSteps, everLeft, approvedAs>>

(* setSessionPayAmount, and the UPDATE's own condition.                    *)
Price(p) ==
    LET c   == run[p].cmd
        row == Saw(p).lesson[c.l]
    IN  /\ Doing(p, "price") /\ Exists(p, c.l)
        /\ row.teacher # NoLecturer /\ row.status = "held" /\ row.mark # "absent"
        /\ ~lesson[c.l].linked
        /\ lesson' = [lesson EXCEPT ![c.l].fee = c.fee]
        /\ End(p)
        /\ UNCHANGED <<marked, cohort, written, revisions, lessonSteps, everLeft, approvedAs>>

(* payouts.generate claims a lesson that is worth something, reject and    *)
(* reverse release it: PayoutSettlement.                                   *)
LinkOrRelease(p) ==
    LET c == run[p].cmd IN
    /\ Doing(p, "link") /\ Exists(p, c.l)
    /\ Saw(p).lesson[c.l].linked \/ WorthIn(Saw(p), c.l)[2] = 1
    /\ lesson' = [lesson EXCEPT ![c.l].linked = ~@]
    /\ End(p)
    /\ UNCHANGED <<marked, cohort, written, revisions, lessonSteps, everLeft, approvedAs>>

(* enrollments.update: the lessons of the course are not locked.           *)
LeaveOrRejoin(p) ==
    LET x == run[p].cmd.x IN
    /\ \/ Doing(p, "leave") /\ cohort' = cohort \ {x} /\ everLeft' = everLeft \cup {x}
       \/ Doing(p, "rejoin") /\ cohort' = cohort \cup {x} /\ UNCHANGED everLeft
    /\ End(p)
    /\ UNCHANGED <<lesson, marked, written, revisions, lessonSteps, approvedAs>>

(* attendance.upsert; the last one that was missing holds the lesson.      *)
Attend(p) ==
    LET c     == run[p].cmd
        row   == Saw(p).lesson[c.l]
        marks == Saw(p).marked[c.l] \cup {c.x}
    IN  /\ Doing(p, "attend") /\ Exists(p, c.l)
        /\ row.teacher # NoLecturer /\ c.x \in Participants(row, Saw(p).cohort)
        /\ marked' = [marked EXCEPT ![c.l] = @ \cup {c.x}]
        /\ lesson' = [lesson EXCEPT ![c.l] =
                         IF FactsComplete(row, marks, Saw(p).cohort) THEN HeldIfComplete(row, marks, Saw(p).cohort) ELSE @]
        /\ End(p)
        /\ UNCHANGED <<cohort, written, revisions, lessonSteps, everLeft, approvedAs>>

(* attendance.clear.                                                       *)
ClearMark(p) ==
    LET c      == run[p].cmd
        row    == Saw(p).lesson[c.l]
        impact == Impact(Saw(p), c)
    IN  /\ Doing(p, "clear") /\ Exists(p, c.l)
        /\ row.teacher # NoLecturer /\ c.x \in Participants(row, Saw(p).cohort) \cap Saw(p).marked[c.l]
        /\ ~Locked(row)
        /\ Changes(impact) => Acknowledged(p, impact)
        /\ marked' = [marked EXCEPT ![c.l] = @ \ {c.x}]
        /\ lesson' = IF row.status = "held" THEN [lesson EXCEPT ![c.l].status = "scheduled"] ELSE lesson
        /\ End(p)
        /\ UNCHANGED <<cohort, written, revisions, lessonSteps, everLeft, approvedAs>>

-----------------------------------------------------------------------------
(* reports.service.                                                        *)
Write(p) ==
    LET c   == run[p].cmd
        row == Saw(p).lesson[c.l]
    IN  /\ Doing(p, "write") /\ Exists(p, c.l)
        /\ row.teacher # NoLecturer /\ c.x \in Participants(row, Saw(p).cohort)
        /\ \A r \in ReportsOn(Saw(p), c.l) : Saw(p).written[r].x # c.x
        /\ \E r \in ReportIds :
             /\ written[r] = NoReport
             /\ \A q \in ReportIds : written[q] = NoReport => r <= q
             /\ written' = [written EXCEPT ![r] =
                    [live |-> TRUE, l |-> c.l, x |-> c.x, teacher |-> row.teacher, status |-> c.status,
                     approval |-> c.status, version |-> 1, text |-> 1]]
        /\ End(p)
        /\ UNCHANGED <<lesson, marked, cohort, revisions, lessonSteps, everLeft, approvedAs>>

Report(p)     == Saw(p).written[run[p].cmd.r]
Stored(p)     == written[run[p].cmd.r]
ReportCas(p)  == Stored(p).live /\ Stored(p).approval = Report(p).approval
VersionCas(p) == ReportCas(p) /\ Stored(p).version = Report(p).version

SetReport(p, row) == written' = [written EXCEPT ![run[p].cmd.r] = row]

(* Mutant: updateContent lets an approved report be changed.               *)
RewriteAny(p) == TRUE

MayRewrite(p) == Report(p).approval # "approved"

(* updateContent.                                                          *)
Rewrite(p) ==
    /\ Doing(p, "rewrite") /\ Report(p).live /\ MayRewrite(p) /\ VersionCas(p)
    /\ SetReport(p, [Stored(p) EXCEPT !.text = run[p].cmd.text, !.version = @ + 1])
    /\ End(p)
    /\ UNCHANGED <<lesson, marked, cohort, revisions, lessonSteps, everLeft, approvedAs>>

(* removeDraft.                                                            *)
WithdrawDraft(p) ==
    LET row == Saw(p).lesson[Report(p).l] IN
    /\ Doing(p, "withdraw") /\ Report(p).live
    /\ Report(p).approval = "draft" /\ Report(p).status = "draft"
    /\ row.there /\ ~Locked(row) /\ Stored(p).live
    /\ SetReport(p, [Stored(p) EXCEPT !.live = FALSE])
    /\ End(p)
    /\ UNCHANGED <<lesson, marked, cohort, revisions, lessonSteps, everLeft, approvedAs>>

Submit(p) ==
    /\ Doing(p, "submit") /\ Report(p).live /\ Report(p).approval # "approved" /\ ReportCas(p)
    /\ SetReport(p, [Stored(p) EXCEPT !.status = "submitted", !.approval = "submitted"])
    /\ End(p)
    /\ UNCHANGED <<lesson, marked, cohort, revisions, lessonSteps, everLeft, approvedAs>>

(* approve: not of a lesson that did not take place; it may hold it.       *)
Approve(p) ==
    LET c   == run[p].cmd
        row == Saw(p).lesson[Report(p).l]
    IN  /\ Doing(p, "approve") /\ Report(p).live /\ Report(p).approval = "submitted"
        /\ row.there /\ row.status \notin {"canceled", "no_show"} /\ ReportCas(p)
        /\ SetReport(p, [Stored(p) EXCEPT !.approval = "approved"])
        /\ lesson' = [lesson EXCEPT ![c.l] =
                         IF FactsComplete(row, Saw(p).marked[c.l], Saw(p).cohort)
                           THEN HeldIfComplete(row, Saw(p).marked[c.l], Saw(p).cohort) ELSE @]
        /\ approvedAs' = [approvedAs EXCEPT ![c.r] = [version |-> Stored(p).version, text |-> Stored(p).text]]
        /\ End(p)
        /\ UNCHANGED <<marked, cohort, revisions, lessonSteps, everLeft>>

(* reject: from any approval; an approved one of a lesson in a payout      *)
(* stays, and what its end costs was acknowledged.                         *)
RejectReport(p) ==
    LET c      == run[p].cmd
        row    == Saw(p).lesson[Report(p).l]
        impact == Impact(Saw(p), c)
    IN  /\ Doing(p, "reject") /\ Report(p).live /\ ReportCas(p)
        /\ Report(p).approval = "approved" /\ row.there =>
             ~Locked(row) /\ (Changes(impact) => Acknowledged(p, impact))
        /\ SetReport(p, [Stored(p) EXCEPT !.approval = "rejected"])
        /\ End(p)
        /\ UNCHANGED <<lesson, marked, cohort, revisions, lessonSteps, everLeft, approvedAs>>

(* reviseApproved: the version shown, the row and its revision together.   *)
Revise(p) ==
    LET c == run[p].cmd IN
    /\ Doing(p, "revise") /\ Report(p).live /\ Report(p).approval = "approved"
    /\ run[p].saw.shown.version = Report(p).version /\ VersionCas(p)
    /\ SetReport(p, [Stored(p) EXCEPT !.text = c.text, !.version = @ + 1])
    /\ revisions' = revisions \cup {[r |-> c.r, version |-> Report(p).version, from |-> Report(p).text, to |-> c.text]}
    /\ End(p)
    /\ UNCHANGED <<lesson, marked, cohort, lessonSteps, everLeft, approvedAs>>

LessonsNext ==
    \E p \in Instances :
        \/ AskLesson(p) \/ ReadLesson(p) \/ RefuseLesson(p)
        \/ EditLesson(p) \/ RemoveLesson(p) \/ Assign(p) \/ Price(p) \/ LinkOrRelease(p)
        \/ LeaveOrRejoin(p) \/ Attend(p) \/ ClearMark(p)
        \/ Write(p) \/ Rewrite(p) \/ WithdrawDraft(p) \/ Submit(p)
        \/ Approve(p) \/ RejectReport(p) \/ Revise(p)

LessonsSpec == NothingRuns /\ LessonsInit /\ [][LessonsNext]_<<run, lessonVars>>

-----------------------------------------------------------------------------
(* assertDependentsCompatible, reports.create, attendance.upsert and       *)
(* remove: a report and an attendance row belong to a lesson that is       *)
(* there, to somebody who takes part in it (or has left the course in the  *)
(* meantime), a report to the lecturer who teaches it, and nobody has two  *)
(* reports on one lesson.  An attendance row may be left without lecturer, *)
(* by an edit of the series that is asked for at an unassigned lesson.     *)
DependentsBelong == \A l \in SeriesLessons : Belong(Now, everLeft, l)

(* Every lesson that is held has its participants for good.  A status that *)
(* spreads (HeldOnlyByFacts) leaves a lesson held with whoever is enrolled. *)
HeldWithParticipants(rows) == \A l \in SeriesLessons : rows[l].status = "held" => rows[l].roster # {}

(* update, remove, attendance.clear and reports.reject: whatever else runs *)
(* meanwhile, hours or pay of a lesson that was held go down (other than   *)
(* by a price set for it) only in a command whose client was shown what    *)
(* the lessons it changes are worth before it and after it.  This is so as *)
(* long as lessons are held with their participants: an enrollment that    *)
(* ends takes no lesson's lock and is shown to nobody.                     *)
NothingLostUnseen ==
    [][HeldWithParticipants(lesson) /\ HeldWithParticipants(lesson') =>
       \A l \in SeriesLessons :
          LET was == WorthIn(Now, l)
              is  == WorthIn(Now', l)
          IN  was[3] > is[3] \/ was[1] > is[1] =>
                \E p \in Instances :
                    LET c == run[p].cmd IN
                    /\ run'[p] = Idle /\ c.op \in Previewed \cup {"price"} /\ l \in LessonTargets(Now, c)
                    /\ c.op # "price" =>
                         run[p].saw.shown =
                             ImpactOn(LessonTargets(Now, c), FALSE,
                                 [t \in LessonTargets(Now, c) |-> WorthIn(Now, t)],
                                 [t \in LessonTargets(Now, c) |-> WorthIn(Now', t)])
      ]_lessonVars

(* updateContent, reject, approve, reviseApproved: what an approved report *)
(* says is what was approved, or has come from it by the revisions on      *)
(* record, each from the text the one before it left.                      *)
ApprovedTextIsAccounted ==
    \A r \in {q \in ReportIds : written[q].live /\ written[q].approval = "approved"} :
        LET since  == {v \in revisions : v.r = r /\ v.version >= approvedAs[r].version}
            textAt == [n \in approvedAs[r].version .. written[r].version |->
                         IF n = approvedAs[r].version THEN {approvedAs[r].text}
                         ELSE {v.to : v \in {u \in since : u.version = n - 1}}]
        IN  /\ Cardinality(since) = written[r].version - approvedAs[r].version
            /\ textAt[written[r].version] = {written[r].text}
            /\ \A v \in since : textAt[v.version] = {v.from}

(* session-temporal-transition.policy.ts:84: held follows from the end of  *)
(* the lesson and the attendance of everybody, and from nothing else.      *)
HeldOnlyByFacts ==
    [][\A l \in SeriesLessons :
          lesson[l].status # "held" /\ lesson'[l].status = "held" =>
              /\ lesson'[l].past /\ lesson'[l].mark # "none"
              /\ lesson'[l].roster # {} /\ lesson'[l].roster \subseteq marked'[l]]_lessonVars
=============================================================================
