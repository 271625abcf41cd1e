----------------------------- MODULE Timetable -----------------------------
(***************************************************************************)
(* The timetable: sessions are created, alone or as a series, changed,     *)
(* reassigned and deleted, instructors block their time, and instructors   *)
(* request what managers approve (schedule.service.ts,                     *)
(* availability.service.ts, schedule-requests.service.ts).                 *)
(*                                                                         *)
(* Time is a line of slots: a session at 2 of length 2 occupies 2 and 3.   *)
(* The instructor stands for the three resources that are locked and       *)
(* compared alike (instructor, room, student).  A command holds its locks  *)
(* from the read that validates it (Check) to Commit; as nobody else needs *)
(* them in between, taking the keys of one lockTargets call and reading    *)
(* the refreshed mirror is one step.                                       *)
(***************************************************************************)
EXTENDS Integers, FiniteSets, TLC

CONSTANTS Instances, Sessions, Serieses, Requests, Instructors, Courses,
          Slots,
          CourseInstructor,  \* courses.instructor_id
          Commands,          \* the commands managers send
          Asks,              \* the commands instructors ask for in a request
          NoOne, NoSeries, NoRequest, NoCourse,
          MaxCommits         \* bound: commands that commit

Operations == {"create", "update", "assign", "remove", "block", "unblock"}
Statuses   == {"scheduled", "held", "canceled", "no_show", "makeup"}  \* SESSION_STATUSES

(* A field of a request, or what it is if the request does not name it.    *)
Named(patch, field, default) == IF field \in DOMAIN patch THEN patch[field] ELSE default

ASSUME TimetableConstants ==
    /\ Sessions \subseteq Nat /\ IsFiniteSet(Sessions)
    /\ Slots \subseteq Nat
    /\ CourseInstructor \in [Courses -> Instructors \cup {NoOne}]
    /\ NoOne \notin Instructors /\ NoSeries \notin Serieses /\ NoRequest \notin Requests
    /\ \A c \in Commands \cup Asks :
          /\ "op" \in DOMAIN c /\ c.op \in Operations
          /\ c.op \in {"update", "assign", "remove"} => "id" \in DOMAIN c /\ c.id \in Sessions
          /\ c.op = "update" => "patch" \in DOMAIN c /\ Named(c.patch, "status", "scheduled") \in Statuses

VARIABLES session,     \* class_sessions
          blocked,     \* availability_blocks that forbid lessons: <<instructor, slot>>
          request,     \* schedule_requests
          run,         \* the command each instance runs
          secured,     \* history: what a session was compared with, under its instructor's lock
          commits      \* counts up to MaxCommits

data == <<session, blocked, request, secured, commits>>
vars == <<data, run>>

NoRow == [status |-> "absent", at |-> 0, len |-> 0, who |-> NoOne, course |-> NoCourse,
          series |-> NoSeries]

NoCommand == [op |-> "none"]
Empty     == [s \in {} |-> NoRow]
Idle      == [step |-> "idle", cmd |-> NoCommand, req |-> NoRequest, held |-> {}, want |-> {},
              plan |-> Empty]

Init ==
    /\ session = [s \in Sessions |-> NoRow]
    /\ blocked = {}
    /\ request = [r \in Requests |-> [state |-> "absent", cmd |-> NoCommand, ids |-> {}]]
    /\ run = [p \in Instances |-> Idle]
    /\ secured = [s \in Sessions |-> {}]
    /\ commits = 0

-----------------------------------------------------------------------------
(* Rows and what they occupy.                                              *)
Live(s) == session[s].status \notin {"absent", "deleted"}

Occupied(row) == row.at .. row.at + row.len - 1

(* Called off: the time is free again.                                     *)
Off == {"canceled", "no_show"}

Busy(row) == row.status \in Statuses \ Off /\ row.who # NoOne

(* detectConflicts: the sessions of the same instructor at the same time,  *)
(* but for the ones the command moves, and the instructor's blocks.        *)
(* Mutant: the siblings in the series are left out, moved or not.          *)
ComparedOutsideSeries(plan) ==
    {t \in Sessions \ DOMAIN plan :
        \A s \in DOMAIN plan : plan[s].series = NoSeries \/ session[t].series # plan[s].series}

Compared(plan) == Sessions \ DOMAIN plan

DoubleBooked(row, others) ==
    \E t \in others : Busy(session[t]) /\ session[t].who = row.who
                      /\ Occupied(session[t]) \cap Occupied(row) # {}

Unavailable(row) == \E t \in Occupied(row) : <<row.who, t>> \in blocked

Conflicts(plan) ==
    \E s \in DOMAIN plan : plan[s].who # NoOne
        /\ (DoubleBooked(plan[s], Compared(plan)) \/ Unavailable(plan[s]))

(* selectSeriesScope: the order is (date and time, id).                    *)
Later(t, s) == session[t].at > session[s].at \/ (session[t].at = session[s].at /\ t > s)

Companions(c) ==
    {t \in Sessions \ {c.id} :
        /\ c.scope # "this"
        /\ session[c.id].series # NoSeries
        /\ Live(t) /\ session[t].series = session[c.id].series
        /\ c.scope = "all" \/ Later(t, c.id)}

Targets(c) == {c.id} \cup Companions(c)

-----------------------------------------------------------------------------
(* Locks: kind and id.  lockTargets takes a set of them.                   *)
LockOf(who)      == {<<"instructor", i>> : i \in {who} \ {NoOne}}
SessionLocks(ss) == {<<"session", s>> : s \in ss}

Free(p, keys) == \A q \in Instances \ {p} : run[q].held \cap keys = {}

(* The keys of the (second) lockTargets call, from the rows as they are    *)
(* before it: the instructors of the targets and the one the request       *)
(* names.                                                                  *)
KeysOf(c) ==
    CASE c.op = "create" -> LockOf(c.who)
      [] c.op = "update" -> SessionLocks(Targets(c)) \cup LockOf(Named(c.patch, "who", NoOne))
                                \cup UNION {LockOf(session[s].who) : s \in Targets(c)}
      [] c.op = "assign" -> SessionLocks({c.id}) \cup LockOf(session[c.id].who) \cup LockOf(c.who)
      [] c.op = "remove" -> SessionLocks(Targets(c))
      [] c.op \in {"block", "unblock"} -> LockOf(c.who)

-----------------------------------------------------------------------------
(* What a command makes of the rows it reads.                              *)

(* mergeFields: a request that names a course and no instructor takes the  *)
(* instructor of the course.                                               *)
Merged(row, patch) ==
    [row EXCEPT !.at = Named(patch, "at", @), !.len = Named(patch, "len", @),
                !.status = Named(patch, "status", @), !.course = Named(patch, "course", @),
                !.who = IF "who" \in DOMAIN patch THEN patch.who
                        ELSE IF "course" \in DOMAIN patch THEN CourseInstructor[patch.course]
                        ELSE @]

(* A companion moves by as much as the primary, and takes its other fields.*)
Follows(row, primary, cur) ==
    [row EXCEPT !.at = @ + primary.at - cur.at, !.len = primary.len, !.status = primary.status,
                !.course = primary.course, !.who = primary.who]

Shifted(c) ==
    LET cur     == session[c.id]
        primary == Merged(cur, c.patch)
    IN  [s \in Targets(c) |-> IF s = c.id THEN primary ELSE Follows(session[s], primary, cur)]

Moves(s, row) == row.at # session[s].at \/ row.len # session[s].len

(* applyTemporalPolicy: a session that was called off or is made up for    *)
(* does not move, nor does any in a request that sets the status; one that *)
(* moves is scheduled again.                                               *)
MayMove(c, rows) ==
    \A s \in DOMAIN rows : Moves(s, rows[s]) =>
        session[s].status \notin Off \cup {"makeup"} /\ "status" \notin DOMAIN c.patch

Rescheduled(rows) ==
    [s \in DOMAIN rows |-> IF Moves(s, rows[s]) THEN [rows[s] EXCEPT !.status = "scheduled"]
                           ELSE rows[s]]

(* The ids of new rows: unused ones, in the order of the dates.            *)
Unused == {s \in Sessions : session[s].status = "absent"
                            /\ \A q \in Instances : s \notin DOMAIN run[q].plan}

NewIds(n) == {s \in Unused : Cardinality({t \in Unused : t < s}) < n}

SeriesUsed == {session[s].series : s \in {t \in Sessions : session[t].status # "absent"}}

SeriesOf(c) == IF c.series = "new" THEN CHOOSE k \in Serieses : k \notin SeriesUsed ELSE c.series

Created(c) ==
    LET ids   == NewIds(Cardinality(c.ats))
        dates == CHOOSE f \in [ids -> c.ats] : \A s, t \in ids : s < t => f[s] < f[t]
    IN  [s \in ids |-> [status |-> "scheduled", at |-> dates[s], len |-> c.len, who |-> c.who,
                        course |-> c.course, series |-> SeriesOf(c)]]

Changed(c) == Rescheduled(Shifted(c))

Reassigned(c) == [s \in {c.id} |-> [session[s] EXCEPT !.who = c.who]]

Removed(c) == [s \in Targets(c) |-> [session[s] EXCEPT !.status = "deleted"]]

PlanOf(c) ==
    CASE c.op = "create" -> Created(c)
      [] c.op = "update" -> Changed(c)
      [] c.op = "assign" -> Reassigned(c)
      [] c.op = "remove" -> Removed(c)
      [] c.op \in {"block", "unblock"} -> Empty

(* Block: any part of a session that lies in the slot.                     *)
(* Mutant: only the day a session starts is looked at.                     *)
HitByStart(row, slot) == row.at = slot

HitBy(row, slot) == slot \in Occupied(row)

(* The primary of an update that is called off frees its time: no conflict *)
(* is an obstacle then, to the companions neither.                         *)
FreesTime(c, plan) == c.op = "update" /\ plan[c.id].status \in Off

(* expectedTargetIds: an approved request acts on the sessions it named.   *)
(* Mutant: the check is dropped.                                           *)
AnyTargets(c, r) == TRUE

SameTargets(c, r) == r # NoRequest => Targets(c) = request[r].ids

(* A creation in a series needs a session that is left of it.              *)
MayCreate(c, plan) ==
    /\ Cardinality(DOMAIN plan) = Cardinality(c.ats)
    /\ c.series \in Serieses => \E s \in Sessions : Live(s) /\ session[s].series = c.series
    /\ ~Conflicts(plan)

MayChange(c, r, plan) ==
    /\ SameTargets(c, r)
    /\ MayMove(c, Shifted(c))
    /\ FreesTime(c, plan) \/ ~Conflicts(plan)

MayReassign(c, plan) == session[c.id].who # c.who /\ ~Conflicts(plan)

MayBlock(c) ==
    \A s \in Sessions :
       ~(Busy(session[s]) /\ session[s].who = c.who /\ HitBy(session[s], c.slot))

Accepts(c, r, plan) ==
    CASE c.op = "create"  -> MayCreate(c, plan)
      [] c.op = "update"  -> MayChange(c, r, plan)
      [] c.op = "assign"  -> MayReassign(c, plan)
      [] c.op = "remove"  -> SameTargets(c, r)
      [] c.op = "block"   -> MayBlock(c)
      [] c.op = "unblock" -> TRUE

(* Bounds: the slots and the commits, those about to come included.        *)
InBounds(plan) ==
    /\ commits + Cardinality({q \in Instances : run[q].step = "commit"}) < MaxCommits
    /\ \A s \in DOMAIN plan : plan[s].status = "scheduled" => Occupied(plan[s]) \subseteq Slots

(* What is named exists, and a block not yet; bounds: the ids and series   *)
(* there are.                                                              *)
Applicable(c) ==
    CASE c.op = "create" ->
            /\ Cardinality(Unused) >= Cardinality(c.ats)
            /\ c.series = "new" => Serieses \ SeriesUsed # {}
      [] c.op \in {"update", "remove", "assign"} -> Live(c.id)
      [] c.op = "block"   -> <<c.who, c.slot>> \notin blocked
      [] c.op = "unblock" -> <<c.who, c.slot>> \in blocked

-----------------------------------------------------------------------------
(* A command starts: a session with a series has the series locked first,  *)
(* and the keys of the second call are read under it.                      *)
SeriesFirst(c) == c.op \in {"update", "remove"} /\ session[c.id].series # NoSeries

Begin(p, c, r) ==
    /\ run[p].step = "idle"
    /\ Applicable(c)
    /\ run' = [run EXCEPT ![p] = [Idle EXCEPT
           !.cmd = c, !.req = r,
           !.step = IF SeriesFirst(c) THEN "series" ELSE "keys",
           !.want = IF SeriesFirst(c) THEN {<<"series", session[c.id].series>>} ELSE KeysOf(c)]]
    /\ UNCHANGED data

LockSeries(p) ==
    /\ run[p].step = "series"
    /\ Free(p, run[p].want)
    /\ Live(run[p].cmd.id)
    /\ run' = [run EXCEPT ![p] = [@ EXCEPT
           !.step = "keys", !.held = run[p].want, !.want = KeysOf(run[p].cmd)]]
    /\ UNCHANGED data

(* The last locks, the refresh and the validation.                         *)
Check(p) ==
    LET c    == run[p].cmd
        plan == PlanOf(c)
    IN  /\ run[p].step = "keys"
        /\ Free(p, run[p].want)
        /\ Applicable(c)
        /\ Accepts(c, run[p].req, plan)
        /\ InBounds(plan)
        /\ run' = [run EXCEPT ![p] = [@ EXCEPT
               !.step = "commit", !.held = run[p].held \cup run[p].want, !.want = {}, !.plan = plan]]
        /\ UNCHANGED data

(* A refusal, an error, a crash: the transaction rolls back, and an        *)
(* approval leaves its request pending.                                    *)
Abort(p) ==
    /\ run[p].step # "idle"
    /\ run' = [run EXCEPT ![p] = Idle]
    /\ UNCHANGED data

(* What the rows written were compared with, those whose instructor's lock *)
(* the command holds.                                                      *)
SecuredBy(p, s) ==
    LET plan == run[p].plan
    IN  IF Busy(plan[s]) /\ LockOf(plan[s].who) \subseteq run[p].held /\ ~FreesTime(run[p].cmd, plan)
        THEN {s} \cup (Sessions \ DOMAIN plan) ELSE {}

Commit(p) ==
    LET c == run[p].cmd
        r == run[p].req
        plan == run[p].plan
    IN  /\ run[p].step = "commit"
        /\ session' = [s \in Sessions |-> IF s \in DOMAIN plan THEN plan[s] ELSE session[s]]
        /\ secured' = [s \in Sessions |-> IF s \in DOMAIN plan THEN SecuredBy(p, s) ELSE secured[s]]
        /\ blocked' = CASE c.op = "block"   -> blocked \cup {<<c.who, c.slot>>}
                        [] c.op = "unblock" -> blocked \ {<<c.who, c.slot>>}
                        [] OTHER -> blocked
        /\ request' = IF r = NoRequest THEN request ELSE [request EXCEPT ![r].state = "approved"]
        /\ commits' = commits + 1
        /\ run' = [run EXCEPT ![p] = Idle]

-----------------------------------------------------------------------------
(* Requests.  A decision reads the row FOR UPDATE in its transaction: one  *)
(* that is being approved is locked until the approval ends.               *)
(* Mutant: the row is read without FOR UPDATE.                             *)
PendingOnly(r) == request[r].state = "pending"

MustPending(r) == request[r].state = "pending" /\ \A p \in Instances : run[p].req # r

(* A request to change a session states every field, as they are when it   *)
(* is made: unnamed ones keep that value at the approval.                  *)
FieldsOf(row) ==
    [f \in {"at", "len", "course"} \cup (IF row.who = NoOne THEN {} ELSE {"who"}) |-> row[f]]

Spread(base, patch) == [f \in DOMAIN base \cup DOMAIN patch |-> Named(patch, f, base[f])]

Stated(c) ==
    IF c.op = "update" THEN [c EXCEPT !.patch = Spread(FieldsOf(session[c.id]), c.patch)] ELSE c

Requestable(c) == c.op # "assign" /\ (c.op = "update" => "status" \notin DOMAIN c.patch)
                                  /\ (c.op = "create" => c.series = NoSeries)

Submit(r, c) ==
    /\ request[r].state = "absent"
    /\ Requestable(c) /\ Applicable(c)
    /\ request' = [request EXCEPT ![r] =
           [state |-> "pending", cmd |-> Stated(c),
            ids |-> IF c.op \in {"update", "remove"} THEN Targets(c) ELSE {}]]
    /\ UNCHANGED <<session, blocked, secured, commits, run>>

(* update: the kind, the target and the ids stay; the instructor becomes   *)
(* the one of the course if there is none.                                 *)
Amendable(old, new) ==
    /\ old.op = new.op /\ old.op \in {"create", "update", "block"}
    /\ old.op = "update" => old.id = new.id
    /\ old.op = "block" => old.who = new.who

Amended(old, new) ==
    IF old.op # "update" THEN new
    ELSE LET patch == Spread(old.patch, new.patch)
         IN  [old EXCEPT !.scope = new.scope,
                         !.patch = Spread([who |-> CourseInstructor[patch.course]], patch)]

Amend(r, c) ==
    /\ MustPending(r)
    /\ Requestable(c) /\ Amendable(request[r].cmd, c)
    /\ request' = [request EXCEPT ![r].cmd = Amended(@, c)]
    /\ UNCHANGED <<session, blocked, secured, commits, run>>

Decide(r, state) ==
    /\ MustPending(r)
    /\ request' = [request EXCEPT ![r].state = state]
    /\ UNCHANGED <<session, blocked, secured, commits, run>>

Reject(r) == Decide(r, "rejected")
Withdraw(r) == Decide(r, "withdrawn")

Approve(p, r) == MustPending(r) /\ Begin(p, request[r].cmd, r)

Next ==
    \/ \E p \in Instances :
          \/ LockSeries(p) \/ Check(p) \/ Commit(p) \/ Abort(p)
          \/ \E c \in Commands : Begin(p, c, NoRequest)
          \/ \E r \in Requests : Approve(p, r)
    \/ \E r \in Requests :
          \/ Reject(r) \/ Withdraw(r)
          \/ \E c \in Asks : Submit(r, c) \/ Amend(r, c)

Spec == Init /\ [][Next]_vars

-----------------------------------------------------------------------------
Overlap(s, t) ==
    /\ s # t /\ Busy(session[s]) /\ Busy(session[t])
    /\ session[s].who = session[t].who
    /\ Occupied(session[s]) \cap Occupied(session[t]) # {}

(* calendar-unit-of-work.service.ts:3-4: requests of different instances   *)
(* cannot book the same instructor at the same time.                       *)
NoDoubleBooking == \A s, t \in Sessions : ~Overlap(s, t)

(* detectConflicts under the instructor's lock (create, createSeries,      *)
(* update, updateInstructorAssignment): two sessions that were both placed *)
(* by a command holding that lock, one of them after comparing it with the *)
(* other, do not overlap, in whatever order the commands read and commit.  *)
SecuredNeverOverlap ==
    \A s, t \in Sessions :
        Overlap(s, t) => \/ secured[s] = {} \/ secured[t] = {}
                         \/ t \notin secured[s] /\ s \notin secured[t]

(* availability.upsert and detectConflicts exclude each other through the  *)
(* instructor's lock: no session placed under it lies in blocked time.     *)
SecuredNotBlocked ==
    \A s \in Sessions : Busy(session[s]) /\ secured[s] # {} => ~Unavailable(session[s])

(* mustPending: a decided request never changes, whoever decides at the    *)
(* same time.                                                              *)
DecidedOnce ==
    [][\A r \in Requests :
          request[r].state \in {"approved", "rejected", "withdrawn"} => request'[r] = request[r]]_vars

(* expectedTargetIds: an approval changes no session but those its request *)
(* named when it was made, and a deletion all of them, whatever happened   *)
(* to the series in the meantime.                                          *)
Touched == {s \in Sessions : session'[s] # session[s]}

RequestedScope ==
    [][\A r \in Requests :
          request[r].state = "pending" /\ request'[r].state = "approved" =>
              /\ request[r].cmd.op \in {"update", "remove"} => Touched \subseteq request[r].ids
              /\ request[r].cmd.op = "remove" => request[r].ids \subseteq Touched]_vars
=============================================================================
