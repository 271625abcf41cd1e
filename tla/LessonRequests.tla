--------------------------- MODULE LessonRequests ---------------------------
(***************************************************************************)
(* Two kinds of schedule requests that are not in Timetable: the request   *)
(* of a lecturer to correct his own attendance at a lesson that is over,   *)
(* and the bulk request for several new lessons, stored under a key of the *)
(* client's so that it can be sent again (schedule-requests.service and    *)
(* its store).                                                             *)
(***************************************************************************)
EXTENDS Lessons, Sequences

CONSTANTS RequestIds, BatchKeys,
          Bodies,          \* the elements of bulk requests
          NoKey            \* SQL NULL in batch_key

(* CreateScheduleRequestBulkDto: the elements, at least two of them.       *)
ASSUME RequestsAssumption ==
    /\ RequestIds \subseteq Nat /\ IsFiniteSet(RequestIds)
    /\ \A body \in Bodies : Len(body) \in Nat \ {0}
    /\ NoKey \notin BatchKeys

VARIABLES asked,           \* schedule_requests
          acked            \* history: the bulk requests that were answered with their rows

requestVars == <<asked, acked>>

NoRequest == [state |-> "absent", by |-> NoLecturer, l |-> 0, before |-> "none", wanted |-> "none",
              key |-> NoKey, print |-> <<>>, index |-> 0]

LessonRequestsInit ==
    /\ asked = [q \in RequestIds |-> NoRequest]
    /\ acked = {}

(* The ids of the serial column that come next.                            *)
NextIds(n) ==
    LET unused == {q \in RequestIds : asked[q].state = "absent"}
    IN  {q \in unused : Cardinality({x \in unused : x < q}) < n}

Store(rows) == asked' = [q \in RequestIds |-> IF q \in DOMAIN rows THEN rows[q] ELSE asked[q]]

PendingFor(by, l) ==
    {q \in RequestIds : asked[q].state = "pending" /\ asked[q].by = by /\ asked[q].l = l}

(* createInstructorAttendanceCorrection, under the lock of the lesson.     *)
RequestCorrection(p) ==
    LET c   == run[p].cmd
        row == Saw(p).lesson[c.l]
    IN  /\ Doing(p, "correct") /\ Exists(p, c.l)
        /\ row.teacher = c.by /\ row.past /\ row.mark # c.mark
        /\ PendingFor(c.by, c.l) = {}
        /\ NextIds(1) # {}
        /\ Store([q \in NextIds(1) |->
                    [NoRequest EXCEPT !.state = "pending", !.by = c.by, !.l = c.l,
                                      !.before = row.mark, !.wanted = c.mark]])
        /\ End(p)
        /\ UNCHANGED <<lessonVars, acked>>

(* The manager looks at a request and at what its approval would change.   *)
AskApproval(p) ==
    /\ lessonSteps < MaxLessonSteps
    /\ \E q \in RequestIds :
          LET c == [op |-> "setMark", l |-> asked[q].l, mark |-> asked[q].wanted, q |-> q] IN
          /\ asked[q].state = "pending" /\ asked[q].key = NoKey
          /\ Begin(p, c, {}, [shown |-> Impact(Now, c)])
    /\ lessonSteps' = lessonSteps + 1
    /\ UNCHANGED <<lessonRows, everLeft, approvedAs, requestVars>>

(* Mutant: setInstructorAttendance is not told what the request saw.       *)
AsItIs(p, q) == TRUE

AsRequested(p, q) == Saw(p).lesson[asked[q].l].mark = asked[q].before

(* approveInstructorAttendanceCorrection: the request and the lesson.      *)
ApproveCorrection(p) ==
    LET q == run[p].cmd.q IN
    /\ "q" \in DOMAIN run[p].cmd
    /\ asked[q].state = "pending"
    /\ Update(p)
    /\ AsRequested(p, q)
    /\ asked' = [asked EXCEPT ![q].state = "approved"]
    /\ UNCHANGED acked

(* reject and withdraw: SELECT ... FOR UPDATE, and the row.                *)
Decline(p) ==
    /\ run[p].cmd.op = "none" /\ lessonSteps < MaxLessonSteps
    /\ \E q \in RequestIds, state \in {"rejected", "withdrawn"} :
          /\ asked[q].state = "pending"
          /\ Free(p, {<<"request", q>>})
          /\ asked' = [asked EXCEPT ![q].state = state]
    /\ lessonSteps' = lessonSteps + 1
    /\ UNCHANGED <<run, lessonRows, everLeft, approvedAs, acked>>

-----------------------------------------------------------------------------
(* lockBatch and findBatch: withdrawn rows count.                          *)
BatchOf(by, key) == {q \in RequestIds : asked[q].by = by /\ asked[q].key = key}

AskBatch(p) ==
    /\ lessonSteps < MaxLessonSteps
    /\ \E by \in Lecturers, key \in BatchKeys, body \in Bodies :
          Begin(p, [op |-> "bulk", by |-> by, key |-> key, body |-> body], {<<"batch", by, key>>},
                [existing |-> BatchOf(by, key)])
    /\ lessonSteps' = lessonSteps + 1
    /\ UNCHANGED <<lessonRows, everLeft, approvedAs, requestVars>>

(* The rows of the batch are the ones of this body, at their places.       *)
(* Mutant: a key that was used is enough.                                  *)
UsedKey(p) == run[p].saw.existing # {}

Replayed(p) ==
    LET c    == run[p].cmd
        rows == run[p].saw.existing
    IN  /\ Cardinality(rows) = Len(c.body)
        /\ \A q \in rows : asked[q].print = c.body
        /\ {asked[q].index : q \in rows} = 0 .. Len(c.body) - 1

Answered(c) == acked \cup {[by |-> c.by, key |-> c.key, body |-> c.body]}

ReplayBatch(p) ==
    /\ Running(p, "bulk") /\ run[p].saw.existing # {}
    /\ Replayed(p)
    /\ acked' = Answered(run[p].cmd)
    /\ End(p)
    /\ UNCHANGED <<lessonVars, asked>>

(* create for every element, in one transaction; its answer may be lost.   *)
StoreBatch(p) ==
    LET c   == run[p].cmd
        ids == NextIds(Len(c.body))
    IN  /\ Running(p, "bulk") /\ run[p].saw.existing = {}
        /\ Cardinality(ids) = Len(c.body)
        /\ Store([q \in ids |-> [NoRequest EXCEPT !.state = "pending", !.by = c.by, !.key = c.key, !.print = c.body,
                                                  !.index = Cardinality({x \in ids : x < q})]])
        /\ acked' \in {acked, Answered(c)}
        /\ End(p)
        /\ UNCHANGED lessonVars

LessonRequestsNext ==
    \/ \E p \in Instances :
          \/ RequestCorrection(p) \/ AskApproval(p) \/ ApproveCorrection(p) \/ Decline(p)
          \/ AskBatch(p) \/ ReplayBatch(p) \/ StoreBatch(p)
    \/ LessonsNext /\ UNCHANGED requestVars

-----------------------------------------------------------------------------
(* approveInstructorAttendanceCorrection: a correction is approved         *)
(* together with the change it asked for, and from the attendance its      *)
(* lecturer saw, whatever was recorded, moved or cleared in between; it is *)
(* decided once, and never two wait for one lesson.                        *)
CorrectionsChangeWhatWasSeen ==
    [][/\ \A q \in RequestIds : asked[q].state # "absent" /\ asked'[q] # asked[q] =>
            /\ asked[q].state = "pending"
            /\ asked'[q].state = "approved" =>
                 /\ lesson[asked[q].l].mark = asked[q].before
                 /\ lesson'[asked[q].l].mark = asked[q].wanted
       /\ \A q, r \in RequestIds :
            q # r /\ asked'[q].state = "pending" /\ asked'[r].state = "pending" /\ asked'[q].key = NoKey
                => asked'[q].by # asked'[r].by \/ asked'[q].l # asked'[r].l]_<<lessonVars, requestVars>>

(* createBulk: however often a bulk request is sent again, by whichever    *)
(* instance and after whatever was lost or withdrawn, an answer with rows  *)
(* means that exactly its elements are stored under its key, once each.    *)
AcknowledgedBatchIsStored ==
    \A a \in acked :
        /\ Cardinality(BatchOf(a.by, a.key)) = Len(a.body)
        /\ {<<asked[q].print, asked[q].index>> : q \in BatchOf(a.by, a.key)}
               = {<<a.body, i>> : i \in 0 .. Len(a.body) - 1}
=============================================================================
