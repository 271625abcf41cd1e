------------------------------ MODULE Studies ------------------------------
(***************************************************************************)
(* What can be studied and who studies it: subjects, courses, roadmaps and *)
(* enrollments (subjects.service, courses.service, roadmaps.service,       *)
(* enrollments.service, and what students.remove does to enrollments).     *)
(*                                                                         *)
(* Prices, dates and names are left out; a pupil is "visible" when his     *)
(* status lets the schedule show him.  The positions of a roadmap's        *)
(* courses count from 1 here (sortOrder counts from 0); 0 is no link.      *)
(***************************************************************************)
EXTENDS UnitOfWork

CONSTANTS Pupils, StudyCourses, Subjects, Roadmaps,
          NoRoadmap, NoForm,
          StudySeeds,      \* the rows there are before the first command
          StudyCommands,
          MaxStudies       \* bound: commands that begin

VARIABLES pupil,           \* students: "visible", "hidden" or "removed"
          subject,         \* subjects: [status, name, auto]; auto is history: made by
                           \*   resolveSubjectCourse, and still under the name it was made for
          course,          \* courses: [status, subject]
          roadmap,         \* roadmaps and roadmap_courses: [status, open, order]
          enrolled,        \* enrollments: [status, roadmap, form] of a pupil and a course
          studies,         \* counts up to MaxStudies
          revived,         \* history: enrollments an edit made active again,
          resumed          \*   and those the roster of a session did

studyRows == <<pupil, subject, course, roadmap, enrolled>>
studyVars == <<studyRows, studies, revived, resumed>>

NotEnrolled == [status |-> "none", roadmap |-> NoRoadmap, form |-> NoForm]

EnrollmentStatuses == {"active", "paused", "completed", "canceled"}

(* What a client may send: validated before a command begins.              *)
ASSUME StudyCommandsAssumption ==
    /\ IsFiniteSet(StudyCourses) /\ NoRoadmap \notin Roadmaps
    /\ \A c \in StudyCommands :
         /\ c.op \in {"enroll", "ensureActive", "editEnrollment", "editStudent", "removeStudent",
                      "createCourse", "resolve", "moveCourse", "removeCourse", "removeSubject",
                      "renameSubject", "createRoadmap", "openRoadmap", "removeRoadmap", "linkCourse", "unlinkCourse", "reorder"}
         /\ c.op \in {"enroll", "editEnrollment", "editStudent", "removeStudent"} => c.s \in Pupils
         /\ c.op \in {"enroll", "ensureActive", "editEnrollment", "createCourse", "moveCourse", "removeCourse",
                      "linkCourse", "unlinkCourse"} => c.c \in StudyCourses
         /\ c.op = "enroll" => c.r \in Roadmaps \cup {NoRoadmap}
         /\ c.op \in {"createRoadmap", "openRoadmap", "removeRoadmap", "linkCourse", "unlinkCourse", "reorder"} =>
              c.r \in Roadmaps
         /\ c.op \in {"createCourse", "moveCourse", "removeSubject", "renameSubject"} => c.subject \in Subjects
         /\ c.op = "ensureActive" => c.pupils \in SUBSET Pupils
         /\ c.op = "editEnrollment" => c.status \in EnrollmentStatuses
         /\ c.op = "editStudent" => c.status \in {"visible", "hidden"}
         /\ c.op = "openRoadmap" => c.open \in BOOLEAN
         /\ c.op \in {"createRoadmap", "reorder"} => c.order \in [StudyCourses -> Nat]

StudiesInit ==
    /\ studies = 0 /\ revived = {} /\ resumed = {}
    /\ \E seed \in StudySeeds :
         /\ pupil = seed.pupil /\ subject = seed.subject /\ course = seed.course
         /\ roadmap = seed.roadmap /\ enrolled = seed.enrolled

StudiesSnapshot == [pupil |-> pupil, subject |-> subject, course |-> course,
                    roadmap |-> roadmap, enrolled |-> enrolled]

-----------------------------------------------------------------------------
Lock(kind, ids) == {<<kind, x>> : x \in ids}

EnrollKeys(s, c, r) ==
    Lock("student", {s}) \cup Lock("course", {c}) \cup Lock("roadmap", {r} \ {NoRoadmap})

StudyKeys(c) ==
    CASE c.op = "enroll"         -> EnrollKeys(c.s, c.c, c.r)
      [] c.op = "ensureActive"   -> Lock("course", {c.c}) \cup Lock("student", c.pupils)
      [] c.op = "editEnrollment" -> {<<"enrollment", c.s, c.c>>}
      [] c.op \in {"editStudent", "removeStudent"} -> Lock("student", {c.s})
      [] c.op = "removeCourse"   -> Lock("course", {c.c})
      [] c.op = "createCourse"   -> Lock("subject", {c.subject})
      [] c.op = "moveCourse"     -> Lock("course", {c.c}) \cup Lock("subject", {c.subject})
      [] c.op = "resolve"        -> {<<"subjectName", c.name>>}
      [] c.op \in {"removeSubject", "renameSubject"} -> Lock("subject", {c.subject})
      [] c.op = "createRoadmap"  -> {}
      [] OTHER                   -> Lock("roadmap", {c.r})

(* Mutant: a link without the lock of its roadmap.                         *)
LinkedWithoutRoadmap(c) ==
    {k \in StudyKeys(c) : ~(c.op \in {"linkCourse", "unlinkCourse"} /\ k[1] = "roadmap")}

KeysOfStudyCommand(c) == StudyKeys(c)

BeginStudyCommand(p) ==
    /\ studies < MaxStudies
    /\ \E c \in StudyCommands : Begin(p, c, KeysOfStudyCommand(c), StudiesSnapshot)
    /\ studies' = studies + 1
    /\ UNCHANGED <<studyRows, revived, resumed>>

RefuseStudyCommand(p) == Abort(p) /\ UNCHANGED studyVars

Read(p) == run[p].saw

-----------------------------------------------------------------------------
(* enrollments.create: the pupil is shown, the course exists, the roadmap  *)
(* is open and holds the course, and there is no enrollment yet (also      *)
(* uq_enrollments_student_course).                                         *)
CanStudy(rows, s, c) == rows.pupil[s] = "visible" /\ rows.course[c].status = "active"

CanEnroll(rows, s, c, r) ==
    /\ CanStudy(rows, s, c)
    /\ rows.enrolled[s][c] = NotEnrolled
    /\ r # NoRoadmap => /\ rows.roadmap[r].status = "active" /\ rows.roadmap[r].open
                        /\ rows.roadmap[r].order[c] > 0

EnrollAs(rows, s, c, r, f) ==
    /\ CanEnroll(rows, s, c, r)
    /\ enrolled[s][c] = NotEnrolled
    /\ enrolled' = [enrolled EXCEPT ![s][c] = [status |-> "active", roadmap |-> r, form |-> f]]

Enroll(p) ==
    LET c == run[p].cmd IN
    /\ Running(p, "enroll")
    /\ EnrollAs(Read(p), c.s, c.c, c.r, NoForm)
    /\ End(p)
    /\ UNCHANGED <<pupil, subject, course, roadmap, studies, revived, resumed>>

(* ensureActiveForCourse, for the roster of a new session.                 *)
EnsureActive(p) ==
    LET c == run[p].cmd IN
    /\ Running(p, "ensureActive")
    /\ \A s \in c.pupils :
         /\ CanStudy(Read(p), s, c.c)
         /\ Read(p).enrolled[s][c.c] = NotEnrolled => enrolled[s][c.c] = NotEnrolled
    /\ enrolled' = [s \in Pupils |->
                      IF s \in c.pupils /\ Read(p).enrolled[s][c.c].status # "active"
                        THEN [enrolled[s] EXCEPT ![c.c].status = "active"] ELSE enrolled[s]]
    /\ resumed' = resumed \cup {<<s, c.c>> : s \in {t \in c.pupils :
                                 Read(p).enrolled[t][c.c].status \notin {"none", "active"}}}
    /\ End(p)
    /\ UNCHANGED <<pupil, subject, course, roadmap, studies, revived>>

(* update: any status after any other, compared with the one that was read *)
(* (updateIf); neither the pupil nor the roadmap is looked at.             *)
EditEnrollment(p) ==
    LET c == run[p].cmd IN
    /\ Running(p, "editEnrollment")
    /\ Read(p).enrolled[c.s][c.c].status \notin {"none", c.status}
    /\ enrolled[c.s][c.c].status = Read(p).enrolled[c.s][c.c].status
    /\ enrolled' = [enrolled EXCEPT ![c.s][c.c].status = c.status]
    /\ revived' = IF c.status = "active" THEN revived \cup {<<c.s, c.c>>} ELSE revived
    /\ End(p)
    /\ UNCHANGED <<pupil, subject, course, roadmap, studies, resumed>>

(* students.update, with a new status.                                     *)
EditStudent(p) ==
    LET c == run[p].cmd IN
    /\ Running(p, "editStudent") /\ Read(p).pupil[c.s] # "removed"
    /\ pupil' = [pupil EXCEPT ![c.s] = c.status]
    /\ End(p)
    /\ UNCHANGED <<subject, course, roadmap, enrolled, studies, revived, resumed>>

(* students.remove cancels the enrollments it reads; what it does to the   *)
(* student's other rows is in Families.                                    *)
RemovePupil(p) ==
    LET c == run[p].cmd IN
    /\ Running(p, "removeStudent") /\ Read(p).pupil[c.s] # "removed"
    /\ pupil' = [pupil EXCEPT ![c.s] = "removed"]
    /\ enrolled' = [enrolled EXCEPT ![c.s] = [x \in StudyCourses |->
                       IF Read(p).enrolled[c.s][x].status \notin {"none", "canceled"}
                         THEN [@[x] EXCEPT !.status = "canceled"] ELSE @[x]]]
    /\ End(p)
    /\ UNCHANGED <<subject, course, roadmap, studies, revived, resumed>>

-----------------------------------------------------------------------------
(* courses.create; resolveSubjectCourse reaches it with the subject it has *)
(* found by name or just made.                                             *)
CreateCourse(p) ==
    LET c == run[p].cmd IN
    /\ Running(p, "createCourse") /\ Read(p).subject[c.subject].status = "active"
    /\ course[c.c].status = "absent"
    /\ course' = [course EXCEPT ![c.c] = [status |-> "active", subject |-> c.subject]]
    /\ End(p)
    /\ UNCHANGED <<pupil, subject, roadmap, enrolled, studies, revived, resumed>>

(* resolveSubjectCourse: the subject of that name or a new one, and, under *)
(* the subject's lock (courses.create asks for it again), a course of it,  *)
(* new or one there is already.                                            *)
ResolveSubject(p) ==
    LET c     == run[p].cmd
        found == {x \in Subjects : Read(p).subject[x].status = "active" /\ Read(p).subject[x].name = c.name}
    IN  /\ Running(p, "resolve")
        /\ \E x \in Subjects, y \in StudyCourses :
             /\ Free(p, Lock("subject", {x}))
             /\ IF found = {}
                  THEN /\ subject[x].status = "absent"
                       /\ subject' = [subject EXCEPT ![x] = [status |-> "active", name |-> c.name, auto |-> TRUE]]
                  ELSE x \in found /\ subject[x].status = "active" /\ UNCHANGED subject
             /\ \/ course[y].status = "absent"
                \/ Free(p, Lock("course", {y})) /\ course[y].status = "active" /\ Read(p).course[y].subject = x
             /\ course' = [course EXCEPT ![y] = [status |-> "active", subject |-> x]]
        /\ End(p)
        /\ UNCHANGED <<pupil, roadmap, enrolled, studies, revived, resumed>>

(* courses.update, with another subject.                                   *)
MoveCourse(p) ==
    LET c == run[p].cmd IN
    /\ Running(p, "moveCourse")
    /\ Read(p).course[c.c].status = "active" /\ Read(p).subject[c.subject].status = "active"
    /\ course' = [course EXCEPT ![c.c].subject = c.subject]
    /\ End(p)
    /\ UNCHANGED <<pupil, subject, roadmap, enrolled, studies, revived, resumed>>

(* courses.remove: nothing refers to it; sessions are in Timetable, wishes *)
(* in Families.                                                            *)
RemoveCourse(p) ==
    LET c == run[p].cmd IN
    /\ Running(p, "removeCourse") /\ Read(p).course[c.c].status = "active"
    /\ \A s \in Pupils : Read(p).enrolled[s][c.c] = NotEnrolled
    /\ \A r \in Roadmaps : Read(p).roadmap[r].status = "active" => Read(p).roadmap[r].order[c.c] = 0
    /\ course' = [course EXCEPT ![c.c].status = "removed"]
    /\ End(p)
    /\ UNCHANGED <<pupil, subject, roadmap, enrolled, studies, revived, resumed>>

(* subjects.update, with another name: nothing asks whether the name is    *)
(* free, and the lock is the subject's, not the name's.                    *)
RenameSubject(p) ==
    LET c == run[p].cmd IN
    /\ Running(p, "renameSubject") /\ Read(p).subject[c.subject].status = "active"
    /\ subject' = [subject EXCEPT ![c.subject].name = c.name, ![c.subject].auto = FALSE]
    /\ End(p)
    /\ UNCHANGED <<pupil, course, roadmap, enrolled, studies, revived, resumed>>

(* subjects.remove: no course is of the subject; reports, which also block *)
(* it, are left out.                                                       *)
RemoveSubject(p) ==
    LET c == run[p].cmd IN
    /\ Running(p, "removeSubject") /\ Read(p).subject[c.subject].status = "active"
    /\ \A x \in StudyCourses : Read(p).course[x].status = "active" => Read(p).course[x].subject # c.subject
    /\ subject' = [subject EXCEPT ![c.subject].status = "removed"]
    /\ End(p)
    /\ UNCHANGED <<pupil, course, roadmap, enrolled, studies, revived, resumed>>

-----------------------------------------------------------------------------
(* Roadmaps: one roadmap lock; a link does not lock its course.            *)
Linked(order) == {x \in StudyCourses : order[x] > 0}
OrderIsDense(order) == {order[x] : x \in Linked(order)} = 1 .. Cardinality(Linked(order))

CreateRoadmap(p) ==
    LET c == run[p].cmd IN
    /\ Running(p, "createRoadmap") /\ roadmap[c.r].status = "absent"
    /\ OrderIsDense(c.order)
    /\ \A x \in Linked(c.order) : Read(p).course[x].status = "active"
    /\ roadmap' = [roadmap EXCEPT ![c.r] = [status |-> "active", open |-> TRUE, order |-> c.order]]
    /\ End(p)
    /\ UNCHANGED <<pupil, subject, course, enrolled, studies, revived, resumed>>

(* Enrollments that name the roadmap, and the course when there is one.    *)
EnrolledBy(rows, r, courses, statuses) ==
    {e \in Pupils \X courses : LET row == rows.enrolled[e[1]][e[2]]
                              IN  row.roadmap = r /\ row.status \in statuses}

SetRoadmapOpen(p) ==
    LET c == run[p].cmd IN
    /\ Running(p, "openRoadmap") /\ Read(p).roadmap[c.r].status = "active"
    /\ ~c.open /\ Read(p).roadmap[c.r].open => EnrolledBy(Read(p), c.r, StudyCourses, {"active"}) = {}
    /\ roadmap' = [roadmap EXCEPT ![c.r].open = c.open]
    /\ End(p)
    /\ UNCHANGED <<pupil, subject, course, enrolled, studies, revived, resumed>>

RemoveRoadmap(p) ==
    LET c == run[p].cmd IN
    /\ Running(p, "removeRoadmap") /\ Read(p).roadmap[c.r].status = "active"
    /\ EnrolledBy(Read(p), c.r, StudyCourses, EnrollmentStatuses) = {}
    /\ roadmap' = [roadmap EXCEPT ![c.r] = [status |-> "removed", open |-> @.open, order |-> [x \in StudyCourses |->
                      IF Read(p).roadmap[c.r].order[x] > 0 THEN 0 ELSE roadmap[c.r].order[x]]]]
    /\ End(p)
    /\ UNCHANGED <<pupil, subject, course, enrolled, studies, revived, resumed>>

LinkCourse(p) ==
    LET c    == run[p].cmd
        seen == Read(p).roadmap[c.r]
    IN  /\ Running(p, "linkCourse") /\ seen.status = "active"
        /\ Read(p).course[c.c].status = "active" /\ seen.order[c.c] = 0
        /\ roadmap[c.r].order[c.c] = 0
        /\ \E last \in 0 .. Cardinality(StudyCourses) :
             /\ \A x \in StudyCourses : seen.order[x] <= last
             /\ last # 0 => \E x \in StudyCourses : seen.order[x] = last
             /\ roadmap' = [roadmap EXCEPT ![c.r].order[c.c] = last + 1]
        /\ End(p)
        /\ UNCHANGED <<pupil, subject, course, enrolled, studies, revived, resumed>>

(* removeCourse: what remains is read again and numbered anew.             *)
UnlinkCourse(p) ==
    LET c    == run[p].cmd
        kept == [Read(p).roadmap[c.r].order EXCEPT ![c.c] = 0]
    IN  /\ Running(p, "unlinkCourse") /\ Read(p).roadmap[c.r].status = "active"
        /\ Read(p).roadmap[c.r].order[c.c] > 0
        /\ EnrolledBy(Read(p), c.r, {c.c}, EnrollmentStatuses) = {}
        /\ roadmap' = [roadmap EXCEPT ![c.r].order = [x \in StudyCourses |->
                          IF kept[x] > 0 THEN Cardinality({y \in Linked(kept) : kept[y] <= kept[x]})
                          ELSE IF x = c.c THEN 0 ELSE @[x]]]
        /\ End(p)
        /\ UNCHANGED <<pupil, subject, course, enrolled, studies, revived, resumed>>

(* reorderCourses: exactly the courses the roadmap has.                    *)
ReorderCourses(p) ==
    LET c == run[p].cmd IN
    /\ Running(p, "reorder") /\ Read(p).roadmap[c.r].status = "active"
    /\ Linked(Read(p).roadmap[c.r].order) = Linked(c.order) /\ OrderIsDense(c.order)
    /\ roadmap' = [roadmap EXCEPT ![c.r].order = [x \in StudyCourses |->
                      IF x \in Linked(c.order) THEN c.order[x] ELSE @[x]]]
    /\ End(p)
    /\ UNCHANGED <<pupil, subject, course, enrolled, studies, revived, resumed>>

StudiesNext ==
    \E p \in Instances :
        \/ BeginStudyCommand(p) \/ RefuseStudyCommand(p)
        \/ Enroll(p) \/ EnsureActive(p) \/ EditEnrollment(p) \/ EditStudent(p) \/ RemovePupil(p)
        \/ CreateCourse(p) \/ ResolveSubject(p) \/ MoveCourse(p) \/ RemoveCourse(p)
        \/ RenameSubject(p) \/ RemoveSubject(p)
        \/ CreateRoadmap(p) \/ SetRoadmapOpen(p) \/ RemoveRoadmap(p)
        \/ LinkCourse(p) \/ UnlinkCourse(p) \/ ReorderCourses(p)

-----------------------------------------------------------------------------
StudiesTypeOK ==
    /\ pupil \in [Pupils -> {"visible", "hidden", "removed"}]
    /\ \A x \in StudyCourses : course[x].status \in {"absent", "active", "removed"}
    /\ \A x \in StudyCourses : course[x].status # "absent" => course[x].subject \in Subjects
    /\ \A s \in Pupils, x \in StudyCourses :
         /\ enrolled[s][x].status \in EnrollmentStatuses \cup {"none"}
         /\ enrolled[s][x].roadmap \in Roadmaps \cup {NoRoadmap}

(* courses.remove, roadmaps.remove, update and removeCourse and            *)
(* subjects.remove look for references before they act, enrollments.create *)
(* looks for what it refers to: whichever comes first, no enrollment names *)
(* a course that is gone, a course of a subject that is gone, or a roadmap *)
(* that is gone, lacks its course or, unless an edit or the roster of a    *)
(* session made it active again (neither looks at the roadmap), is closed. *)
RowsRest(rows, excused) ==
    \A s \in Pupils, x \in StudyCourses :
        LET e == rows.enrolled[s][x] IN
        e.status # "none" =>
            /\ rows.course[x].status = "active" /\ rows.subject[rows.course[x].subject].status = "active"
            /\ e.roadmap # NoRoadmap =>
                 /\ rows.roadmap[e.roadmap].status = "active" /\ rows.roadmap[e.roadmap].order[x] > 0
                 /\ e.status = "active" /\ <<s, x>> \notin excused => rows.roadmap[e.roadmap].open

EnrollmentsRestOnWhatExists == RowsRest(StudiesSnapshot, revived \cup resumed)

(* addCourse, removeCourse, reorderCourses: the order of a roadmap is a    *)
(* list without gaps or doubles.                                           *)
RoadmapOrderIsDense == \A r \in Roadmaps : OrderIsDense(roadmap[r].order)

(* resolveSubjectCourse finds a subject by its name or makes it: sessions  *)
(* opened at the same time under a new name share one subject.  Of two     *)
(* subjects of one name that it made, one was renamed (subjects.update     *)
(* does not look at the names there are); it never makes a second itself,  *)
(* however renames and removals fall between.                              *)
OneOfEach(subjects) ==
    \A x, y \in Subjects :
        /\ subjects[x].status = "active" /\ subjects[x].auto
        /\ subjects[y].status = "active" /\ subjects[y].auto
        /\ subjects[x].name = subjects[y].name
        => x = y

OneSubjectPerName == OneOfEach(subject)

(* students.remove: a removed student studies nothing, but for what was    *)
(* edited back to active (enrollments.update does not ask for him).        *)
RemovedStudentsLeave ==
    \A s \in Pupils, x \in StudyCourses :
        pupil[s] = "removed" /\ enrolled[s][x].status = "active" => <<s, x>> \in revived

(* The rows there are before the first command are such rows, and every    *)
(* course is of a subject there is.                                        *)
ASSUME StudySeedsAssumption ==
    \A seed \in StudySeeds :
        /\ seed.pupil \in [Pupils -> {"visible", "hidden", "removed"}]
        /\ seed.subject \in [Subjects -> [status : {"absent", "active", "removed"}, auto : BOOLEAN,
                                          name : {seed.subject[x].name : x \in Subjects}]]
        /\ seed.course \in [StudyCourses -> [status : {"absent", "active", "removed"}, subject : Subjects]]
        /\ seed.roadmap \in [Roadmaps -> [status : {"absent", "active", "removed"}, open : BOOLEAN,
                                          order : [StudyCourses -> Nat]]]
        /\ seed.enrolled \in [Pupils -> [StudyCourses -> [status : EnrollmentStatuses, form : {NoForm},
                                            roadmap : Roadmaps \cup {NoRoadmap}] \cup {NotEnrolled}]]
        /\ \A x \in StudyCourses : seed.course[x].status = "active" => seed.subject[seed.course[x].subject].status = "active"
        /\ \A r \in Roadmaps : OrderIsDense(seed.roadmap[r].order)
        /\ \A s \in Pupils, x \in StudyCourses : seed.pupil[s] = "removed" => seed.enrolled[s][x].status # "active"
        /\ OneOfEach(seed.subject) /\ RowsRest(seed, {})
=============================================================================
