--------------------------- MODULE AdvisoryLocks ---------------------------
(***************************************************************************)
(* CalendarUnitOfWork.lockTargets: the lock programs of the commands that  *)
(* call it more than once.                                                 *)
(*                                                                         *)
(* A command is a sequence of lockTargets calls in one transaction.  One   *)
(* call sorts its keys by (kind, id) and takes pg_advisory_xact_lock for   *)
(* each in turn; a transaction may take a key it already holds; all keys   *)
(* are released when it ends.  The order holds inside a call: a later call *)
(* may ask for a smaller key than those already held.                      *)
(***************************************************************************)
EXTENDS Naturals, Sequences, FiniteSets

CONSTANTS Instances,
          Programs        \* the lock programs of the commands clients send

ASSUME ProgramsAssumption ==
    \A p \in Programs :
        /\ p \in Seq(SUBSET (Nat \X Nat)) /\ p # <<>>
        /\ \A n \in DOMAIN p : p[n] # {} /\ IsFiniteSet(p[n])

(* LOCK_KIND, the kinds the commands below use.                            *)
Instructor(id) == <<1, id>>
Room(id)       == <<2, id>>
Student(id)    == <<3, id>>
Session(id)    == <<4, id>>
User(id)       == <<5, id>>
Series(id)     == <<9, id>>
Intake(phone)  == <<10, phone>>
Card(id)       == <<12, id>>
Payout(id)     == <<13, id>>
Course(id)     == <<13, id>>   \* the same kind as payout
Subject(id)    == <<14, id>>

(* payouts.generate: the sessions are those the first measure returned.    *)
GenerateProgram(instructor, sessions) == <<{Instructor(instructor)}, {Session(s) : s \in sessions}>>

(* payouts.pay, reverse, confirm, unconfirm, adjust.                       *)
PayoutProgram(payout) == <<{Payout(payout)}>>

(* courses.update, with a new default instructor.                          *)
CourseProgram(course, user) == <<{Course(course), User(user)}>>

(* schedule.updateInstructorAssignment; with setCourseDefault it calls     *)
(* courses.update inside its transaction.                                  *)
AssignProgram(session, course, from, to, setCourseDefault) ==
    <<{Session(session), Course(course), Instructor(from), Instructor(to)}>>
        \o IF setCourseDefault THEN CourseProgram(course, to) ELSE <<>>

(* schedule.openClass, for a course that exists: the name of the subject   *)
(* and the resources, then courses.update inside its transaction.          *)
OpenClassProgram(name, subject, course, user, room, students) ==
    <<{Subject(name), User(user), Instructor(user), Room(room)} \cup {Student(s) : s \in students},
      {Course(course), Subject(subject), User(user)}>>

(* enrollments.create.                                                     *)
EnrollProgram(student, course) == <<{Student(student), Course(course)}>>

(* registrations.register, for a new student with a guardian, a course and *)
(* a relative who is a student: enrollments.create and                     *)
(* students.createFamilyRelation run inside its transaction.               *)
RegisterProgram(phone, student, course, relative) ==
    <<{Intake(phone)}>> \o EnrollProgram(student, course)
        \o <<{Student(student), Student(relative)}>>

(* enrollments.create on a card, and counsel.convert, which calls it       *)
(* inside a transaction that holds the card.                               *)
EnrollOnCardProgram(student, course, card) == <<{Student(student), Course(course), Card(card)}>>

ConvertProgram(card, student, course) ==
    <<{Card(card)}>> \o EnrollOnCardProgram(student, course, card)

(* schedule.update: the series alone, then everything else at once.        *)
UpdateProgram(series, session, course, instructor, room, students) ==
    <<{Series(series)},
      {Instructor(instructor), Room(room), Session(session), User(instructor), Course(course)}
         \cup {Student(s) : s \in students}>>

(* schedule.remove: the series, then the sessions in scope.                *)
RemoveProgram(series, sessions) == <<{Series(series)}, {Session(s) : s \in sessions}>>

-----------------------------------------------------------------------------
VARIABLES program,        \* the calls an instance has yet to finish
          held            \* the keys its transaction holds

vars == <<program, held>>

Init == /\ program = [i \in Instances |-> <<>>]
        /\ held = [i \in Instances |-> {}]

Before(j, k) == j[1] < k[1] \/ (j[1] = k[1] /\ j[2] < k[2])

(* Mutant: the keys are not sorted by kind first.                          *)
AskedById(i) == CHOOSE k \in program[i][1] :
    \A j \in program[i][1] : j = k \/ k[2] > j[2] \/ (k[2] = j[2] /\ k[1] > j[1])

(* The key the current call asks for next: the least of its keys.          *)
Asked(i) == CHOOSE k \in program[i][1] : \A j \in program[i][1] : j = k \/ Before(k, j)

Begin(i, p) ==
    /\ program[i] = <<>>
    /\ held[i] = {}
    /\ program' = [program EXCEPT ![i] = p]
    /\ UNCHANGED held

Free(k, i) == \A j \in Instances \ {i} : k \notin held[j]

Acquire(i) ==
    /\ program[i] # <<>>
    /\ Free(Asked(i), i)
    /\ held' = [held EXCEPT ![i] = @ \cup {Asked(i)}]
    /\ program' = [program EXCEPT ![i] =
           IF @[1] = {Asked(i)} THEN Tail(@) ELSE <<@[1] \ {Asked(i)}>> \o Tail(@)]

(* Mutant: an advisory lock of the session, not of the transaction: it is  *)
(* still held after COMMIT.                                                *)
CommitKeeping(i) ==
    /\ program[i] = <<>>
    /\ held[i] # {}
    /\ UNCHANGED vars

(* Commit, after the last call, releases every lock of the transaction.    *)
Commit(i) ==
    /\ program[i] = <<>>
    /\ held[i] # {}
    /\ held' = [held EXCEPT ![i] = {}]
    /\ UNCHANGED program

(* A command that fails releases them too, wherever it is.                 *)
Rollback(i) ==
    /\ program[i] # <<>>
    /\ program' = [program EXCEPT ![i] = <<>>]
    /\ held' = [held EXCEPT ![i] = {}]

Next == \E i \in Instances :
    Acquire(i) \/ Commit(i) \/ Rollback(i) \/ \E p \in Programs : Begin(i, p)

(* A running transaction goes on, and a waiter of a lock that is released  *)
(* again and again gets it: Postgres queues the waiters of a lock.         *)
Fairness == \A i \in Instances : WF_vars(Commit(i)) /\ SF_vars(Acquire(i))

Spec == Init /\ [][Next]_vars /\ Fairness

-----------------------------------------------------------------------------
WaitsFor(i, j) == i # j /\ program[i] # <<>> /\ Asked(i) \in held[j]

(* calendar-unit-of-work.service.ts:4-5 calls the locking deadlock-free:   *)
(* no set of transactions waits in a circle.                               *)
NoWaitCycle ==
    \A D \in (SUBSET Instances) \ {{}} : \E i \in D : \A j \in D : ~WaitsFor(i, j)

(* lockTargets, run: every command that starts gets all its locks and      *)
(* ends, however many others compete for them.                             *)
EveryCommandEnds ==
    \A i \in Instances : program[i] # <<>> ~> program[i] = <<>> /\ held[i] = {}
=============================================================================
