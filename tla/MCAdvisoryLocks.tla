-------------------------- MODULE MCAdvisoryLocks --------------------------
(* Commands about two instructors (1 and 2), two sessions of one series,   *)
(* one course of one subject and two students.                             *)
EXTENDS AdvisoryLocks

(* What most commands ask for, the ones with several calls among them.     *)
MCOrdered ==
    {GenerateProgram(1, {1, 2}), PayoutProgram(1), CourseProgram(1, 2), EnrollProgram(1, 1),
     EnrollOnCardProgram(1, 1, 1), AssignProgram(2, 1, 1, 2, FALSE),
     OpenClassProgram(7, 1, 1, 1, 1, {1}), UpdateProgram(1, 1, 1, 2, 1, {1}),
     RemoveProgram(1, {1, 2})}

(* And the ones that ask for less than they hold: an assignment that       *)
(* changes the course's default instructor, the registration of student 2, *)
(* a relative of student 1, and the conversion of a card.                  *)
MCNested == MCOrdered \cup
    {AssignProgram(2, 1, 1, 2, TRUE), RegisterProgram(1, 2, 1, 1), ConvertProgram(1, 1, 1)}
=============================================================================
