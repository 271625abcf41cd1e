---------------------------- MODULE MCTimetable ----------------------------
(* Two instructors, two courses, three slots, a series of two sessions and *)
(* single ones.                                                            *)
EXTENDS Timetable

CONSTANTS i1, i2, a, b, math, art, k1

MCSymmetry == Permutations({i1, i2})

MCInstructors == [c \in Courses |-> IF c = art THEN b ELSE a]

Create(ats, len, who, series) ==
    [op |-> "create", ats |-> ats, len |-> len, who |-> who, course |-> math, series |-> series]
Update(id, scope, patch) == [op |-> "update", id |-> id, scope |-> scope, patch |-> patch]
Assign(id, who) == [op |-> "assign", id |-> id, who |-> who]
Remove(id, scope) == [op |-> "remove", id |-> id, scope |-> scope]
BlockTime(who, slot) == [op |-> "block", who |-> who, slot |-> slot]
UnblockTime(who, slot) == [op |-> "unblock", who |-> who, slot |-> slot]

(* Creations of one session or of a series, changes of one session or of   *)
(* those that follow it, and one instructor's blocks.                      *)
MCCommands ==
    {Create({1}, 1, a, NoSeries), Create({2}, 2, b, NoSeries), Create({1, 3}, 1, a, "new"),
     Create({2}, 1, a, k1), BlockTime(a, 2), UnblockTime(a, 2),
     Assign(1, b), Assign(2, a), Assign(2, NoOne),
     Remove(1, "this"), Remove(1, "this_and_following")}
    \cup [op : {"update"}, id : {1}, scope : {"this", "this_and_following"},
          patch : {[at |-> 3], [len |-> 2], [course |-> art], [status |-> "canceled"]}]
    \cup [op : {"update"}, id : {2}, scope : {"this"}, patch : {[at |-> 3], [len |-> 2], [course |-> art]}]
    \cup {Update(1, "all", [status |-> "makeup"]), Update(2, "all", [who |-> b])}

(* Two single sessions that may change their course.                       *)
MCCourseChanges ==
    {Create({1}, 1, a, NoSeries), Create({1}, 1, b, NoSeries), Assign(1, b),
     Update(1, "this", [at |-> 3]), Update(1, "this", [course |-> art])}

(* A series and single sessions that requests are about.                   *)
MCRequestedCommands ==
    {Create({1, 3}, 1, a, "new"), Create({2}, 1, a, NoSeries), Update(1, "this", [at |-> 4]),
     Update(1, "this_and_following", [len |-> 2]), Remove(2, "this_and_following"), BlockTime(a, 2)}
=============================================================================
