----------------------------- MODULE MCLessons -----------------------------
(* One series of two lessons, the first over and held, the second not yet; *)
(* two learners, the second lesson open to whoever is enrolled.  A new     *)
(* room for the series makes the second one held without participants.     *)
EXTENDS Lessons

CONSTANTS i1, i2, ann, ben, amy, bob

MCLessonSymmetry == Permutations({i1, i2})

Given(status, past, teacher, mark, roster) ==
    [there |-> TRUE, status |-> status, past |-> past, teacher |-> teacher, mark |-> mark,
     roster |-> roster, fee |-> NoFee, linked |-> FALSE]

ReportOfAmy ==
    [live |-> TRUE, l |-> 1, x |-> amy, teacher |-> ann, status |-> "submitted",
     approval |-> "approved", version |-> 1, text |-> 1]

MCLessonSeeds ==
    {[lesson  |-> (1 :> Given("scheduled", TRUE, ann, "present", {amy}) @@ 2 :> Given("canceled", TRUE, ann, "none", {amy, bob})),
      marked  |-> (1 :> {amy} @@ 2 :> {}),
      written |-> (1 :> [ReportOfAmy EXCEPT !.approval = "submitted"] @@ 2 :> NoReport)],
     [lesson  |-> (1 :> Given("held", TRUE, ann, "present", {amy}) @@ 2 :> Given("scheduled", TRUE, ann, "present", {})),
      marked  |-> (1 :> {amy} @@ 2 :> {amy}),
      written |-> (1 :> ReportOfAmy @@ 2 :> NoReport)],
     [lesson  |-> (1 :> Given("held", TRUE, ann, "present", {amy}) @@ 2 :> Given("scheduled", TRUE, ann, "none", {})),
      marked  |-> (1 :> {amy} @@ 2 :> {amy}),
      written |-> (1 :> [ReportOfAmy EXCEPT !.l = 2] @@ 2 :> NoReport)]}

MCLessonCommands ==
    [op : {"move"}, l : {1}, scope : {"this", "all"}, past : {TRUE}]
    \cup [op : {"setStatus"}, l : {1, 2}, scope : {"this"}, status : {"canceled", "scheduled"}]
    \cup [op : {"setRoom"}, l : {1}, scope : {"all"}]
    \cup [op : {"setRoster"}, l : {1}, scope : {"this"}, roster : {{amy, bob}}]
    \cup [op : {"setMark"}, l : {1, 2}, mark : {"late"}] \cup [op : {"clearMark"}, l : {1}]
    \cup [op : {"remove"}, l : {1}, scope : {"this", "all"}]
    \cup [op : {"assign"}, l : {2}, teacher : {ben, NoLecturer}]
    \cup [op : {"price"}, l : {1}, fee : {1}] \cup [op : {"link"}, l : {1}]
    \cup [op : {"leave", "rejoin"}, x : {bob}]
    \cup [op : {"attend"}, l : {2}, x : {bob}] \cup [op : {"clear"}, l : {1, 2}, x : {amy}]
    \cup [op : {"write"}, l : {2}, x : {amy}, status : {"draft", "submitted"}]
    \cup [op : {"rewrite", "revise"}, r : {1}, text : {2}]
    \cup [op : {"submit", "reject"}, r : {1}] \cup [op : {"withdraw"}, r : {2}] \cup [op : {"approve"}, r : {1, 2}]

(* A new room for the whole series, asked for at a lesson that was held.   *)
MCRoomForTheSeries == [op : {"setRoom"}, l : {1}, scope : {"all"}]
=============================================================================
