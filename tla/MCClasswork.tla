---------------------------- MODULE MCClasswork ----------------------------
(* The lessons of MCLessons with two rows of requests and corrections of   *)
(* their lecturer, and two templates that are the defaults of their        *)
(* scopes.                                                                 *)
EXTENDS Classwork, MCLessons

CONSTANTS k1

MCBodies == {<<1, 2>>, <<2, 1>>, <<1, 2, 1>>}

MCClassworkCommands ==
    MCLessonCommands \cup [op : {"correct"}, l : {1, 2}, by : {ann}, mark : {"late"}]
                     \cup [op : {"setRoom"}, l : {2}, scope : {"all"}]

TemplateRow(owner, name, isDefault, isEnforced) ==
    [live |-> TRUE, owner |-> owner, name |-> name, isDefault |-> isDefault, isEnforced |-> isEnforced]

MCTemplateSeeds ==
    {1 :> TemplateRow(Everybody, "plain", TRUE, TRUE) @@ 2 :> TemplateRow(ann, "exam", TRUE, FALSE) @@ 3 :> NoTemplate}

MCTemplateCommands ==
    [op : {"add"}, owner : {Everybody, ann}, name : {"exam", "plain"}, isDefault : BOOLEAN, isEnforced : {FALSE}]
    \cup [op : {"edit"}, t : {1, 2}, name : {"exam"}]
    \cup [op : {"edit"}, t : {2, 3}, name : {"exam", "new"}, owner : {Everybody, ann}, isEnforced : BOOLEAN]
    \cup [op : {"edit"}, t : {1, 3}, name : {"plain"}, isDefault : BOOLEAN]
    \cup [op : {"drop"}, t : {1, 2, 3}]
=============================================================================
