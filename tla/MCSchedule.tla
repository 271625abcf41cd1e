----------------------------- MODULE MCSchedule -----------------------------
(* One run of Timetable asks two questions: of the commands on sessions    *)
(* and blocks, and of requests with the commands that run beside them.     *)
EXTENDS MCTimetable

VARIABLE question

MCBothCommands == MCCommands \cup MCRequestedCommands

Asked ==
    IF question = "commands"
      THEN /\ \A q \in Requests : request[q].state = "absent"
           /\ \A i \in Instances : run[i].cmd \in MCCommands \cup {NoCommand}
      ELSE /\ commits < MaxCommits   \* bound: one commit less than the commands alone
           /\ \A i \in Instances : run[i].cmd \in MCRequestedCommands \cup {NoCommand} \/ run[i].req # NoRequest

MCInit == question \in {"commands", "requests"} /\ Init

MCSpec == MCInit /\ [][Next /\ UNCHANGED question /\ Asked']_<<vars, question>>
=============================================================================
