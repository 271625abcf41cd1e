----------------------------- MODULE Classwork -----------------------------
(***************************************************************************)
(* Lessons with the requests about them, and the templates of reports: a   *)
(* behaviour is one of the two, so that the state spaces add up.           *)
(***************************************************************************)
EXTENDS LessonRequests, Templates

VARIABLES part             \* the part that moves

ClassworkInit ==
    /\ part \in {"lessons", "templates"}
    /\ NothingRuns
    /\ LessonsInit /\ LessonRequestsInit /\ TemplatesInit

ClassworkNext ==
    /\ UNCHANGED part
    /\ \/ part = "lessons" /\ LessonRequestsNext /\ UNCHANGED templateVars
       \/ part = "templates" /\ TemplatesNext /\ UNCHANGED <<lessonVars, requestVars>>

ClassworkSpec ==
    ClassworkInit /\ [][ClassworkNext]_<<part, run, lessonVars, requestVars, templateVars>>
=============================================================================
