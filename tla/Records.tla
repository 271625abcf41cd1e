------------------------------ MODULE Records ------------------------------
(***************************************************************************)
(* The records of the school besides accounts and lessons: families, what  *)
(* is studied, counselling, staff, tuition and expenses, the rows of a     *)
(* table as one process sees them, and the schema of the database.         *)
(* Commands that share rows are in one part (an enrollment, its pupil, its *)
(* roadmap, its card); a behaviour is one of the parts, so that the state  *)
(* spaces add up.                                                          *)
(***************************************************************************)
EXTENDS Families, Counsel, Staffing, Mirror, Ledgers, Migrations

VARIABLES part             \* the part that moves

othersVars == <<familyVars, studyVars, counselVars, staffVars>>
recordsVars == <<part, run, othersVars, mirrorVars, ledgersVars, migrationVars>>

RecordsInit ==
    /\ part \in {"families", "studies", "staffing", "mirror", "payments", "expenses", "schema"}
    /\ NothingRuns
    /\ FamiliesInit /\ StudiesInit /\ CounselInit /\ StaffingInit /\ MirrorInit /\ LedgersInit
    /\ part # "mirror" => \A r \in RowIds : db[r] = NoRow
    /\ IF part = "schema" THEN MigrationsInit ELSE NoCampaign

StudiesOrCounselNext ==
    \/ StudiesNext /\ UNCHANGED counselVars
    \/ CounselNext

RecordsNext ==
    /\ UNCHANGED part
    /\ \/ /\ part = "families" /\ FamiliesNext
          /\ UNCHANGED <<studyVars, counselVars, staffVars, mirrorVars, ledgersVars, migrationVars>>
       \/ /\ part = "studies" /\ StudiesOrCounselNext
          /\ UNCHANGED <<familyVars, staffVars, mirrorVars, ledgersVars, migrationVars>>
       \/ /\ part = "staffing" /\ StaffingNext
          /\ UNCHANGED <<familyVars, studyVars, counselVars, mirrorVars, ledgersVars, migrationVars>>
       \/ /\ part = "mirror" /\ MirrorNext
          /\ UNCHANGED <<run, othersVars, ledgersVars, migrationVars>>
       \/ /\ part = "payments" /\ PaymentsNext
          /\ UNCHANGED <<run, othersVars, mirrorVars, migrationVars>>
       \/ /\ part = "expenses" /\ ExpensesNext
          /\ UNCHANGED <<run, othersVars, mirrorVars, migrationVars>>
       \/ /\ part = "schema" /\ MigrationsNext
          /\ UNCHANGED <<run, othersVars, mirrorVars, ledgersVars>>

RecordsSpec == RecordsInit /\ [][RecordsNext]_recordsVars

-----------------------------------------------------------------------------
(* Only the part that moves can break anything.                            *)
In(p, holds) == part = p => holds

RecordsTypeOK ==
    /\ In("families", FamiliesTypeOK /\ LocksExclude)
    /\ In("studies", StudiesTypeOK /\ CounselTypeOK /\ LocksExclude)
    /\ In("staffing", StaffingTypeOK /\ LocksExclude)
    /\ In("mirror", MirrorTypeOK)
    /\ In("payments", P!TypeOK)
    /\ In("expenses", E!TypeOK)
    /\ In("schema", MigrationsTypeOK)

(* createAcademicHistory, transitionAcademicProfile and the contracts of   *)
(* teachers: on no day is a student in two schools, or a teacher under two *)
(* contracts.  The lock and the readback alone see to it.                  *)
PeriodsNeverOverlap ==
    In("families", PeriodsStayApart) /\ In("staffing", ContractsStayApart)

(* student-interests.service and roadmaps.service: additions, removals and *)
(* exchanges by several managers leave a list 1, 2, ... without a gap.     *)
OrdersStayDense ==
    In("families", WishesStayRanked) /\ In("studies", RoadmapOrderIsDense)

(* attachGuardianInTx, resolveSubjectCourse, convert: what is looked up    *)
(* and made when it is missing is made once, a card's enrollment too.      *)
FoundOrMadeOnce ==
    In("families", OneGuardianPerIntake) /\ In("studies", OneSubjectPerName /\ OneConversion)

(* students.remove: whatever ran beside it, a student who was removed has  *)
(* no guardian, no relative and no enrollment in force, but for what was   *)
(* brought back by a command that does not ask for him; and no enrollment  *)
(* names a course or a roadmap that is gone.                               *)
NothingNamesWhatIsGone ==
    /\ In("families", RemovedStudentsStayAlone)
    /\ In("studies", RemovedStudentsLeave /\ EnrollmentsRestOnWhatExists)
=============================================================================
