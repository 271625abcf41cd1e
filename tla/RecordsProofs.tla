--------------------------- MODULE RecordsProofs ----------------------------
(* The proofs about the records of the school, for any rows, instances,    *)
(* commands and writes; those about studies and counselling begin in       *)
(* StudiesProofs, those about payments and expenses in LedgersProofs.      *)
EXTENDS Records, StudiesProofs, LedgersProofs, WellFoundedInduction, SequenceTheorems

-----------------------------------------------------------------------------
(* Families.                                                               *)
PhoneKeys == {"none"} \cup {c.key : c \in FamilyCommands}
                      \cup {seed.parent[g].key : seed \in FamilySeeds, g \in Parents}

ParentRow == [status : {"absent", "active", "removed"}, key : PhoneKeys, how : {"none", "direct", "intake"}]
Links == {"none", "linked", "primary"}
Periods == [from : Nat, to : Nat]

FamiliesTyped ==
    /\ student \in [Students -> {"absent", "active", "removed"}]
    /\ parent \in [Parents -> ParentRow]
    /\ guardian \in [Students -> [Parents -> Links]]
    /\ \A k \in kin : k \in SUBSET Students /\ Cardinality(k) = 2
    /\ past \in [Students -> [Slots -> Periods]]
    /\ wish \in [Students -> [Targets -> Nat]]

FamilyRowsFit ==
    /\ FamiliesTyped
    /\ PeriodsStayApart /\ WishesStayRanked /\ OneGuardianPerIntake /\ RemovedStudentsStayAlone

(* What a command saw of the students it has locked is what there is, and  *)
(* whoever came of the phone number it has locked it has seen.             *)
SawStudent(p, s) ==
    /\ Seen(p).student[s] = student[s] /\ Seen(p).guardian[s] = guardian[s]
    /\ Seen(p).past[s] = past[s] /\ Seen(p).wish[s] = wish[s]
    /\ \A k \in kin : s \in k => k \in Seen(p).kin

SawIntake(p, key) ==
    \A g \in Parents : MadeFor(parent, g, key) =>
        Seen(p).parent[g].status = "active" /\ Seen(p).parent[g].key = key

FamilySees(p) ==
    /\ run[p].cmd.op # "none" =>
         run[p].cmd \in FamilyCommands /\ run[p].held = FamilyKeys(run[p].cmd)
    /\ \A s \in Students : <<"student", s>> \in run[p].held => SawStudent(p, s)
    /\ \A key \in PhoneKeys \ {"blank"} : <<"parentIntake", key>> \in run[p].held => SawIntake(p, key)

FamiliesSound ==
    /\ DOMAIN run = Instances /\ LocksExclude /\ FamilyRowsFit
    /\ \A p \in Instances : FamilySees(p)

-----------------------------------------------------------------------------
(* What a step of p leaves alone: the rows of students, and the intakes, p *)
(* has no lock of.                                                         *)
SpareStudents(p) ==
    \A s \in Students : <<"student", s>> \notin run[p].held =>
        /\ student'[s] = student[s] /\ guardian'[s] = guardian[s]
        /\ past'[s] = past[s] /\ wish'[s] = wish[s]
        /\ \A k \in kin' : s \in k => k \in kin

SpareIntakes(p) ==
    \A key \in PhoneKeys \ {"blank"} : <<"parentIntake", key>> \notin run[p].held =>
        \A g \in Parents : MadeFor(parent', g, key) => MadeFor(parent, g, key)

LEMMA OthersSaw ==
    ASSUME FamiliesSound, NEW p \in Instances, SpareStudents(p), SpareIntakes(p),
           NEW q \in Instances \ {p}, run'[q] = run[q]
    PROVE  FamilySees(q)'
<1>1. \A s \in Students : <<"student", s>> \in run[q].held => SawStudent(q, s)'
  <2> TAKE s \in Students
  <2> HAVE <<"student", s>> \in run[q].held
  <2>1. SawStudent(q, s) /\ <<"student", s>> \notin run[p].held
    BY HeldAlone DEF FamiliesSound, FamilySees
  <2> QED BY <2>1 DEF SpareStudents, SawStudent, Seen
<1>2. \A key \in PhoneKeys \ {"blank"} : <<"parentIntake", key>> \in run[q].held => SawIntake(q, key)'
  <2> TAKE key \in PhoneKeys \ {"blank"}
  <2> HAVE <<"parentIntake", key>> \in run[q].held
  <2>1. SawIntake(q, key) /\ <<"parentIntake", key>> \notin run[p].held
    BY HeldAlone DEF FamiliesSound, FamilySees
  <2> QED BY <2>1 DEF SpareIntakes, SawIntake, Seen
<1> QED BY <1>1, <1>2 DEF FamiliesSound, FamilySees

LEMMA FamilyStep ==
    ASSUME FamiliesSound, NEW p \in Instances, End(p), FamilyRowsFit', SpareStudents(p), SpareIntakes(p)
    PROVE  FamiliesSound'
<1>1. /\ DOMAIN run' = Instances /\ LocksExclude' /\ run'[p].cmd = NoCommand /\ run'[p].held = {}
      /\ \A q \in Instances \ {p} : run'[q] = run[q]
  BY Ended DEF FamiliesSound
<1>2. FamilySees(p)'
  BY <1>1 DEF FamilySees, NoCommand
<1> QED BY <1>1, <1>2, OthersSaw DEF FamiliesSound

LEMMA RowsStay ==
    ASSUME FamilyRowsFit, UNCHANGED familyVars
    PROVE  FamilyRowsFit' /\ \A p \in Instances : SpareStudents(p) /\ SpareIntakes(p)
BY DEF FamilyRowsFit, FamiliesTyped, PeriodsStayApart, WishesStayRanked, OneGuardianPerIntake,
       RemovedStudentsStayAlone, familyVars, familyRows, SpareStudents, SpareIntakes

LEMMA BeginFamilyKeeps ==
    ASSUME FamiliesSound, NEW p \in Instances, BeginFamilyCommand(p)
    PROVE  FamiliesSound'
<1> DEFINE saw == [student |-> student, parent |-> parent, guardian |-> guardian,
                   kin |-> kin, past |-> past, wish |-> wish]
<1>1. PICK c \in FamilyCommands : Begin(p, c, FamilyKeys(c), saw)
  BY DEF BeginFamilyCommand, KeysOfFamilyCommand
<1>2. UNCHANGED <<familyRows, rejoined>>
  BY DEF BeginFamilyCommand
<1>3. /\ DOMAIN run' = Instances /\ LocksExclude'
      /\ run'[p].cmd = c /\ run'[p].held = FamilyKeys(c) /\ run'[p].saw = saw
      /\ \A q \in Instances \ {p} : run'[q] = run[q]
  <2> HIDE DEF saw
  <2> QED BY <1>1, Begun DEF FamiliesSound
<1>4. FamilyRowsFit' /\ SpareStudents(p) /\ SpareIntakes(p)
  BY <1>2 DEF FamiliesSound, FamilyRowsFit, FamiliesTyped, PeriodsStayApart, WishesStayRanked,
       OneGuardianPerIntake, RemovedStudentsStayAlone, familyRows, SpareStudents, SpareIntakes
<1>5. FamilySees(p)'
  <2>1. \A s \in Students : SawStudent(p, s)'
    BY <1>2, <1>3 DEF SawStudent, Seen, familyRows
  <2>2. \A key \in PhoneKeys \ {"blank"} : SawIntake(p, key)'
    BY <1>2, <1>3 DEF SawIntake, Seen, familyRows, MadeFor
  <2> QED BY <1>1, <1>3, <2>1, <2>2 DEF FamilySees
<1> QED BY <1>3, <1>4, <1>5, OthersSaw DEF FamiliesSound

-----------------------------------------------------------------------------
LEMMA StudentLocked ==
    ASSUME FamiliesSound, NEW p \in Instances,
           run[p].cmd.op \in {"link", "newParent", "makePrimary", "unlink", "removeGuardian", "addPast",
                             "editPast", "dropPast", "newGrade", "setWishes", "addWish", "dropWish",
                             "register", "removeStudent"}
    PROVE  /\ run[p].cmd \in FamilyCommands /\ run[p].cmd.s \in Students
           /\ <<"student", run[p].cmd.s>> \in run[p].held
           /\ SawStudent(p, run[p].cmd.s)
<1> DEFINE c == run[p].cmd
<1>1. c \in FamilyCommands /\ run[p].held = FamilyKeys(c)
  BY DEF FamiliesSound, FamilySees
<1>2. c.s \in Students
  BY <1>1, FamilyCommandsAssumption
<1>3. <<"student", c.s>> \in FamilyKeys(c)
  BY DEF FamilyKeys, StudentLock
<1> QED BY <1>1, <1>2, <1>3 DEF FamiliesSound, FamilySees

LEMMA GuardianNamed ==
    ASSUME FamiliesSound, NEW p \in Instances,
           run[p].cmd.op \in {"link", "newParent", "makePrimary", "unlink", "removeGuardian",
                             "removeParent", "editParent"}
    PROVE  run[p].cmd \in FamilyCommands /\ run[p].cmd.g \in Parents
BY FamilyCommandsAssumption DEF FamiliesSound, FamilySees

(* The guardians of a student p has locked change.                         *)
LEMMA GuardiansChange ==
    ASSUME FamiliesSound, NEW p \in Instances, NEW s \in Students, <<"student", s>> \in run[p].held,
           NEW new \in [Parents -> Links], guardian' = [guardian EXCEPT ![s] = new],
           student[s] = "removed" /\ s \notin rejoined => \A g \in Parents : new[g] = "none",
           UNCHANGED <<student, kin, past, wish, rejoined>>
    PROVE  /\ SpareStudents(p)
           /\ parent' \in [Parents -> ParentRow] /\ OneGuardianPerIntake' => FamilyRowsFit'
<1>1. guardian \in [Students -> [Parents -> Links]]
  BY DEF FamiliesSound, FamilyRowsFit, FamiliesTyped
<1>2. /\ guardian' \in [Students -> [Parents -> Links]] /\ guardian'[s] = new
      /\ \A r \in Students \ {s} : guardian'[r] = guardian[r]
  BY <1>1
<1>3. SpareStudents(p)
  BY <1>2 DEF SpareStudents
<1>4. RemovedStudentsStayAlone'
  BY <1>2 DEF FamiliesSound, FamilyRowsFit, RemovedStudentsStayAlone, Unattached
<1> QED BY <1>2, <1>3, <1>4 DEF FamiliesSound, FamilyRowsFit, FamiliesTyped, PeriodsStayApart, WishesStayRanked

LEMMA LinkedRow ==
    ASSUME NEW old \in [Parents -> Links], NEW seen, NEW g \in Parents, NEW primary
    PROVE  WithLink(old, seen, g, primary) \in [Parents -> Links]
BY DEF WithLink, Links

LEMMA ParentsStay ==
    ASSUME FamiliesSound, UNCHANGED parent, NEW p
    PROVE  parent' \in [Parents -> ParentRow] /\ OneGuardianPerIntake' /\ SpareIntakes(p)
BY DEF FamiliesSound, FamilyRowsFit, FamiliesTyped, OneGuardianPerIntake, SpareIntakes

LEMMA LinkKeeps ==
    ASSUME FamiliesSound, NEW p \in Instances, LinkGuardian(p) \/ MakePrimary(p) \/ RemoveRelation(p)
    PROVE  FamiliesSound'
<1> DEFINE c == run[p].cmd
<1>1. c.op \in {"link", "makePrimary", "unlink"} /\ End(p) /\ UNCHANGED <<student, parent, kin, past, wish, rejoined>>
  BY DEF LinkGuardian, MakePrimary, RemoveRelation, Running
<1>2. /\ c.s \in Students /\ c.g \in Parents /\ <<"student", c.s>> \in run[p].held
      /\ SawStudent(p, c.s)
  BY <1>1, StudentLocked, GuardianNamed
<1>3. guardian \in [Students -> [Parents -> Links]]
  BY DEF FamiliesSound, FamilyRowsFit, FamiliesTyped
<1>4. PICK new \in [Parents -> Links] :
          /\ guardian' = [guardian EXCEPT ![c.s] = new]
          /\ student[c.s] = "removed" /\ c.s \notin rejoined => \A g \in Parents : new[g] = "none"
  <2>1. CASE LinkGuardian(p)
    <3>1. student[c.s] = "active"
      BY <1>2, <2>1 DEF LinkGuardian, SawStudent
    <3> DEFINE new == WithLink(guardian[c.s], Seen(p).guardian[c.s], c.g, c.primary)
    <3>2. new \in [Parents -> Links]
      BY <1>2, <1>3, LinkedRow
    <3>3. guardian' = [guardian EXCEPT ![c.s] = new]
      BY <2>1, <1>2, <1>3 DEF LinkGuardian
    <3> HIDE DEF new
    <3> QED BY <3>1, <3>2, <3>3
  <2>2. CASE MakePrimary(p)
    <3>1. guardian[c.s][c.g] # "none"
      BY <2>2 DEF MakePrimary
    <3>2. ~(student[c.s] = "removed" /\ c.s \notin rejoined)
      BY <3>1, <1>2 DEF FamiliesSound, FamilyRowsFit, RemovedStudentsStayAlone, Unattached
    <3> DEFINE new == WithLink(guardian[c.s], Seen(p).guardian[c.s], c.g, TRUE)
    <3>3. new \in [Parents -> Links]
      BY <1>2, <1>3, LinkedRow
    <3>4. guardian' = [guardian EXCEPT ![c.s] = new]
      BY <2>2, <1>2, <1>3 DEF MakePrimary
    <3> HIDE DEF new
    <3> QED BY <3>2, <3>3, <3>4
  <2>3. CASE RemoveRelation(p)
    <3> DEFINE new == [guardian[c.s] EXCEPT ![c.g] = "none"]
    <3>1. new \in [Parents -> Links]
      BY <1>2, <1>3 DEF Links
    <3>2. student[c.s] = "removed" /\ c.s \notin rejoined => \A g \in Parents : new[g] = "none"
      BY <1>2, <1>3 DEF FamiliesSound, FamilyRowsFit, RemovedStudentsStayAlone, Unattached
    <3>3. guardian' = [guardian EXCEPT ![c.s] = new]
      BY <2>3, <1>2, <1>3 DEF RemoveRelation
    <3> HIDE DEF new
    <3> QED BY <3>1, <3>2, <3>3
  <2> QED BY <2>1, <2>2, <2>3
<1>5. SpareStudents(p) /\ SpareIntakes(p) /\ FamilyRowsFit'
  <2> HIDE DEF c
  <2>1. SpareStudents(p) /\ (parent' \in [Parents -> ParentRow] /\ OneGuardianPerIntake' => FamilyRowsFit')
    BY <1>1, <1>2, <1>4, GuardiansChange
  <2> QED BY <1>1, <2>1, ParentsStay
<1> QED BY <1>1, <1>5, FamilyStep

(* A guardian who was not made for an intake comes, or one goes.           *)
LEMMA ParentChanges ==
    ASSUME FamiliesSound, NEW p \in Instances, NEW g \in Parents, NEW new \in ParentRow,
           parent' = [parent EXCEPT ![g] = new], new.status = "removed" \/ new.how = "direct"
    PROVE  parent' \in [Parents -> ParentRow] /\ OneGuardianPerIntake' /\ SpareIntakes(p)
<1>1. parent \in [Parents -> ParentRow] /\ OneEach(parent)
  BY DEF FamiliesSound, FamilyRowsFit, FamiliesTyped, OneGuardianPerIntake
<1>2. /\ parent' \in [Parents -> ParentRow] /\ parent'[g] = new
      /\ \A h \in Parents \ {g} : parent'[h] = parent[h]
  BY <1>1
<1>3. \A key : ~MadeFor(parent', g, key)
  BY <1>2 DEF MadeFor
<1> QED BY <1>1, <1>2, <1>3 DEF SpareIntakes, OneGuardianPerIntake, OneEach, MadeFor

LEMMA NewParentKeeps ==
    ASSUME FamiliesSound, NEW p \in Instances, NewParent(p)
    PROVE  FamiliesSound'
<1> DEFINE c == run[p].cmd
           came == [status |-> "active", key |-> c.key, how |-> "direct"]
           new == WithLink(guardian[c.s], Seen(p).guardian[c.s], c.g, c.primary)
<1>1. c.op = "newParent" /\ End(p) /\ UNCHANGED <<student, kin, past, wish, rejoined>>
  BY DEF NewParent, Running
<1>2. /\ c.s \in Students /\ c.g \in Parents /\ <<"student", c.s>> \in run[p].held
      /\ SawStudent(p, c.s) /\ c \in FamilyCommands
  BY <1>1, StudentLocked, GuardianNamed
<1>3. came \in ParentRow
  BY <1>2 DEF ParentRow, PhoneKeys
<1>4. parent' = [parent EXCEPT ![c.g] = came]
  BY DEF NewParent
<1>5. parent' \in [Parents -> ParentRow] /\ OneGuardianPerIntake' /\ SpareIntakes(p)
  <2>1. came.how = "direct"
    OBVIOUS
  <2> HIDE DEF came, c
  <2> QED BY <1>2, <1>3, <1>4, <2>1, ParentChanges
<1>6. new \in [Parents -> Links] /\ guardian' = [guardian EXCEPT ![c.s] = new]
  BY <1>2, LinkedRow DEF NewParent, FamiliesSound, FamilyRowsFit, FamiliesTyped
<1>7. student[c.s] = "active"
  BY <1>2 DEF NewParent, SawStudent
<1>8. SpareStudents(p) /\ FamilyRowsFit'
  <2> HIDE DEF new, c
  <2>1. SpareStudents(p) /\ (parent' \in [Parents -> ParentRow] /\ OneGuardianPerIntake' => FamilyRowsFit')
    BY <1>1, <1>2, <1>6, <1>7, GuardiansChange
  <2> QED BY <1>5, <2>1
<1> QED BY <1>1, <1>5, <1>8, FamilyStep

LEMMA GoneParent ==
    ASSUME FamiliesSound, NEW p \in Instances, NEW g \in Parents,
           parent' = [parent EXCEPT ![g].status = "removed"]
    PROVE  parent' \in [Parents -> ParentRow] /\ OneGuardianPerIntake' /\ SpareIntakes(p)
<1> DEFINE new == [parent[g] EXCEPT !.status = "removed"]
<1>1. parent[g] \in ParentRow /\ parent \in [Parents -> ParentRow]
  BY DEF FamiliesSound, FamilyRowsFit, FamiliesTyped
<1>2. new \in ParentRow /\ new.status = "removed"
  BY <1>1 DEF ParentRow
<1>3. parent' = [parent EXCEPT ![g] = new]
  BY <1>1
<1> HIDE DEF new
<1> QED BY <1>2, <1>3, ParentChanges

LEMMA RemoveGuardianKeeps ==
    ASSUME FamiliesSound, NEW p \in Instances, RemoveGuardian(p)
    PROVE  FamiliesSound'
<1> DEFINE c == run[p].cmd
           new == [guardian[c.s] EXCEPT ![c.g] = "none"]
<1>1. c.op = "removeGuardian" /\ End(p) /\ UNCHANGED <<student, kin, past, wish, rejoined>>
  BY DEF RemoveGuardian, Running
<1>2. c.s \in Students /\ c.g \in Parents /\ <<"student", c.s>> \in run[p].held
  BY <1>1, StudentLocked, GuardianNamed
<1>3. parent' \in [Parents -> ParentRow] /\ OneGuardianPerIntake' /\ SpareIntakes(p)
  <2>1. parent' = [parent EXCEPT ![c.g].status = "removed"] \/ UNCHANGED parent
    BY DEF RemoveGuardian
  <2> HIDE DEF c
  <2> QED BY <1>2, <2>1, GoneParent, ParentsStay
<1>4. guardian \in [Students -> [Parents -> Links]]
  BY DEF FamiliesSound, FamilyRowsFit, FamiliesTyped
<1>5. /\ new \in [Parents -> Links] /\ guardian' = [guardian EXCEPT ![c.s] = new]
      /\ student[c.s] = "removed" /\ c.s \notin rejoined => \A g \in Parents : new[g] = "none"
  BY <1>2, <1>4 DEF RemoveGuardian, FamiliesSound, FamilyRowsFit, RemovedStudentsStayAlone, Unattached, Links
<1>6. SpareStudents(p) /\ FamilyRowsFit'
  <2> HIDE DEF new, c
  <2>1. SpareStudents(p) /\ (parent' \in [Parents -> ParentRow] /\ OneGuardianPerIntake' => FamilyRowsFit')
    BY <1>1, <1>2, <1>5, GuardiansChange
  <2> QED BY <1>3, <2>1
<1> QED BY <1>1, <1>3, <1>6, FamilyStep

LEMMA ParentKeeps ==
    ASSUME FamiliesSound, NEW p \in Instances, RemoveParent(p) \/ EditParent(p)
    PROVE  FamiliesSound'
<1> DEFINE c == run[p].cmd
<1>1. c.op \in {"removeParent", "editParent"} /\ End(p)
      /\ UNCHANGED <<student, guardian, kin, past, wish, rejoined>>
  BY DEF RemoveParent, EditParent, Running
<1>2. c.g \in Parents /\ c \in FamilyCommands
  BY <1>1, GuardianNamed
<1>3. parent' \in [Parents -> ParentRow] /\ OneGuardianPerIntake' /\ SpareIntakes(p)
  <2>1. CASE RemoveParent(p)
    <3>1. parent' = [parent EXCEPT ![c.g].status = "removed"]
      BY <2>1 DEF RemoveParent
    <3> HIDE DEF c
    <3> QED BY <1>2, <3>1, GoneParent
  <2>2. CASE EditParent(p)
    <3> DEFINE new == [status |-> "active", key |-> c.key, how |-> "direct"]
    <3>2. c.key \in PhoneKeys
      BY <1>2 DEF PhoneKeys
    <3>3. new \in ParentRow /\ new.how = "direct"
      BY <3>2 DEF ParentRow
    <3>4. parent' = [parent EXCEPT ![c.g] = new]
      BY <2>2 DEF EditParent
    <3> HIDE DEF new, c
    <3> QED BY <1>2, <3>3, <3>4, ParentChanges
  <2> QED BY <2>1, <2>2
<1>4. SpareStudents(p) /\ FamilyRowsFit'
  BY <1>1, <1>3 DEF FamiliesSound, FamilyRowsFit, FamiliesTyped, PeriodsStayApart, WishesStayRanked,
     RemovedStudentsStayAlone, SpareStudents
<1> QED BY <1>1, <1>3, <1>4, FamilyStep

-----------------------------------------------------------------------------
(* Relatives.                                                              *)
LEMMA SharedRows ==
    ASSUME NEW rows \in [Students -> [Parents -> Links]], NEW both \in SUBSET Students
    PROVE  /\ Shared(rows, both) \in [Students -> [Parents -> Links]]
           /\ \A s \in Students \ both : Shared(rows, both)[s] = rows[s]
BY DEF Shared, Links

LEMMA KinLocked ==
    ASSUME FamiliesSound, NEW p \in Instances, run[p].cmd.op \in {"relate", "part"}
    PROVE  /\ run[p].cmd.kin \in SUBSET Students /\ Cardinality(run[p].cmd.kin) = 2
           /\ \A s \in run[p].cmd.kin : <<"student", s>> \in run[p].held
<1>1. run[p].cmd \in FamilyCommands /\ run[p].held = FamilyKeys(run[p].cmd)
  BY DEF FamiliesSound, FamilySees
<1>2. \A s \in run[p].cmd.kin : <<"student", s>> \in FamilyKeys(run[p].cmd)
  BY DEF FamilyKeys, StudentLock
<1> QED BY <1>1, <1>2, FamilyCommandsAssumption

LEMMA RelateKeeps ==
    ASSUME FamiliesSound, NEW p \in Instances, Relate(p)
    PROVE  FamiliesSound'
<1> DEFINE c == run[p].cmd
<1>1. /\ c.op = "relate" /\ End(p) /\ UNCHANGED <<student, parent, past, wish>>
      /\ kin' = kin \cup {c.kin} /\ rejoined' = rejoined \cup {s \in c.kin : student[s] = "removed"}
      /\ guardian' = IF c.shared THEN Shared(guardian, c.kin) ELSE guardian
  BY DEF Relate, Running
<1>2. /\ c.kin \in SUBSET Students /\ Cardinality(c.kin) = 2
      /\ \A s \in c.kin : <<"student", s>> \in run[p].held
  BY <1>1, KinLocked
<1> HIDE DEF c
<1>3. /\ guardian' \in [Students -> [Parents -> Links]]
      /\ \A s \in Students \ c.kin : guardian'[s] = guardian[s]
  BY <1>1, <1>2, SharedRows DEF FamiliesSound, FamilyRowsFit, FamiliesTyped
<1>4. SpareStudents(p)
  BY <1>1, <1>2, <1>3 DEF SpareStudents
<1>5. RemovedStudentsStayAlone'
  <2> SUFFICES ASSUME NEW s \in Students, student[s] = "removed", s \notin rejoined'
               PROVE  Unattached(s, guardian', kin')
    BY <1>1 DEF RemovedStudentsStayAlone, Unattached
  <2>1. s \notin c.kin /\ s \notin rejoined
    BY <1>1
  <2> QED BY <2>1, <1>1, <1>3 DEF FamiliesSound, FamilyRowsFit, RemovedStudentsStayAlone, Unattached
<1>6. FamilyRowsFit'
  BY <1>1, <1>2, <1>3, <1>5
     DEF FamiliesSound, FamilyRowsFit, FamiliesTyped, PeriodsStayApart, WishesStayRanked, OneGuardianPerIntake
<1>7. SpareIntakes(p)
  BY <1>1, ParentsStay
<1> QED BY <1>1, <1>4, <1>6, <1>7, FamilyStep

LEMMA PartKeeps ==
    ASSUME FamiliesSound, NEW p \in Instances, Part(p)
    PROVE  FamiliesSound'
<1>1. /\ End(p) /\ UNCHANGED <<student, parent, guardian, past, wish, rejoined>>
      /\ kin' \subseteq kin
  BY DEF Part
<1>2. SpareStudents(p) /\ SpareIntakes(p)
  BY <1>1, ParentsStay DEF SpareStudents
<1>3. FamilyRowsFit'
  BY <1>1 DEF FamiliesSound, FamilyRowsFit, FamiliesTyped, PeriodsStayApart, WishesStayRanked,
     OneGuardianPerIntake, RemovedStudentsStayAlone, Unattached
<1> QED BY <1>1, <1>2, <1>3, FamilyStep

-----------------------------------------------------------------------------
(* School history.                                                         *)
LEMMA PastChanges ==
    ASSUME FamiliesSound, NEW p \in Instances, End(p), NEW s \in Students, <<"student", s>> \in run[p].held,
           NEW new \in [Slots -> Periods], Apart(new), past' = [past EXCEPT ![s] = new],
           UNCHANGED <<student, parent, guardian, kin, wish, rejoined>>
    PROVE  FamiliesSound'
<1>1. /\ past' \in [Students -> [Slots -> Periods]] /\ past'[s] = new
      /\ \A r \in Students \ {s} : past'[r] = past[r]
  BY DEF FamiliesSound, FamilyRowsFit, FamiliesTyped
<1>2. SpareStudents(p) /\ SpareIntakes(p)
  BY <1>1, ParentsStay DEF SpareStudents
<1>3. PeriodsStayApart'
  BY <1>1 DEF FamiliesSound, FamilyRowsFit, PeriodsStayApart
<1>4. FamilyRowsFit'
  BY <1>1, <1>3 DEF FamiliesSound, FamilyRowsFit, FamiliesTyped, WishesStayRanked,
     OneGuardianPerIntake, RemovedStudentsStayAlone, Unattached
<1> QED BY <1>2, <1>4, FamilyStep

(* A period that fits beside the others may take a row.                    *)
LEMMA FittedApart ==
    ASSUME NEW rows \in [Slots -> Periods], Apart(rows), NEW i \in Slots, NEW period \in Periods,
           Fits(rows, period, {i})
    PROVE  [rows EXCEPT ![i] = period] \in [Slots -> Periods] /\ Apart([rows EXCEPT ![i] = period])
BY DEF Apart, Fits, Overlap

LEMMA EmptiedApart ==
    ASSUME NEW rows \in [Slots -> Periods], Apart(rows), NEW i \in Slots
    PROVE  [rows EXCEPT ![i] = NoPeriod] \in [Slots -> Periods] /\ Apart([rows EXCEPT ![i] = NoPeriod])
BY DEF Apart, NoPeriod, Periods

LEMMA ClosedApart ==
    ASSUME NEW rows \in [Slots -> Periods], Apart(rows)
    PROVE  /\ Closed(rows) \in [Slots -> Periods] /\ Apart(Closed(rows))
           /\ \A i \in Slots : rows[i] = NoPeriod => Closed(rows)[i] = NoPeriod
<1>1. Today \in Nat \ {0}
  BY FamilyCommandsAssumption
<1>2. \A a \in Periods : Covers(a, Today) =>
          LET b == [a EXCEPT !.to = Today - 1] IN b \in Periods /\ b.from = a.from /\ b.to = Today - 1 /\ b.to < a.to
  BY <1>1 DEF Periods, Covers
<1>3. \A i \in Slots : /\ Closed(rows)[i] \in Periods /\ Closed(rows)[i].from = rows[i].from
                       /\ Closed(rows)[i].to <= rows[i].to
  BY <1>1, <1>2 DEF Closed, Periods
<1>4. \A i \in Slots : rows[i] = NoPeriod => Closed(rows)[i] = NoPeriod
  BY <1>1 DEF Closed, NoPeriod, Covers
<1>5. \A i, j \in Slots : Overlap(Closed(rows)[i], Closed(rows)[j]) => Overlap(rows[i], rows[j])
  BY <1>3 DEF Overlap, Periods
<1>6. Closed(rows) \in [Slots -> Periods]
  BY <1>3 DEF Closed
<1> QED BY <1>4, <1>5, <1>6 DEF Apart

LEMMA PastKeeps ==
    ASSUME FamiliesSound, NEW p \in Instances, AddPast(p) \/ EditPast(p) \/ DropPast(p) \/ NewGrade(p)
    PROVE  FamiliesSound'
<1> DEFINE c == run[p].cmd
           rows == past[c.s]
<1>1. c.op \in {"addPast", "editPast", "dropPast", "newGrade"} /\ End(p)
      /\ UNCHANGED <<student, parent, guardian, kin, wish, rejoined>>
  BY DEF AddPast, EditPast, DropPast, NewGrade, Running
<1>2. /\ c \in FamilyCommands /\ c.s \in Students /\ <<"student", c.s>> \in run[p].held
      /\ Seen(p).past[c.s] = rows
  BY <1>1, StudentLocked DEF SawStudent
<1>3. rows \in [Slots -> Periods] /\ Apart(rows) /\ past \in [Students -> [Slots -> Periods]]
  BY <1>2 DEF FamiliesSound, FamilyRowsFit, FamiliesTyped, PeriodsStayApart
<1>4. ASSUME NEW new \in [Slots -> Periods], Apart(new), past' = [past EXCEPT ![c.s] = new]
      PROVE  FamiliesSound'
  <2> HIDE DEF c
  <2> QED BY <1>1, <1>2, <1>4, PastChanges
<1>5. CASE AddPast(p)
  <2>1. PICK i \in Slots : past' = [past EXCEPT ![c.s][i] = c.period]
    BY <1>5 DEF AddPast
  <2>2. c.period \in Periods /\ Fits(rows, c.period, {i})
    BY <1>1, <1>2, <1>5, FamilyCommandsAssumption DEF AddPast, Running, Periods, Fits
  <2>3. past' = [past EXCEPT ![c.s] = [rows EXCEPT ![i] = c.period]]
    BY <2>1, <1>2, <1>3
  <2> QED BY <1>3, <1>4, <2>2, <2>3, FittedApart
<1>6. CASE EditPast(p)
  <2>1. c.period \in Periods /\ c.row \in Slots /\ Fits(rows, c.period, {c.row})
    BY <1>2, <1>6, FamilyCommandsAssumption DEF EditPast, Running, Periods
  <2>2. past' = [past EXCEPT ![c.s] = [rows EXCEPT ![c.row] = c.period]]
    BY <1>2, <1>3, <1>6 DEF EditPast
  <2> QED BY <1>3, <1>4, <2>1, <2>2, FittedApart
<1>7. CASE DropPast(p)
  <2>1. c.row \in Slots
    BY <1>2, <1>7, FamilyCommandsAssumption DEF DropPast, Running
  <2>2. past' = [past EXCEPT ![c.s] = [rows EXCEPT ![c.row] = NoPeriod]]
    BY <1>2, <1>3, <1>7 DEF DropPast
  <2> QED BY <1>3, <1>4, <2>1, <2>2, EmptiedApart
<1>8. CASE NewGrade(p)
  <2>1. CASE UNCHANGED past
    <3>1. SpareStudents(p) /\ SpareIntakes(p) /\ FamilyRowsFit'
      BY <1>1, <2>1, ParentsStay DEF SpareStudents, FamiliesSound, FamilyRowsFit, FamiliesTyped, PeriodsStayApart,
         WishesStayRanked, OneGuardianPerIntake, RemovedStudentsStayAlone
    <3> QED BY <1>1, <3>1, FamilyStep
  <2>2. ASSUME NEW i \in Slots, Fits(Closed(rows), SinceToday, {}),
               past' = [past EXCEPT ![c.s] = [Closed(@) EXCEPT ![i] = SinceToday]]
        PROVE  FamiliesSound'
    <3>1. SinceToday \in Periods /\ Fits(Closed(rows), SinceToday, {i})
      BY <2>2, FamilyCommandsAssumption DEF SinceToday, Periods, Fits
    <3>2. past' = [past EXCEPT ![c.s] = [Closed(rows) EXCEPT ![i] = SinceToday]]
      BY <2>2, <1>2, <1>3
    <3>3. Closed(rows) \in [Slots -> Periods] /\ Apart(Closed(rows))
      BY <1>3, ClosedApart
    <3> HIDE DEF rows, c
    <3> QED BY <1>4, <3>1, <3>2, <3>3, FittedApart
  <2> QED BY <1>2, <1>8, <2>1, <2>2 DEF NewGrade
<1> QED BY <1>5, <1>6, <1>7, <1>8

-----------------------------------------------------------------------------
(* Wishes.                                                                 *)
LEMMA WishesChange ==
    ASSUME FamiliesSound, NEW p \in Instances, End(p), NEW s \in Students, <<"student", s>> \in run[p].held,
           NEW new \in [Targets -> Nat], Ranked(new), student[s] = "active", wish' = [wish EXCEPT ![s] = new],
           UNCHANGED <<student, parent, guardian, kin, past, rejoined>>
    PROVE  FamiliesSound'
<1>1. /\ wish' \in [Students -> [Targets -> Nat]] /\ wish'[s] = new
      /\ \A r \in Students \ {s} : wish'[r] = wish[r]
  BY DEF FamiliesSound, FamilyRowsFit, FamiliesTyped
<1>2. SpareStudents(p) /\ SpareIntakes(p)
  BY <1>1, ParentsStay DEF SpareStudents
<1>3. WishesStayRanked'
  <2>1. \A r \in Students \ {s} : Ranked(wish'[r]) /\ (student'[r] = "removed" => Wished(wish'[r]) = {})
    BY <1>1 DEF FamiliesSound, FamilyRowsFit, WishesStayRanked
  <2>2. Ranked(wish'[s]) /\ student'[s] # "removed"
    BY <1>1
  <2> QED BY <2>1, <2>2 DEF WishesStayRanked
<1>4. FamilyRowsFit'
  BY <1>1, <1>3 DEF FamiliesSound, FamilyRowsFit, FamiliesTyped, PeriodsStayApart,
     OneGuardianPerIntake, RemovedStudentsStayAlone, Unattached
<1> QED BY <1>2, <1>4, FamilyStep

LEMMA DroppedWish ==
    ASSUME NEW row \in [Targets -> Nat], Ranked(row), NEW t \in Targets, NEW new,
           new = [x \in Targets |-> IF x = t THEN 0 ELSE IF row[x] > 0 THEN Without(row, t)[x] ELSE row[x]]
    PROVE  new \in [Targets -> Nat] /\ Ranked(new)
<1> DEFINE W == Placed(Targets, row) \ {t}
<1>1. \A x \in Targets \ {t} : Without(row, t)[x] = Cardinality(Upto(W, row, x))
  BY DEF Without, Upto, Wished, Placed
<1>2. \A x \in Targets : Cardinality(Upto(W, row, x)) \in Nat
  <2> TAKE x \in Targets
  <2>1. Upto(W, row, x) \in SUBSET Targets
    BY DEF Upto, Placed
  <2> QED BY <2>1, FS_Subset, FS_CardinalityType, FamilyCommandsAssumption
<1> HIDE DEF W
<1>3. new \in [Targets -> Nat] /\ new[t] = 0
  BY <1>1, <1>2
<1>4. \A x \in Targets \ {t} : new[x] = IF row[x] > 0 THEN Cardinality(Upto(W, row, x)) ELSE 0
  BY <1>1
<1>5. \A f : Ranked(f) <=> Dense(Targets, f)
  BY DEF Ranked, Wished, Dense, Placed
<1>6. Dense(Targets, new)
  BY <1>3, <1>4, <1>5, MovedUp, FamilyCommandsAssumption DEF W
<1> QED BY <1>3, <1>5, <1>6

LEMMA WishKeeps ==
    ASSUME FamiliesSound, NEW p \in Instances, SetWishes(p) \/ AddWish(p) \/ DropWish(p)
    PROVE  FamiliesSound'
<1> DEFINE c == run[p].cmd
           row == wish[c.s]
<1>1. c.op \in {"setWishes", "addWish", "dropWish"} /\ End(p)
      /\ UNCHANGED <<student, parent, guardian, kin, past, rejoined>> /\ Seen(p).student[c.s] = "active"
  BY DEF SetWishes, AddWish, DropWish, Running
<1>2. /\ c \in FamilyCommands /\ c.s \in Students /\ <<"student", c.s>> \in run[p].held
      /\ Seen(p).wish[c.s] = row /\ student[c.s] = "active"
  BY <1>1, StudentLocked DEF SawStudent
<1>3. row \in [Targets -> Nat] /\ Ranked(row) /\ wish \in [Students -> [Targets -> Nat]]
  BY <1>2 DEF FamiliesSound, FamilyRowsFit, FamiliesTyped, WishesStayRanked
<1>4. ASSUME NEW new \in [Targets -> Nat], Ranked(new), wish' = [wish EXCEPT ![c.s] = new]
      PROVE  FamiliesSound'
  <2> HIDE DEF c
  <2> QED BY <1>1, <1>2, <1>4, WishesChange
<1>5. CASE SetWishes(p)
  <2>1. c.wishes \in [Targets -> Nat] /\ Ranked(c.wishes) /\ wish' = [wish EXCEPT ![c.s] = c.wishes]
    BY <1>2, <1>5, FamilyCommandsAssumption DEF SetWishes, Running
  <2> QED BY <1>4, <2>1
<1>6. CASE AddWish(p)
  <2> DEFINE new == [row EXCEPT ![c.t] = c.rank]
  <2>1. new \in [Targets -> Nat]
    BY <1>2, <1>3, <1>6, FamilyCommandsAssumption DEF AddWish, Running
  <2>2. Ranked(new) /\ wish' = [wish EXCEPT ![c.s] = new]
    BY <1>2, <1>3, <1>6 DEF AddWish
  <2> HIDE DEF new
  <2> QED BY <1>4, <2>1, <2>2
<1>7. CASE DropWish(p)
  <2> DEFINE new == [x \in Targets |-> IF x = c.t THEN 0 ELSE IF row[x] > 0 THEN Without(row, c.t)[x] ELSE row[x]]
  <2>1. c.t \in Targets
    BY <1>2, <1>7, FamilyCommandsAssumption DEF DropWish, Running
  <2>2. wish' = [wish EXCEPT ![c.s] = new]
    BY <1>2, <1>3, <1>7 DEF DropWish
  <2> HIDE DEF row, c
  <2>3. new \in [Targets -> Nat] /\ Ranked(new)
    BY <1>3, <2>1, DroppedWish
  <2> HIDE DEF new
  <2> QED BY <1>4, <2>2, <2>3
<1> QED BY <1>5, <1>6, <1>7

LEMMA NoWishes ==
    ASSUME NEW new, \A t \in Targets : new[t] = 0
    PROVE  Ranked(new) /\ Wished(new) = {}
<1>1. Wished(new) = {}
  BY DEF Wished
<1>2. Cardinality({}) = 0 /\ 1 .. 0 = {}
  BY FS_EmptySet
<1> QED BY <1>1, <1>2 DEF Ranked

-----------------------------------------------------------------------------
(* A student comes with his family, or leaves it.                          *)
LEMMA RegisterLocks ==
    ASSUME FamiliesSound, NEW p \in Instances, run[p].cmd.op = "register"
    PROVE  LET c == run[p].cmd IN
           /\ c \in FamilyCommands /\ c.s \in Students /\ c.kin \in SUBSET (Students \ {c.s})
           /\ c.wishes \in [Targets -> Nat] /\ c.key \in PhoneKeys
           /\ \A s \in c.kin \cup {c.s} : <<"student", s>> \in run[p].held
           /\ c.key \notin {"none", "blank"} => <<"parentIntake", c.key>> \in run[p].held
<1> DEFINE c == run[p].cmd
<1>1. c \in FamilyCommands /\ run[p].held = FamilyKeys(c)
  BY DEF FamiliesSound, FamilySees
<1>2. c.s \in Students /\ c.kin \in SUBSET (Students \ {c.s}) /\ c.wishes \in [Targets -> Nat]
  BY <1>1, FamilyCommandsAssumption
<1>3. \A s \in c.kin \cup {c.s} : <<"student", s>> \in FamilyKeys(c)
  BY DEF FamilyKeys, StudentLock
<1>4. c.key \notin {"none", "blank"} => <<"parentIntake", c.key>> \in FamilyKeys(c)
  BY DEF FamilyKeys, IntakeLock
<1>5. c.key \in PhoneKeys
  BY <1>1 DEF PhoneKeys
<1> QED BY <1>1, <1>2, <1>3, <1>4, <1>5

(* attachGuardianInTx: who made the intake's guardian held its number.     *)
LEMMA AttachKeeps ==
    ASSUME FamiliesSound, NEW p \in Instances, run[p].cmd.op = "register", run[p].cmd.key # "none",
           NEW g \in Parents, Attach(p, g)
    PROVE  parent' \in [Parents -> ParentRow] /\ OneGuardianPerIntake' /\ SpareIntakes(p)
<1> DEFINE key == run[p].cmd.key
           new == [status |-> "active", key |-> key, how |-> "intake"]
<1>1. key \in PhoneKeys /\ (key # "blank" => <<"parentIntake", key>> \in run[p].held)
  BY RegisterLocks
<1>2. parent \in [Parents -> ParentRow] /\ OneEach(parent)
  BY DEF FamiliesSound, FamilyRowsFit, FamiliesTyped, OneGuardianPerIntake
<1>3. CASE UNCHANGED parent
  BY <1>3, ParentsStay
<1>4. CASE Known(Seen(p).parent, key) = {} /\ parent' = [parent EXCEPT ![g] = new]
  <2>1. new \in ParentRow
    BY <1>1 DEF ParentRow
  <2> HIDE DEF new
  <2>2. /\ parent' \in [Parents -> ParentRow] /\ parent'[g] = new
        /\ \A h \in Parents \ {g} : parent'[h] = parent[h]
    BY <1>2, <1>4, <2>1
  <2>3. key # "blank" => \A h \in Parents : ~MadeFor(parent, h, key)
    <3>1. key # "blank" => SawIntake(p, key)
      BY <1>1 DEF FamiliesSound, FamilySees
    <3> QED BY <1>4, <3>1 DEF Known, SawIntake
  <2>4. OneEach(parent')
    <3>1. new.key = key
      BY DEF new
    <3> QED BY <1>2, <2>2, <2>3, <3>1 DEF OneEach, MadeFor
  <2>5. SpareIntakes(p)
    <3> SUFFICES ASSUME NEW k \in PhoneKeys \ {"blank"}, <<"parentIntake", k>> \notin run[p].held, NEW h \in Parents,
                        MadeFor(parent', h, k)
                 PROVE  MadeFor(parent, h, k)
      BY DEF SpareIntakes
    <3>1. CASE h # g
      BY <2>2, <3>1 DEF MadeFor
    <3>2. CASE h = g
      <4>1. k = key
        BY <2>2, <3>2 DEF MadeFor, new
      <4> QED BY <1>1, <4>1
    <3> QED BY <3>1, <3>2
  <2> QED BY <2>2, <2>4, <2>5 DEF OneGuardianPerIntake
<1> QED BY <1>3, <1>4 DEF Attach

LEMMA JoinedRows ==
    ASSUME NEW c, NEW rows \in [Students -> [Parents -> Links]], c.s \in Students, c.kin \in SUBSET Students
    PROVE  /\ JoinedBy(c, rows) \in [Students -> [Parents -> Links]]
           /\ \A r \in Students \ (c.kin \cup {c.s}) : JoinedBy(c, rows)[r] = rows[r]
<1>1. c.kin \cup {c.s} \in SUBSET Students
  OBVIOUS
<1> QED BY <1>1, SharedRows DEF JoinedBy

LEMMA RegisterKeeps ==
    ASSUME FamiliesSound, NEW p \in Instances, Register(p)
    PROVE  FamiliesSound'
<1> DEFINE c == run[p].cmd
           first == [i \in Slots |-> IF i = 1 THEN SinceToday ELSE NoPeriod]
<1>1. /\ c.op = "register" /\ End(p) /\ Ranked(c.wishes)
      /\ student' = [student EXCEPT ![c.s] = "active"] /\ student[c.s] = "absent"
      /\ past' = [past EXCEPT ![c.s] = first] /\ wish' = [wish EXCEPT ![c.s] = c.wishes]
      /\ kin' = kin \cup {{c.s, r} : r \in c.kin}
      /\ rejoined' = rejoined \cup {s \in c.kin : student[s] = "removed"}
  BY DEF Register, Running
<1>2. /\ c.s \in Students /\ c.kin \in SUBSET (Students \ {c.s}) /\ c.wishes \in [Targets -> Nat]
      /\ \A s \in c.kin \cup {c.s} : <<"student", s>> \in run[p].held
  BY <1>1, RegisterLocks
<1>3. FamiliesTyped
  BY DEF FamiliesSound, FamilyRowsFit
<1>4. /\ guardian' \in [Students -> [Parents -> Links]]
      /\ \A r \in Students \ (c.kin \cup {c.s}) : guardian'[r] = guardian[r]
  <2> HIDE DEF c
  <2>1. CASE guardian' = JoinedBy(c, guardian)
    BY <1>2, <1>3, <2>1, JoinedRows DEF FamiliesTyped
  <2>2. ASSUME NEW g \in Parents, guardian' = JoinedBy(c, [guardian EXCEPT ![c.s][g] = "primary"])
        PROVE  /\ guardian' \in [Students -> [Parents -> Links]]
               /\ \A r \in Students \ (c.kin \cup {c.s}) : guardian'[r] = guardian[r]
    <3> DEFINE rows == [guardian EXCEPT ![c.s][g] = "primary"]
    <3>1. /\ rows \in [Students -> [Parents -> Links]]
          /\ \A r \in Students \ {c.s} : rows[r] = guardian[r]
      BY <1>2, <1>3 DEF FamiliesTyped, Links
    <3>2. guardian' = JoinedBy(c, rows)
      BY <2>2
    <3> HIDE DEF rows
    <3> QED BY <1>2, <3>1, <3>2, JoinedRows
  <2> QED BY <2>1, <2>2 DEF Register, c
<1>5. parent' \in [Parents -> ParentRow] /\ OneGuardianPerIntake' /\ SpareIntakes(p)
  <2>1. UNCHANGED parent \/ (c.key # "none" /\ \E g \in Parents : Attach(p, g))
    BY DEF Register
  <2> QED BY <1>1, <2>1, AttachKeeps, ParentsStay
<1>6. first \in [Slots -> Periods] /\ Apart(first)
  <2>1. SinceToday \in Periods /\ NoPeriod \in Periods
    BY FamilyCommandsAssumption DEF SinceToday, NoPeriod, Periods
  <2> QED BY <2>1 DEF Apart
<1> HIDE DEF c, first
<1>7. /\ student' \in [Students -> {"absent", "active", "removed"}] /\ student'[c.s] = "active"
      /\ past' \in [Students -> [Slots -> Periods]] /\ past'[c.s] = first
      /\ wish' \in [Students -> [Targets -> Nat]] /\ wish'[c.s] = c.wishes
      /\ \A r \in Students \ {c.s} : student'[r] = student[r] /\ past'[r] = past[r] /\ wish'[r] = wish[r]
  BY <1>1, <1>2, <1>3, <1>6 DEF FamiliesTyped
<1>8. \A k \in kin' \ kin : /\ k \in SUBSET (c.kin \cup {c.s}) /\ Cardinality(k) = 2
  <2> TAKE k \in kin' \ kin
  <2>1. PICK r \in c.kin : k = {c.s, r}
    BY <1>1
  <2>2. k = {c.s} \cup {r} /\ r \notin {c.s}
    BY <1>2, <2>1
  <2>3. IsFiniteSet({c.s}) /\ Cardinality({c.s}) = 1
    BY FS_Singleton
  <2>4. Cardinality({c.s} \cup {r}) = 2
    BY <2>2, <2>3, FS_AddElement
  <2> QED BY <2>1, <2>2, <2>4
<1>9. SpareStudents(p)
  BY <1>2, <1>4, <1>7, <1>8 DEF SpareStudents
<1>10. PeriodsStayApart'
  BY <1>6, <1>7 DEF FamiliesSound, FamilyRowsFit, PeriodsStayApart
<1>11. WishesStayRanked'
  <2>1. \A r \in Students \ {c.s} : Ranked(wish'[r]) /\ (student'[r] = "removed" => Wished(wish'[r]) = {})
    BY <1>7 DEF FamiliesSound, FamilyRowsFit, WishesStayRanked
  <2>2. Ranked(wish'[c.s]) /\ student'[c.s] # "removed"
    BY <1>1, <1>7
  <2> QED BY <2>1, <2>2 DEF WishesStayRanked
<1>12. RemovedStudentsStayAlone'
  <2> SUFFICES ASSUME NEW r \in Students, student'[r] = "removed", r \notin rejoined'
               PROVE  Unattached(r, guardian', kin')
    BY DEF RemovedStudentsStayAlone, Unattached
  <2>1. r # c.s /\ student[r] = "removed" /\ r \notin c.kin /\ r \notin rejoined
    BY <1>1, <1>7
  <2> QED BY <2>1, <1>4, <1>8 DEF FamiliesSound, FamilyRowsFit, RemovedStudentsStayAlone, Unattached
<1>13. FamilyRowsFit'
  <2>1. \A k \in kin' : k \in SUBSET Students /\ Cardinality(k) = 2
    BY <1>2, <1>3, <1>8 DEF FamiliesTyped
  <2> QED BY <1>4, <1>5, <1>7, <1>10, <1>11, <1>12, <2>1 DEF FamilyRowsFit, FamiliesTyped
<1> QED BY <1>1, <1>5, <1>9, <1>13, FamilyStep

LEMMA RemoveStudentKeeps ==
    ASSUME FamiliesSound, NEW p \in Instances, RemoveStudent(p)
    PROVE  FamiliesSound'
<1> DEFINE c == run[p].cmd
           s == c.s
           noWish == [t \in Targets |-> 0]
           noLink == [g \in Parents |-> "none"]
           noPast == [i \in Slots |-> NoPeriod]
<1>1. c.op = "removeStudent" /\ End(p) /\ UNCHANGED <<parent, rejoined>>
  BY DEF RemoveStudent, Running
<1>2. s \in Students /\ <<"student", s>> \in run[p].held /\ SawStudent(p, s)
  BY <1>1, StudentLocked
<1>3. FamiliesTyped
  BY DEF FamiliesSound, FamilyRowsFit
<1>4. /\ student' = [student EXCEPT ![s] = "removed"] /\ wish' = [wish EXCEPT ![s] = noWish]
      /\ guardian' = [guardian EXCEPT ![s] = noLink] /\ past' = [past EXCEPT ![s] = noPast]
      /\ kin' = {k \in kin : s \notin k}
  <2>1. student' = [student EXCEPT ![s] = "removed"]
    BY DEF RemoveStudent
  <2>2. wish' = [wish EXCEPT ![s] = noWish]
    <3>1. \A t \in Targets : wish[s][t] \in Nat
      BY <1>2, <1>3 DEF FamiliesTyped
    <3>2. [t \in Targets |-> IF wish[s][t] > 0 THEN 0 ELSE wish[s][t]] = noWish
      BY <3>1
    <3> QED BY <1>2, <1>3, <3>2 DEF RemoveStudent, SawStudent, FamiliesTyped
  <2>3. guardian' = [guardian EXCEPT ![s] = noLink]
    <3>1. [g \in Parents |-> IF guardian[s][g] # "none" THEN "none" ELSE guardian[s][g]] = noLink
      OBVIOUS
    <3>2. guardian' = [guardian EXCEPT ![s] = [g \in Parents |-> IF Seen(p).guardian[s][g] # "none" THEN "none" ELSE @[g]]]
      BY DEF RemoveStudent
    <3>3. Seen(p).guardian[s] = guardian[s] /\ guardian \in [Students -> [Parents -> Links]]
      BY <1>2, <1>3 DEF SawStudent, FamiliesTyped
    <3> HIDE DEF s, noLink
    <3> QED BY <1>2, <3>1, <3>2, <3>3
  <2>4. past' = [past EXCEPT ![s] = noPast]
    <3>1. [i \in Slots |-> IF past[s][i] # NoPeriod THEN NoPeriod ELSE past[s][i]] = noPast
      OBVIOUS
    <3> QED BY <1>2, <1>3, <3>1 DEF RemoveStudent, SawStudent, FamiliesTyped
  <2>5. kin' = {k \in kin : s \notin k}
    BY <1>2 DEF RemoveStudent, SawStudent
  <2> QED BY <2>1, <2>2, <2>3, <2>4, <2>5
<1>5. Ranked(noWish) /\ Wished(noWish) = {} /\ noWish \in [Targets -> Nat]
  <2> HIDE DEF c
  <2> QED BY NoWishes
<1>6. noLink \in [Parents -> Links] /\ noPast \in [Slots -> Periods] /\ Apart(noPast)
  BY DEF Links, Periods, NoPeriod, Apart
<1>7. \A g \in Parents : noLink[g] = "none"
  OBVIOUS
<1> HIDE DEF noWish, noLink, noPast, s
<1>8. /\ student' \in [Students -> {"absent", "active", "removed"}]
      /\ guardian' \in [Students -> [Parents -> Links]] /\ guardian'[s] = noLink
      /\ past' \in [Students -> [Slots -> Periods]] /\ past'[s] = noPast
      /\ wish' \in [Students -> [Targets -> Nat]] /\ wish'[s] = noWish
      /\ \A r \in Students \ {s} : /\ student'[r] = student[r] /\ past'[r] = past[r] /\ wish'[r] = wish[r]
                                   /\ guardian'[r] = guardian[r]
  BY <1>2, <1>3, <1>4, <1>5, <1>6 DEF FamiliesTyped
<1>9. SpareStudents(p) /\ SpareIntakes(p)
  BY <1>1, <1>2, <1>4, <1>8, ParentsStay DEF SpareStudents
<1>10. PeriodsStayApart'
  BY <1>6, <1>8 DEF FamiliesSound, FamilyRowsFit, PeriodsStayApart
<1>11. WishesStayRanked'
  <2>1. \A r \in Students \ {s} : Ranked(wish'[r]) /\ (student'[r] = "removed" => Wished(wish'[r]) = {})
    BY <1>8 DEF FamiliesSound, FamilyRowsFit, WishesStayRanked
  <2>2. Ranked(wish'[s]) /\ Wished(wish'[s]) = {}
    BY <1>5, <1>8
  <2> QED BY <2>1, <2>2 DEF WishesStayRanked
<1>12. RemovedStudentsStayAlone'
  <2>1. Unattached(s, guardian', kin')
    BY <1>4, <1>7, <1>8 DEF Unattached
  <2>2. \A r \in Students \ {s} : student'[r] = "removed" /\ r \notin rejoined' => Unattached(r, guardian', kin')
    BY <1>1, <1>4, <1>8 DEF FamiliesSound, FamilyRowsFit, RemovedStudentsStayAlone, Unattached
  <2> QED BY <2>1, <2>2 DEF RemovedStudentsStayAlone, Unattached
<1>13. FamilyRowsFit'
  BY <1>1, <1>3, <1>4, <1>8, <1>10, <1>11, <1>12, ParentsStay DEF FamilyRowsFit, FamiliesTyped
<1> QED BY <1>1, <1>9, <1>13, FamilyStep

-----------------------------------------------------------------------------
LEMMA FamiliesInitSound == NothingRuns /\ FamiliesInit => FamiliesSound
<1> SUFFICES ASSUME NothingRuns, FamiliesInit PROVE FamiliesSound
  OBVIOUS
<1>1. \A p \in Instances : run[p] = Idle
  BY DEF NothingRuns
<1>2. DOMAIN run = Instances /\ LocksExclude /\ \A p \in Instances : FamilySees(p)
  BY <1>1 DEF NothingRuns, LocksExclude, FamilySees, Idle, NoCommand
<1>3. PICK seed \in FamilySeeds :
         /\ student = seed.student /\ parent = seed.parent /\ guardian = seed.guardian
         /\ kin = seed.kin /\ past = seed.past /\ wish = seed.wish
  BY DEF FamiliesInit
<1>4. {seed.parent[g].key : g \in Parents} \subseteq PhoneKeys
  BY <1>3 DEF PhoneKeys
<1>5. parent \in [Parents -> ParentRow]
  <2> DEFINE keys == {seed.parent[g].key : g \in Parents}
  <2>1. seed.parent \in [Parents -> [status : {"absent", "active", "removed"},
                                      how : {"none", "direct", "intake"}, key : keys]]
    BY <1>3, FamilySeedsAssumption
  <2> HIDE DEF keys
  <2>2. keys \subseteq PhoneKeys
    BY <1>4 DEF keys
  <2> QED BY <1>3, <2>1, <2>2 DEF ParentRow
<1>6. FamiliesTyped
  BY <1>3, <1>5, FamilySeedsAssumption DEF FamiliesTyped, Links, Periods
<1>7. PeriodsStayApart /\ WishesStayRanked /\ OneGuardianPerIntake /\ RemovedStudentsStayAlone
  BY <1>3, FamilySeedsAssumption
     DEF PeriodsStayApart, WishesStayRanked, OneGuardianPerIntake, RemovedStudentsStayAlone
<1> QED BY <1>2, <1>6, <1>7 DEF FamiliesSound, FamilyRowsFit

LEMMA FamiliesNextKeeps == ASSUME FamiliesSound, FamiliesNext PROVE FamiliesSound'
<1>1. ASSUME NEW p \in Instances, RefuseFamilyCommand(p) PROVE FamiliesSound'
  <2>1. End(p) /\ UNCHANGED familyVars
    BY <1>1 DEF RefuseFamilyCommand, Abort
  <2>2. FamilyRowsFit' /\ SpareStudents(p) /\ SpareIntakes(p)
    BY <2>1, RowsStay DEF FamiliesSound
  <2> QED BY <2>1, <2>2, FamilyStep
<1> QED BY <1>1, BeginFamilyKeeps, LinkKeeps, NewParentKeeps, RemoveGuardianKeeps, ParentKeeps, RelateKeeps,
        PartKeeps, PastKeeps, WishKeeps, RegisterKeeps, RemoveStudentKeeps DEF FamiliesNext

-----------------------------------------------------------------------------
(* Staff.                                                                  *)
ContractRow == [from : Nat, to : Nat, active : BOOLEAN, version : Nat]

StaffRowsFit ==
    /\ contract \in [Teachers -> [ContractSlots -> ContractRow]]
    /\ present \in [Teachers -> {"none", "present", "absent"}]
    /\ StaffingTypeOK /\ ContractsStayApart

(* A teacher's contracts are as the command saw them that holds his key.   *)
SawContracts(p) ==
    run[p].cmd.op # "none" =>
        /\ run[p].cmd \in StaffCommands /\ run[p].held = StaffKeys(run[p].cmd)
        /\ run[p].cmd.op \in {"contract", "amend"} =>
             Was(p).contract[run[p].cmd.t] = contract[run[p].cmd.t]

StaffSound ==
    /\ DOMAIN run = Instances /\ LocksExclude /\ StaffRowsFit
    /\ \A p \in Instances : SawContracts(p)

(* The contracts of a teacher change by a command that holds his key.      *)
SpareContracts(p) ==
    \A t \in Teachers : <<"instructor", t>> \notin run[p].held => contract'[t] = contract[t]

LEMMA OthersSawContracts ==
    ASSUME StaffSound, NEW p \in Instances, SpareContracts(p),
           NEW q \in Instances \ {p}, run'[q] = run[q]
    PROVE  SawContracts(q)'
<1> SUFFICES ASSUME run[q].cmd.op \in {"contract", "amend"}
             PROVE  contract'[run[q].cmd.t] = contract[run[q].cmd.t]
  BY DEF StaffSound, SawContracts, Was
<1>1. run[q].cmd.t \in Teachers /\ <<"instructor", run[q].cmd.t>> \in run[q].held
  BY StaffCommandsAssumption DEF StaffSound, SawContracts, StaffKeys
<1> QED BY <1>1, HeldAlone DEF SpareContracts, StaffSound

LEMMA StaffStep ==
    ASSUME StaffSound, NEW p \in Instances, End(p), StaffRowsFit', SpareContracts(p)
    PROVE  StaffSound'
<1>1. /\ DOMAIN run' = Instances /\ LocksExclude' /\ run'[p].cmd = NoCommand
      /\ \A q \in Instances \ {p} : run'[q] = run[q]
  BY Ended DEF StaffSound
<1>2. SawContracts(p)'
  BY <1>1 DEF SawContracts, NoCommand
<1> QED BY <1>1, <1>2, OthersSawContracts DEF StaffSound

LEMMA StaffRowsStay ==
    ASSUME StaffRowsFit, UNCHANGED <<employed, contract, present>>
    PROVE  StaffRowsFit' /\ \A p \in Instances : SpareContracts(p)
BY DEF StaffRowsFit, StaffingTypeOK, ContractsStayApart, SpareContracts

LEMMA BeginStaffKeeps ==
    ASSUME StaffSound, NEW p \in Instances, BeginStaffCommand(p)
    PROVE  StaffSound'
<1> DEFINE saw == [employed |-> employed, contract |-> contract, present |-> present]
<1>1. PICK c \in StaffCommands : Begin(p, c, StaffKeys(c), saw)
  BY DEF BeginStaffCommand, KeysOfStaffCommand
<1>2. UNCHANGED <<employed, contract, present>>
  BY DEF BeginStaffCommand
<1>3. /\ DOMAIN run' = Instances /\ LocksExclude'
      /\ run'[p].cmd = c /\ run'[p].held = StaffKeys(c) /\ run'[p].saw = saw
      /\ \A q \in Instances \ {p} : run'[q] = run[q]
  <2> HIDE DEF saw
  <2> QED BY <1>1, Begun DEF StaffSound
<1>4. StaffRowsFit' /\ SpareContracts(p)
  BY <1>2, StaffRowsStay DEF StaffSound
<1>5. SawContracts(p)'
  BY <1>1, <1>2, <1>3 DEF SawContracts, Was
<1> QED BY <1>3, <1>4, <1>5, OthersSawContracts DEF StaffSound

LEMMA ContractsChange ==
    ASSUME StaffSound, NEW p \in Instances, End(p), NEW t \in Teachers, <<"instructor", t>> \in run[p].held,
           NEW i \in ContractSlots, NEW new \in ContractRow, new.from <= new.to,
           contract' = [contract EXCEPT ![t][i] = new],
           new.active => \A j \in ContractSlots \ {i} : contract[t][j].active => ~Meets(contract[t][j], new),
           UNCHANGED <<employed, present>>
    PROVE  StaffSound'
<1>1. contract \in [Teachers -> [ContractSlots -> ContractRow]]
  BY DEF StaffSound, StaffRowsFit
<1>2. /\ contract' \in [Teachers -> [ContractSlots -> ContractRow]] /\ contract'[t][i] = new
      /\ \A j \in ContractSlots \ {i} : contract'[t][j] = contract[t][j]
      /\ \A u \in Teachers \ {t} : contract'[u] = contract[u]
  BY <1>1
<1>3. \A a, b : Meets(a, b) <=> Meets(b, a)
  BY DEF Meets
<1>4. ContractsStayApart'
  <2> SUFFICES ASSUME NEW u \in Teachers, NEW j \in ContractSlots, NEW k \in ContractSlots, j # k,
                      contract'[u][j].active, contract'[u][k].active
               PROVE  ~Meets(contract'[u][j], contract'[u][k])
    BY DEF ContractsStayApart, Meets
  <2>1. CASE u # t
    BY <1>2, <2>1 DEF StaffSound, StaffRowsFit, ContractsStayApart
  <2>2. CASE u = t /\ j = i
    BY <1>2, <1>3, <2>2
  <2>3. CASE u = t /\ k = i
    BY <1>2, <2>3
  <2>4. CASE u = t /\ j # i /\ k # i
    BY <1>2, <2>4 DEF StaffSound, StaffRowsFit, ContractsStayApart
  <2> QED BY <2>1, <2>2, <2>3, <2>4
<1>5. StaffingTypeOK'
  <2>1. \A u \in Teachers, j \in ContractSlots :
            contract'[u][j] # NoContract => contract'[u][j].from <= contract'[u][j].to
    BY <1>2 DEF StaffSound, StaffRowsFit, StaffingTypeOK
  <2> QED BY <2>1 DEF StaffSound, StaffRowsFit, StaffingTypeOK
<1>6. SpareContracts(p)
  BY <1>2 DEF SpareContracts
<1> QED BY <1>2, <1>4, <1>5, <1>6, StaffStep DEF StaffSound, StaffRowsFit

LEMMA ContractKeeps ==
    ASSUME StaffSound, NEW p \in Instances, CreateContract(p) \/ AmendContract(p)
    PROVE  StaffSound'
<1> DEFINE c == run[p].cmd
           rows == contract[c.t]
<1>1. c.op \in {"contract", "amend"} /\ End(p) /\ UNCHANGED <<employed, present>>
      /\ c.period.from <= c.period.to
  BY DEF CreateContract, AmendContract, Running
<1>2. /\ c \in StaffCommands /\ c.t \in Teachers /\ c.period \in [from : Nat, to : Nat]
      /\ <<"instructor", c.t>> \in run[p].held /\ Was(p).contract[c.t] = rows
  BY <1>1, StaffCommandsAssumption DEF StaffSound, SawContracts, StaffKeys
<1>3. rows \in [ContractSlots -> ContractRow]
  BY <1>2 DEF StaffSound, StaffRowsFit
<1>4. CASE CreateContract(p)
  <2> DEFINE new == [from |-> c.period.from, to |-> c.period.to, active |-> TRUE, version |-> 1]
  <2>1. PICK i \in ContractSlots : contract' = [contract EXCEPT ![c.t][i] = new]
    BY <1>4 DEF CreateContract
  <2>2. new \in ContractRow /\ new.from <= new.to
    BY <1>1, <1>2 DEF ContractRow
  <2>3. \A j \in ContractSlots \ {i} : rows[j].active => ~Meets(rows[j], new)
    BY <1>2, <1>4 DEF CreateContract, OnlyOneIn, Meets
  <2> HIDE DEF new, c
  <2> QED BY <1>1, <1>2, <2>1, <2>2, <2>3, ContractsChange
<1>5. CASE AmendContract(p)
  <2> DEFINE new == [from |-> c.period.from, to |-> c.period.to, active |-> c.active, version |-> rows[c.row].version + 1]
  <2>1. c.row \in ContractSlots /\ c.active \in BOOLEAN
    BY <1>2, <1>5, StaffCommandsAssumption DEF AmendContract, Running
  <2>2. contract' = [contract EXCEPT ![c.t][c.row] = new]
    BY <1>2, <1>5 DEF AmendContract
  <2>3. new \in ContractRow /\ new.from <= new.to
    <3>1. rows[c.row].version + 1 \in Nat
      BY <1>3, <2>1 DEF ContractRow
    <3> HIDE DEF rows
    <3> QED BY <1>1, <1>2, <2>1, <3>1 DEF ContractRow
  <2>4. new.active => \A j \in ContractSlots \ {c.row} : rows[j].active => ~Meets(rows[j], new)
    BY <1>2, <1>5 DEF AmendContract, OnlyOneIn, Meets
  <2> HIDE DEF new, c
  <2> QED BY <1>1, <1>2, <2>1, <2>2, <2>3, <2>4, ContractsChange
<1> QED BY <1>4, <1>5

LEMMA StaffInitSound == NothingRuns /\ StaffingInit => StaffSound
<1> SUFFICES ASSUME NothingRuns, StaffingInit PROVE StaffSound
  OBVIOUS
<1>1. \A p \in Instances : run[p] = Idle
  BY DEF NothingRuns
<1>2. DOMAIN run = Instances /\ LocksExclude /\ \A p \in Instances : SawContracts(p)
  BY <1>1 DEF NothingRuns, LocksExclude, SawContracts, Idle, NoCommand
<1>3. NoContract \in ContractRow
  BY DEF NoContract, ContractRow
<1>4. StaffRowsFit
  BY <1>3 DEF StaffingInit, StaffRowsFit, StaffingTypeOK, ContractsStayApart, NoContract
<1> QED BY <1>2, <1>4 DEF StaffSound

LEMMA StaffingNextKeeps == ASSUME StaffSound, StaffingNext PROVE StaffSound'
<1>1. ASSUME NEW p \in Instances,
             RefuseStaffCommand(p) \/ EmployOrDismiss(p) \/ RecordAttendance(p) \/ RemoveAttendance(p)
      PROVE  StaffSound'
  <2>1. End(p) /\ UNCHANGED contract
    BY <1>1 DEF RefuseStaffCommand, Abort, staffVars, EmployOrDismiss, RecordAttendance, RemoveAttendance
  <2>2. present' \in [Teachers -> {"none", "present", "absent"}] /\ employed' \subseteq Teachers
    <3>1. present \in [Teachers -> {"none", "present", "absent"}] /\ employed \subseteq Teachers
      BY DEF StaffSound, StaffRowsFit, StaffingTypeOK
    <3>2. run[p].cmd.op # "none" => run[p].cmd \in StaffCommands
      BY DEF StaffSound, SawContracts
    <3> QED BY <1>1, <3>1, <3>2, StaffCommandsAssumption
        DEF RefuseStaffCommand, staffVars, EmployOrDismiss, RecordAttendance, RemoveAttendance, Running
  <2>3. StaffRowsFit'
    BY <2>1, <2>2 DEF StaffSound, StaffRowsFit, StaffingTypeOK, ContractsStayApart
  <2> QED BY <2>1, <2>3, StaffStep DEF SpareContracts
<1> QED BY <1>1, BeginStaffKeeps, ContractKeeps DEF StaffingNext

-----------------------------------------------------------------------------
(* The mirror: an undone transaction leaves no row in it, and what a       *)
(* command has locked and refreshed it sees as it is.                      *)

Rows == [val : 0 .. MaxWrites, deleted : BOOLEAN]

Ops == {"insert", "update", "upsert", "remove", "restore", "bringBack"}

TxFields == {"open", "locked", "own", "snap", "fresh", "seeded", "wrote"}

Shaped ==
    /\ writes \in 1 .. MaxWrites
    /\ db \in [RowIds -> Rows] /\ mirror \in [RowIds -> Rows]
    /\ DOMAIN tx = TxFields
    /\ \A r \in DOMAIN tx.own : r \in RowIds /\ tx.own[r] \in Rows
    /\ tx.locked \subseteq RowIds
    /\ tx.open => tx.snap \in [RowIds -> Rows]
    /\ ~tx.open => tx = NoTx
    /\ DOMAIN fetched = Readers /\ DOMAIN applying = Writers
    /\ \A x \in Readers : fetched[x] # Nothing => fetched[x] \in [RowIds -> Rows]
    /\ \A w \in Writers : applying[w] # Nothing =>
           /\ applying[w].id \in RowIds /\ applying[w].row \in Rows /\ applying[w].op \in Ops
    /\ applying["alone"] # Nothing => applying["alone"].op = "insert"

(* The active rows of a copy of the table are among those of a set.        *)
KnownRows(copy, from) == \A r \in RowIds : Active(copy[r]) => <<r, copy[r]>> \in from

(* Whatever may reach the mirror was committed or belongs to the open      *)
(* transaction; what may outlive that transaction was committed.           *)
NoGhosts ==
    /\ KnownRows(db, committed)
    /\ \A r \in DOMAIN tx.own : <<r, tx.own[r]>> \in tx.wrote
    /\ tx.open => KnownRows(tx.snap, committed)
    /\ fetched["get"] # Nothing => KnownRows(fetched["get"], committed)
    /\ fetched["tx"] # Nothing => tx.open /\ KnownRows(fetched["tx"], committed \cup tx.wrote)
    /\ applying["alone"] # Nothing => <<applying["alone"].id, applying["alone"].row>> \in committed
    /\ applying["tx"] # Nothing =>
           tx.open /\ <<applying["tx"].id, applying["tx"].row>> \in tx.wrote
    /\ NoGhostRows

(* A locked row exists and stays as it was but for the transaction's own   *)
(* writes.                                                                 *)
LockedExist ==
    /\ \A r \in tx.locked : db[r] # NoRow
    /\ \A r \in DOMAIN tx.own : tx.own[r] # NoRow

(* The answer of a refresh is what the transaction still reads of the rows *)
(* it has locked.                                                          *)
FetchedTruly ==
    fetched["tx"] # Nothing =>
        /\ tx.locked # {} /\ applying["tx"] = Nothing
        /\ \A r \in tx.locked : fetched["tx"][r] = View[r]

(* After a refresh, a locked row is in the mirror as the transaction reads *)
(* it, but for one statement whose effect is still to come.                *)
Coming(r) ==
    IF applying["tx"] # Nothing /\ applying["tx"].id = r
    THEN InMirror(applying["tx"].op, mirror[r], applying["tx"].row)
    ELSE mirror[r]

MirrorsLocked ==
    tx.fresh =>
        /\ tx.open /\ tx.locked # {}
        /\ \A r \in tx.locked \ tx.seeded : mirror[r] # NoRow /\ Coming(r) = View[r]

Faithful == Shaped /\ NoGhosts /\ LockedExist /\ FetchedTruly /\ MirrorsLocked

-----------------------------------------------------------------------------
LEMMA ViewRows ==
    ASSUME Shaped
    PROVE  /\ View \in [RowIds -> Rows]
           /\ \A r \in RowIds : View[r] = IF r \in DOMAIN tx.own THEN tx.own[r] ELSE db[r]
BY DEF Shaped, View

LEMMA WrittenRow ==
    ASSUME NEW op, NEW row \in Rows, writes \in 1 .. MaxWrites, writes < MaxWrites, Finds(op, row), op \in Ops
    PROVE  Written(op, row) \in Rows /\ Written(op, row) # NoRow
<1>1. [val |-> writes + 1, deleted |-> FALSE] \in Rows /\ [val |-> writes + 1, deleted |-> FALSE] # NoRow
  <2>1. writes + 1 \in 0 .. MaxWrites /\ writes + 1 # 0
    BY WritesAssumption
  <2> QED BY <2>1 DEF Rows, NoRow
<1>2. Removed(row) \in Rows /\ Removed(row).deleted
  BY DEF Removed, Rows
<1> QED BY <1>1, <1>2 DEF Written, NoRow

LEMMA InMirrorRow ==
    ASSUME NEW op, NEW m \in Rows, NEW row \in Rows, op \in Ops
    PROVE  /\ InMirror(op, m, row) \in Rows
           /\ Active(InMirror(op, m, row)) => InMirror(op, m, row) \in {m, row}
<1>1. CASE op \in {"insert", "upsert", "bringBack"}
  BY <1>1 DEF InMirror, SeedExact
<1>2. CASE op = "update"
  BY <1>2 DEF InMirror, MirrorUpdate
<1>3. CASE op = "remove"
  BY <1>3 DEF InMirror, Removed, Rows, Active
<1>4. CASE op = "restore"
  BY <1>4 DEF InMirror
<1> QED BY <1>1, <1>2, <1>3, <1>4 DEF Ops

(* A statement brings the mirror to what it wrote.                         *)
LEMMA Arrives ==
    ASSUME NEW op \in {"update", "remove", "restore"}, NEW m \in Rows, Finds(op, m)
    PROVE  InMirror(op, m, Written(op, m)) = Written(op, m) /\ m # NoRow
<1>1. CASE op = "update"
  BY <1>1 DEF Finds, InMirror, MirrorUpdate, Active
<1>2. CASE op = "remove"
  BY <1>2 DEF Finds, InMirror, Written, Active
<1>3. CASE op = "restore"
  <2>1. m # NoRow
    BY <1>3 DEF Finds, NoRow
  <2> QED BY <1>3, <2>1 DEF InMirror
<1> QED BY <1>1, <1>2, <1>3

-----------------------------------------------------------------------------
LEMMA InitFaithful == MirrorInit => Faithful
<1> SUFFICES ASSUME MirrorInit PROVE Faithful
  OBVIOUS
<1> USE DEF MirrorInit, NoTx, Nothing, Readers, Writers
<1>1. db \in [RowIds -> Rows]
  <2>1. NoRow \in Rows /\ [val |-> 1, deleted |-> FALSE] \in Rows
    BY WritesAssumption DEF NoRow, Rows
  <2> QED BY <2>1
<1>2. Shaped
  BY <1>1, WritesAssumption DEF Shaped, TxFields
<1>3. KnownRows(db, committed)
  BY DEF KnownRows
<1>4. NoGhosts
  BY <1>3 DEF NoGhosts, KnownRows, NoGhostRows
<1>5. LockedExist /\ FetchedTruly /\ MirrorsLocked
  BY DEF LockedExist, FetchedTruly, MirrorsLocked
<1> QED BY <1>2, <1>4, <1>5 DEF Faithful

-----------------------------------------------------------------------------
(* The transaction's own steps.                                            *)
LEMMA BeginKeeps == ASSUME Faithful, BeginTx PROVE Faithful'
<1> USE DEF Faithful, BeginTx
<1>1. tx = NoTx /\ tx' = [NoTx EXCEPT !.open = TRUE, !.snap = mirror]
  BY DEF Shaped
<1>2. /\ DOMAIN tx' = TxFields /\ tx'.open /\ tx'.locked = {} /\ tx'.own = <<>> /\ tx'.snap = mirror
      /\ ~tx'.fresh /\ tx'.seeded = {} /\ tx'.wrote = {}
      /\ tx.wrote = {} /\ tx.own = <<>> /\ ~tx.open
  BY <1>1 DEF NoTx, TxFields
<1>3. Shaped'
  BY <1>2 DEF Shaped
<1>4. NoGhosts'
  BY <1>2 DEF NoGhosts, NoGhostRows, KnownRows
<1>5. LockedExist' /\ MirrorsLocked' /\ FetchedTruly'
  BY <1>2 DEF LockedExist, MirrorsLocked, FetchedTruly, NoGhosts
<1> QED BY <1>3, <1>4, <1>5

LEMMA LockKeeps == ASSUME Faithful, LockRows PROVE Faithful'
<1> USE DEF Faithful, LockRows
<1>1. PICK keys \in SUBSET {r \in RowIds : db[r] # NoRow} \ {{}} : tx' = [tx EXCEPT !.locked = keys]
  OBVIOUS
<1>2. /\ DOMAIN tx' = TxFields /\ tx'.open = tx.open /\ tx'.locked = keys /\ tx'.own = tx.own
      /\ tx'.snap = tx.snap /\ tx'.fresh = tx.fresh /\ tx'.seeded = tx.seeded /\ tx'.wrote = tx.wrote
  BY <1>1 DEF Shaped, TxFields
<1>3. tx.open /\ fetched["tx"] = Nothing /\ ~tx.fresh
  BY DEF TxReady, MirrorsLocked, Shaped
<1>4. Shaped'
  BY <1>2, <1>3 DEF Shaped
<1>5. NoGhosts'
  BY <1>2 DEF NoGhosts, NoGhostRows, KnownRows
<1>6. LockedExist' /\ MirrorsLocked' /\ FetchedTruly'
  BY <1>2, <1>3 DEF LockedExist, MirrorsLocked, FetchedTruly
<1> QED BY <1>4, <1>5, <1>6

(* The transaction is over and its process has no statement of it left.    *)
LEMMA OverKeeps ==
    ASSUME Faithful, TxReady, tx' = NoTx, UNCHANGED <<fetched, applying, writes>>,
           db' \in [RowIds -> Rows], committed \subseteq committed', KnownRows(db, committed)',
           mirror' \in [RowIds -> Rows], KnownRows(mirror, committed)'
    PROVE  Faithful'
<1> USE DEF Faithful
<1>1. fetched["tx"] = Nothing /\ applying["tx"] = Nothing
  BY DEF TxReady
<1>2. Shaped'
  BY DEF Shaped, NoTx, TxFields
<1>3. NoGhosts'
  BY <1>1 DEF NoGhosts, NoGhostRows, KnownRows, NoTx
<1>4. LockedExist' /\ MirrorsLocked' /\ FetchedTruly'
  BY <1>1 DEF LockedExist, MirrorsLocked, FetchedTruly, NoTx
<1> QED BY <1>2, <1>3, <1>4

LEMMA ViewKnown == ASSUME Faithful PROVE KnownRows(View, committed \cup tx.wrote)
BY ViewRows DEF Faithful, NoGhosts, KnownRows

LEMMA CommitKeeps == ASSUME Faithful, CommitTx \/ CommitUnanswered PROVE Faithful'
<1> USE DEF CommitTx, CommitUnanswered, CommitRows
<1>1. /\ TxReady /\ tx' = NoTx /\ UNCHANGED <<fetched, applying, writes>>
      /\ db' = View /\ committed' = committed \cup tx.wrote /\ mirror' \in {mirror, tx.snap}
  OBVIOUS
<1>2. KnownRows(db, committed)' /\ db' \in [RowIds -> Rows]
  BY <1>1, ViewKnown, ViewRows DEF Faithful, KnownRows
<1>3. KnownRows(mirror, committed)' /\ mirror' \in [RowIds -> Rows]
  BY <1>1 DEF Faithful, Shaped, NoGhosts, NoGhostRows, KnownRows, TxReady
<1> QED BY <1>1, <1>2, <1>3, OverKeeps

LEMMA RollbackKeeps == ASSUME Faithful, RollbackTx PROVE Faithful'
<1> USE DEF RollbackTx, AfterRollback, Restored
<1>1. KnownRows(db, committed)' /\ db' \in [RowIds -> Rows]
  BY DEF Faithful, Shaped, NoGhosts, KnownRows
<1>2. KnownRows(mirror, committed)' /\ mirror' \in [RowIds -> Rows]
  BY DEF Faithful, Shaped, NoGhosts, KnownRows, TxReady
<1> QED BY <1>1, <1>2, OverKeeps

(* The process starts anew.                                                *)
LEMMA RestartKeeps == ASSUME Faithful, Restart PROVE Faithful'
<1> USE DEF Faithful, Restart
<1>1. fetched'["tx"] = Nothing /\ fetched'["get"] = Nothing
      /\ applying'["tx"] = Nothing /\ applying'["alone"] = Nothing
  BY DEF Readers, Writers
<1>2. Shaped'
  BY <1>1 DEF Shaped, NoTx, TxFields
<1>3. NoGhosts'
  BY <1>1 DEF NoGhosts, NoGhostRows, KnownRows, NoTx
<1>4. LockedExist' /\ MirrorsLocked' /\ FetchedTruly'
  BY <1>1 DEF LockedExist, MirrorsLocked, FetchedTruly, NoTx
<1> QED BY <1>2, <1>3, <1>4

-----------------------------------------------------------------------------
(* Refreshes.                                                              *)
LEMMA FetchInTxKeeps == ASSUME Faithful, FetchInTx PROVE Faithful'
<1> USE DEF Faithful, FetchInTx
<1>1. /\ fetched'["tx"] = View /\ fetched'["get"] = fetched["get"]
      /\ DOMAIN fetched' = Readers /\ tx.open /\ applying["tx"] = Nothing /\ tx.locked # {}
  BY DEF Shaped, Readers, TxReady, MayRefresh, AfterTheLocks
<1>2. View' = View
  BY DEF View
<1>3. Shaped'
  BY <1>1, ViewRows DEF Shaped, Readers
<1>4. NoGhosts'
  BY <1>1, ViewKnown DEF NoGhosts, NoGhostRows, KnownRows
<1>5. LockedExist' /\ MirrorsLocked' /\ FetchedTruly'
  BY <1>1, <1>2 DEF LockedExist, MirrorsLocked, Coming, FetchedTruly, Shaped
<1> QED BY <1>3, <1>4, <1>5

LEMMA FetchForGetKeeps == ASSUME Faithful, FetchForGet PROVE Faithful'
<1> USE DEF Faithful, FetchForGet
<1>1. fetched'["get"] = db /\ fetched'["tx"] = fetched["tx"] /\ DOMAIN fetched' = Readers
  BY DEF Shaped, Readers
<1>2. View' = View
  BY DEF View
<1>3. Shaped'
  BY <1>1 DEF Shaped, Readers
<1>4. NoGhosts'
  BY <1>1 DEF NoGhosts, NoGhostRows, KnownRows
<1>5. LockedExist' /\ MirrorsLocked' /\ FetchedTruly'
  BY <1>1, <1>2 DEF LockedExist, MirrorsLocked, Coming, FetchedTruly
<1> QED BY <1>3, <1>4, <1>5

LEMMA ReplaceKeeps == ASSUME Faithful, NEW x \in Readers, Replace(x) PROVE Faithful'
<1> USE DEF Faithful, Replace
<1>1. /\ DOMAIN fetched' = Readers /\ fetched'[x] = Nothing
      /\ \A y \in Readers \ {x} : fetched'[y] = fetched[y]
      /\ mirror' = fetched[x] /\ mirror' \in [RowIds -> Rows]
  BY DEF Shaped
<1>2. /\ DOMAIN tx' = TxFields /\ tx'.open = tx.open /\ tx'.locked = tx.locked /\ tx'.own = tx.own
      /\ tx'.snap = tx.snap /\ tx'.seeded = tx.seeded /\ tx'.wrote = tx.wrote
      /\ ~tx.open => tx' = NoTx
  BY DEF Shaped, TxFields
<1>3. tx'.fresh => x = "tx" /\ tx.open
  <2>1. CASE tx.open
    <3>1. tx'.fresh = (x = "tx")
      BY <2>1 DEF Shaped, TxFields
    <3> QED BY <2>1, <3>1
  <2>2. CASE ~tx.open
    <3>1. tx' = NoTx
      BY <2>2 DEF Shaped
    <3> QED BY <3>1 DEF NoTx
  <2> QED BY <2>1, <2>2
<1>4. View' = View
  BY <1>2 DEF View
<1>5. Shaped'
  BY <1>1, <1>2 DEF Shaped
<1>6. KnownRows(mirror, committed \cup tx.wrote)'
  <2>1. CASE x = "tx"
    BY <1>1, <1>2, <2>1 DEF NoGhosts, KnownRows
  <2>2. CASE x = "get"
    BY <1>1, <1>2, <2>2 DEF NoGhosts, KnownRows
  <2> QED BY <2>1, <2>2 DEF Readers
<1>7. NoGhosts'
  BY <1>1, <1>2, <1>6 DEF NoGhosts, NoGhostRows, KnownRows, Readers
<1>8. LockedExist' /\ FetchedTruly'
  BY <1>1, <1>2, <1>4 DEF LockedExist, FetchedTruly, Readers
<1>9. MirrorsLocked'
  <2> SUFFICES ASSUME tx'.fresh
               PROVE  /\ tx'.open /\ tx'.locked # {}
                      /\ \A r \in tx'.locked \ tx'.seeded : mirror'[r] # NoRow /\ Coming(r)' = View'[r]
    BY DEF MirrorsLocked
  <2>1. /\ x = "tx" /\ tx.open /\ tx.locked # {} /\ applying["tx"] = Nothing
        /\ \A r \in tx.locked : mirror'[r] = View[r]
    BY <1>1, <1>3 DEF FetchedTruly
  <2>2. \A r \in tx.locked : View[r] # NoRow
    BY ViewRows DEF LockedExist, Shaped
  <2> QED BY <1>2, <1>4, <2>1, <2>2 DEF Coming
<1> QED BY <1>5, <1>7, <1>8, <1>9

-----------------------------------------------------------------------------
(* Writes.                                                                 *)
LEMMA ExecuteKeeps ==
    ASSUME Faithful, NEW r \in RowIds, NEW op \in Ops, Execute(op, r)
    PROVE  Faithful'
<1> USE DEF Faithful, Execute
<1> DEFINE row == Written(op, View[r])
<1>0. View[r] \in Rows /\ row \in Rows /\ row # NoRow /\ writes' \in 1 .. MaxWrites
  BY ViewRows, WrittenRow, WritesAssumption DEF Shaped
<1>1. /\ DOMAIN tx' = TxFields /\ tx'.open = tx.open /\ tx'.locked = tx.locked
      /\ tx'.snap = tx.snap /\ tx'.fresh = tx.fresh /\ tx'.wrote = tx.wrote \cup {<<r, row>>}
      /\ tx'.seeded = (IF SeedsOver(op) THEN tx.seeded \cup {r} ELSE tx.seeded)
      /\ tx'.own = [x \in DOMAIN tx.own \cup {r} |-> IF x = r THEN row ELSE tx.own[x]]
  BY DEF Shaped, TxFields
<1>2. /\ DOMAIN applying' = Writers /\ applying'["alone"] = applying["alone"]
      /\ applying'["tx"] = [op |-> op, id |-> r, row |-> row] /\ applying["tx"] = Nothing
      /\ fetched["tx"] = Nothing /\ tx.open
  BY DEF Shaped, Writers, TxReady
<1>3. \A s \in RowIds : View'[s] = IF s = r THEN row ELSE View[s]
  BY <1>1 DEF View
<1>4. Shaped'
  BY <1>0, <1>1, <1>2 DEF Shaped, Writers
<1>5. NoGhosts'
  BY <1>1, <1>2 DEF NoGhosts, NoGhostRows, KnownRows
<1>6. LockedExist' /\ FetchedTruly'
  BY <1>0, <1>1, <1>2 DEF LockedExist, FetchedTruly
<1>7. MirrorsLocked'
  <2> SUFFICES ASSUME tx.fresh, NEW s \in tx.locked, s \notin tx'.seeded
               PROVE  mirror[s] # NoRow /\ Coming(s)' = View'[s]
    BY <1>1, <1>2 DEF MirrorsLocked
  <2>1. mirror[s] # NoRow /\ mirror[s] = View[s] /\ s \in RowIds
    BY <1>1, <1>2 DEF MirrorsLocked, Coming, Shaped
  <2>2. applying'["tx"] # Nothing /\ applying'["tx"].op = op /\ applying'["tx"].id = r
        /\ applying'["tx"].row = row
    BY <1>2 DEF Nothing
  <2>3. CASE s # r
    BY <1>3, <2>1, <2>2, <2>3 DEF Coming
  <2>4. CASE s = r
    <3>1. op \in {"update", "remove", "restore"}
      <4>1. op # "insert"
        BY <2>1, <2>4 DEF Finds
      <4>2. ~SeedsOver(op)
        BY <1>1, <2>4
      <4> QED BY <4>1, <4>2 DEF Ops, SeedsOver
    <3>2. InMirror(op, mirror[s], row) = row
      BY <1>0, <2>1, <2>4, <3>1, Arrives
    <3> QED BY <1>3, <2>1, <2>2, <2>4, <3>2 DEF Coming
  <2> QED BY <2>3, <2>4
<1> QED BY <1>4, <1>5, <1>6, <1>7

(* Somebody else writes a row the transaction has neither locked nor       *)
(* written.                                                                *)
LEMMA OthersKeep ==
    ASSUME Faithful, NEW r \in RowIds, NEW row \in Rows,
           r \notin tx.locked, r \notin DOMAIN tx.own, Store(r, row),
           writes' = writes + 1, writes < MaxWrites, UNCHANGED <<tx, mirror, fetched>>,
           \/ applying' = applying
           \/ applying' = [applying EXCEPT !["alone"] = [op |-> "insert", id |-> r, row |-> row]]
    PROVE  Faithful'
<1> USE DEF Faithful, Store
<1>1. /\ DOMAIN applying' = Writers /\ applying'["tx"] = applying["tx"]
      /\ applying'["alone"] \in {applying["alone"], [op |-> "insert", id |-> r, row |-> row]}
  BY DEF Shaped, Writers
<1>2. db' \in [RowIds -> Rows] /\ db'[r] = row /\ \A s \in RowIds \ {r} : db'[s] = db[s]
  BY DEF Shaped
<1>3. \A s \in RowIds \ {r} : View'[s] = View[s]
  BY <1>2 DEF View
<1>4. Shaped'
  BY <1>1, <1>2, WritesAssumption DEF Shaped, Ops, Writers
<1>5. NoGhosts'
  BY <1>1, <1>2 DEF NoGhosts, NoGhostRows, KnownRows, Shaped
<1>6. LockedExist' /\ FetchedTruly' /\ MirrorsLocked'
  BY <1>1, <1>2, <1>3 DEF LockedExist, FetchedTruly, MirrorsLocked, Coming, Shaped
<1> QED BY <1>4, <1>5, <1>6

LEMMA InsertAloneKeeps == ASSUME Faithful, NEW r \in RowIds, InsertAlone(r) PROVE Faithful'
<1>1. NoRow \in Rows /\ writes \in 1 .. MaxWrites /\ writes < MaxWrites /\ Finds("insert", NoRow)
  BY WritesAssumption DEF InsertAlone, NoRow, Rows, Faithful, Shaped, Finds
<1>2. Written("insert", NoRow) \in Rows
  BY <1>1, WrittenRow DEF Ops
<1>3. r \notin tx.locked
  BY DEF InsertAlone, Faithful, LockedExist
<1> QED BY <1>2, <1>3, OthersKeep DEF InsertAlone

LEMMA WriteElsewhereKeeps ==
    ASSUME Faithful, NEW r \in RowIds, NEW op \in Ops, WriteElsewhere(op, r)
    PROVE  Faithful'
<1>1. Written(op, db[r]) \in Rows
  BY WrittenRow DEF WriteElsewhere, Faithful, Shaped
<1> QED BY <1>1, OthersKeep DEF WriteElsewhere

(* A statement reaches the mirror.                                         *)
LEMMA ApplyKeeps == ASSUME Faithful, NEW w \in Writers, Apply(w) PROVE Faithful'
<1> USE DEF Faithful
<1> DEFINE s == applying[w]
<1>1. /\ s # Nothing /\ s.id \in RowIds /\ s.row \in Rows /\ s.op \in Ops
      /\ mirror' = [mirror EXCEPT ![s.id] = InMirror(s.op, mirror[s.id], s.row)]
      /\ UNCHANGED <<db, tx, fetched, writes, committed>>
  BY DEF Apply, Shaped
<1>2. DOMAIN applying' = Writers /\ applying'[w] = Nothing
      /\ \A v \in Writers \ {w} : applying'[v] = applying[v]
  BY DEF Apply, Shaped
<1>3. /\ mirror' \in [RowIds -> Rows]
      /\ mirror'[s.id] = InMirror(s.op, mirror[s.id], s.row)
      /\ \A r \in RowIds \ {s.id} : mirror'[r] = mirror[r]
  BY <1>1, InMirrorRow DEF Shaped
<1>4. View' = View
  BY <1>1 DEF View
<1>5. Shaped'
  <2>1. \A v \in Writers : applying'[v] # Nothing => applying'[v] = applying[v]
    BY <1>2
  <2>2. applying'["alone"] # Nothing => applying'["alone"].op = "insert"
    BY <2>1 DEF Shaped, Writers
  <2>3. \A v \in Writers : applying'[v] # Nothing =>
            applying'[v].id \in RowIds /\ applying'[v].row \in Rows /\ applying'[v].op \in Ops
    BY <2>1 DEF Shaped
  <2> QED BY <1>1, <1>2, <1>3, <2>2, <2>3 DEF Shaped
<1>6. <<s.id, s.row>> \in committed \cup tx.wrote
  BY <1>1 DEF NoGhosts, Writers
<1>7. NoGhostRows'
  BY <1>1, <1>3, <1>6, InMirrorRow DEF NoGhosts, NoGhostRows, Shaped
<1>8. NoGhosts'
  BY <1>1, <1>2, <1>7 DEF NoGhosts, KnownRows, Writers
<1>9. LockedExist' /\ FetchedTruly'
  BY <1>1, <1>2, <1>4 DEF LockedExist, FetchedTruly, Writers
<1>10. ASSUME tx.fresh, NEW r \in tx.locked, r \notin tx.seeded
       PROVE  mirror'[r] # NoRow /\ Coming(r)' = View'[r]
  <2>1. mirror[r] # NoRow /\ Coming(r) = View[r] /\ View[r] # NoRow /\ r \in RowIds
    BY <1>10, ViewRows DEF MirrorsLocked, LockedExist, Shaped
  <2>2. CASE w = "tx"
    <3>1. Coming(r)' = mirror'[r]
      BY <1>2, <2>2 DEF Coming
    <3>2. mirror'[r] = Coming(r)
      BY <1>1, <1>3, <2>1, <2>2 DEF Coming
    <3> QED BY <1>4, <2>1, <3>1, <3>2
  <2>3. CASE w = "alone"
    <3>1. s.op = "insert"
      BY <1>1, <2>3 DEF Shaped
    <3>2. mirror'[r] = mirror[r]
      BY <1>3, <2>1, <3>1 DEF InMirror, SeedExact
    <3>3. applying'["tx"] = applying["tx"]
      BY <1>2, <2>3 DEF Writers
    <3> QED BY <1>4, <2>1, <3>2, <3>3 DEF Coming
  <2> QED BY <2>2, <2>3 DEF Writers
<1>11. MirrorsLocked'
  BY <1>1, <1>10 DEF MirrorsLocked
<1> QED BY <1>5, <1>8, <1>9, <1>11

-----------------------------------------------------------------------------
LEMMA AlwaysFaithful == MirrorSpec => []Faithful
<1>1. ASSUME Faithful, UNCHANGED mirrorVars PROVE Faithful'
  BY <1>1 DEF mirrorVars, Faithful, Shaped, NoGhosts, NoGhostRows, KnownRows, LockedExist, FetchedTruly,
              MirrorsLocked, Coming, View
<1>2. ASSUME Faithful, MirrorNext PROVE Faithful'
  <2>1. CASE BeginTx \/ LockRows \/ CommitTx \/ CommitUnanswered \/ RollbackTx \/ Restart
    BY <1>2, <2>1, BeginKeeps, LockKeeps, CommitKeeps, RollbackKeeps, RestartKeeps
  <2>2. CASE FetchInTx \/ FetchForGet \/ \E x \in Readers : Replace(x)
    BY <1>2, <2>2, FetchInTxKeeps, FetchForGetKeeps, ReplaceKeeps
  <2>3. CASE \E r \in RowIds : \E op \in Ops : Execute(op, r)
    BY <1>2, <2>3, ExecuteKeeps
  <2>4. CASE \E r \in RowIds : InsertAlone(r)
    BY <1>2, <2>4, InsertAloneKeeps
  <2>5. CASE \E r \in RowIds : \E op \in Ops : WriteElsewhere(op, r)
    BY <1>2, <2>5, WriteElsewhereKeeps
  <2>6. CASE \E w \in Writers : Apply(w)
    BY <1>2, <2>6, ApplyKeeps
  <2> QED BY <1>2, <2>1, <2>2, <2>3, <2>4, <2>5, <2>6 DEF MirrorNext, Ops
<1> QED BY InitFaithful, <1>1, <1>2, PTL DEF MirrorSpec

LEMMA MirrorHasNoGhosts == MirrorSpec => []NoGhostRows
<1>1. Faithful => NoGhostRows
  BY DEF Faithful, NoGhosts
<1> QED BY <1>1, AlwaysFaithful, PTL

LEMMA MirrorShowsLocked == MirrorSpec => []LockedRowsAreCurrent
<1>1. Faithful => LockedRowsAreCurrent
  BY DEF Faithful, MirrorsLocked, Coming, LockedRowsAreCurrent, TxReady
<1> QED BY <1>1, AlwaysFaithful, PTL

-----------------------------------------------------------------------------
(* The schema.  A script is looked at one unit at a time, and of the       *)
(* database only what one promise is about: what the statements of a unit  *)
(* make of such an excerpt is what they make of it in the database, and    *)
(* ScriptsAssumption says that no unit takes back what was promised.       *)

(* Induction over the natural numbers, for a set.                          *)
LEMMA NatInductionSet ==
    ASSUME NEW S, 0 \in S, \A n \in Nat : n \in S => n + 1 \in S
    PROVE  \A n \in Nat : n \in S
<1> SUFFICES ASSUME Nat \ S # {} PROVE FALSE
  OBVIOUS
<1>1. PICK n \in Nat \ S : \A m \in Nat \ S : ~(<<m, n>> \in OpToRel(<, Nat))
  <2>1. Nat \ S \subseteq Nat /\ Nat \ S # {}
    OBVIOUS
  <2> QED BY <2>1, NatLessThanWellFounded, WFMin
<1>2. n # 0 /\ n - 1 \in Nat
  OBVIOUS
<1>3. n - 1 \in S
  <2>1. <<n - 1, n>> \in OpToRel(<, Nat)
    BY <1>2 DEF OpToRel
  <2> QED BY <1>1, <1>2, <2>1
<1> QED BY <1>2, <1>3

(* A sequence of values, each made from the one before, exists, and has    *)
(* the type that every step keeps.                                         *)
StepsRun(S, d, N, F) == \E f \in [0 .. N -> S] : f[0] = d /\ \A k \in 1 .. N : f[k] = F[k][f[k - 1]]

LEMMA SequenceOfSteps ==
    ASSUME NEW S, NEW d \in S, NEW N \in Nat, NEW F \in [1 .. N -> [S -> S]]
    PROVE  StepsRun(S, d, N, F)
<1> DEFINE Runs(f, n) == /\ f \in [0 .. n -> S] /\ f[0] = d
                         /\ \A k \in 1 .. n : f[k] = F[k][f[k - 1]]
           Reached == {n \in Nat : n <= N => \E f : Runs(f, n)}
<1>1. 0 \in Reached
  <2>1. Runs([k \in 0 .. 0 |-> d], 0)
    OBVIOUS
  <2> QED BY <2>1
<1>2. ASSUME NEW n \in Nat, n \in Reached PROVE n + 1 \in Reached
  <2> SUFFICES ASSUME n + 1 <= N PROVE \E f : Runs(f, n + 1)
    OBVIOUS
  <2>1. PICK f : Runs(f, n)
    BY <1>2
  <2> DEFINE g == [k \in 0 .. n + 1 |-> IF k = n + 1 THEN F[n + 1][f[n]] ELSE f[k]]
  <2>2. F[n + 1][f[n]] \in S
    BY <2>1
  <2>3. g \in [0 .. n + 1 -> S] /\ g[0] = d
    BY <2>1, <2>2
  <2>4. \A k \in 1 .. n + 1 : g[k] = F[k][g[k - 1]]
    <3> SUFFICES ASSUME NEW k \in 1 .. n + 1 PROVE g[k] = F[k][g[k - 1]]
      OBVIOUS
    <3>1. g[k - 1] = f[k - 1]
      OBVIOUS
    <3>2. CASE k = n + 1
      BY <3>1, <3>2
    <3>3. CASE k # n + 1
      <4>1. k \in 1 .. n /\ g[k] = f[k]
        BY <3>3
      <4> QED BY <2>1, <3>1, <4>1
    <3> QED BY <3>2, <3>3
  <2> QED BY <2>3, <2>4
<1> HIDE DEF Reached
<1>3. N \in Reached
  BY <1>1, <1>2, NatInductionSet
<1>4. PICK f : Runs(f, N)
  BY <1>3 DEF Reached
<1> QED BY <1>4 DEF StepsRun

LEMMA StepsKeep ==
    ASSUME NEW S, NEW N \in Nat, NEW f, f[0] \in S, \A k \in 1 .. N : f[k - 1] \in S => f[k] \in S
    PROVE  f[N] \in S
<1> DEFINE Kept == {n \in Nat : n <= N => f[n] \in S}
<1>1. 0 \in Kept
  OBVIOUS
<1>2. ASSUME NEW n \in Nat, n \in Kept PROVE n + 1 \in Kept
  BY <1>2
<1> HIDE DEF Kept
<1>3. N \in Kept
  BY <1>1, <1>2, NatInductionSet
<1> QED BY <1>3 DEF Kept

-----------------------------------------------------------------------------
(* A database with certain objects and certain migrations.                 *)
Databases(objects, ids) ==
    [shape : [objects -> Shapes], dirty : SUBSET objects, recorded : SUBSET ids, ok : BOOLEAN, skip : BOOLEAN]

(* A statement records a migration of these.                              *)
RecordsKnown(s, ids) == s.do \in {"record", "recordOnce"} => s.id \in ids

LEMMA AfterTyped ==
    ASSUME NEW objects, NEW ids, NEW d \in Databases(objects, ids), NEW s, RecordsKnown(s, ids)
    PROVE  After(d, s) \in Databases(objects, ids)
<1>1. ShapeAfter(d, s) \in [objects -> Shapes]
  <2>1. \A x \in objects : Turned(s.do, d.shape[x]) \in Shapes
    BY DEF Turned, Databases, Shapes
  <2> QED BY <2>1 DEF ShapeAfter, Databases, Shapes
<1>2. CASE ~d.ok
  BY <1>2 DEF After
<1>3. CASE d.ok /\ s.do = "skipIfRecorded"
  <2>1. (s.id \in d.recorded) \in BOOLEAN
    OBVIOUS
  <2>2. After(d, s) = [d EXCEPT !.skip = s.id \in d.recorded]
    BY <1>3 DEF After
  <2> HIDE DEF After
  <2> QED BY <2>1, <2>2 DEF Databases
<1>4. CASE d.ok /\ s.do # "skipIfRecorded" /\ (d.skip \/ Fails(d, s))
  BY <1>4 DEF After, Databases
<1>5. CASE d.ok /\ s.do # "skipIfRecorded" /\ ~d.skip /\ ~Fails(d, s)
  BY <1>1, <1>5 DEF After, Databases, RecordsKnown
<1> QED BY <1>2, <1>3, <1>4, <1>5

(* What is made of a database by statements one after the other.           *)
LEMMA AllOfSteps ==
    ASSUME NEW objects, NEW ids, NEW d \in Databases(objects, ids), NEW sql, Len(sql) \in Nat,
           \A n \in 1 .. Len(sql) : RecordsKnown(sql[n], ids)
    PROVE  \E f : /\ f[0] = d /\ AllOf(d, sql) = f[Len(sql)]
                  /\ \A k \in 1 .. Len(sql) : f[k] = After(f[k - 1], sql[k])
<1> DEFINE D == Databases(objects, ids)
           N == Len(sql)
           F == [k \in 1 .. N |-> [x \in D |-> After(x, sql[k])]]
           Runs(f) == f = [k \in 0 .. N |-> IF k = 0 THEN d ELSE After(f[k - 1], sql[k])]
<1>1. N \in Nat /\ d \in D /\ \A x \in D, k \in 1 .. N : After(x, sql[k]) \in D
  BY AfterTyped
<1> HIDE DEF D, N
<1>2. F \in [1 .. N -> [D -> D]] /\ \A x \in D, k \in 1 .. N : F[k][x] = After(x, sql[k])
  BY <1>1
<1> HIDE DEF F
<1>3. PICK f \in [0 .. N -> D] : f[0] = d /\ \A k \in 1 .. N : f[k] = F[k][f[k - 1]]
  <2>1. d \in D /\ N \in Nat /\ F \in [1 .. N -> [D -> D]]
    BY <1>1, <1>2
  <2>2. StepsRun(D, d, N, F)
    BY <2>1, SequenceOfSteps
  <2> QED BY <2>2 DEF StepsRun
<1>4. Runs(f)
  <2>1. \A k \in 0 .. N : f[k] = IF k = 0 THEN d ELSE After(f[k - 1], sql[k])
    <3> SUFFICES ASSUME NEW k \in 0 .. N, k # 0 PROVE f[k] = After(f[k - 1], sql[k])
      BY <1>3
    <3>1. f[k] = F[k][f[k - 1]] /\ f[k - 1] \in D /\ k \in 1 .. N
      BY <1>1, <1>3
    <3> QED BY <1>2, <3>1
  <2> QED BY <2>1, <1>3
<1> DEFINE after == CHOOSE g : Runs(g)
<1>5. Runs(after)
  BY <1>4
<1>6. AllOf(d, sql) = after[N]
  BY DEF AllOf, N
<1> HIDE DEF after
<1> QED BY <1>1, <1>5, <1>6 DEF N

LEMMA AllOfTyped ==
    ASSUME NEW objects, NEW ids, NEW d \in Databases(objects, ids), NEW sql, Len(sql) \in Nat,
           \A n \in 1 .. Len(sql) : RecordsKnown(sql[n], ids)
    PROVE  AllOf(d, sql) \in Databases(objects, ids)
<1>1. PICK f : /\ f[0] = d /\ AllOf(d, sql) = f[Len(sql)]
               /\ \A k \in 1 .. Len(sql) : f[k] = After(f[k - 1], sql[k])
  BY AllOfSteps
<1>2. \A k \in 1 .. Len(sql) : f[k - 1] \in Databases(objects, ids) => f[k] \in Databases(objects, ids)
  BY <1>1, AfterTyped
<1> QED BY <1>1, <1>2, StepsKeep

(* A statement, and the SQL under its condition.                           *)
RecordsIn(s, ids) == RecordsKnown(s, ids) /\ Len(s.sql) \in Nat /\ \A n \in 1 .. Len(s.sql) : RecordsKnown(s.sql[n], ids)

LEMMA ExecutedTyped ==
    ASSUME NEW objects, NEW ids, NEW d \in Databases(objects, ids), NEW s, RecordsIn(s, ids)
    PROVE  Executed(d, s) \in Databases(objects, ids)
BY AfterTyped, AllOfTyped DEF Executed, RecordsIn

LEMMA TransactedSteps ==
    ASSUME NEW objects, NEW ids, NEW d \in Databases(objects, ids), NEW statements, Len(statements) \in Nat,
           \A n \in 1 .. Len(statements) : RecordsIn(statements[n], ids)
    PROVE  \E f : /\ f[0] = d /\ Transacted(d, statements) = f[Len(statements)]
                  /\ \A k \in 1 .. Len(statements) : f[k] = Executed(f[k - 1], statements[k])
<1> DEFINE D == Databases(objects, ids)
           N == Len(statements)
           F == [k \in 1 .. N |-> [x \in D |-> Executed(x, statements[k])]]
           Runs(f) == f = [k \in 0 .. N |-> IF k = 0 THEN d ELSE Executed(f[k - 1], statements[k])]
<1>1. N \in Nat /\ d \in D /\ \A x \in D, k \in 1 .. N : Executed(x, statements[k]) \in D
  BY ExecutedTyped
<1> HIDE DEF D, N
<1>2. F \in [1 .. N -> [D -> D]] /\ \A x \in D, k \in 1 .. N : F[k][x] = Executed(x, statements[k])
  BY <1>1
<1> HIDE DEF F
<1>3. PICK f \in [0 .. N -> D] : f[0] = d /\ \A k \in 1 .. N : f[k] = F[k][f[k - 1]]
  <2>1. d \in D /\ N \in Nat /\ F \in [1 .. N -> [D -> D]]
    BY <1>1, <1>2
  <2>2. StepsRun(D, d, N, F)
    BY <2>1, SequenceOfSteps
  <2> QED BY <2>2 DEF StepsRun
<1>4. Runs(f)
  <2>1. \A k \in 0 .. N : f[k] = IF k = 0 THEN d ELSE Executed(f[k - 1], statements[k])
    <3> SUFFICES ASSUME NEW k \in 0 .. N, k # 0 PROVE f[k] = Executed(f[k - 1], statements[k])
      BY <1>3
    <3>1. f[k] = F[k][f[k - 1]] /\ f[k - 1] \in D /\ k \in 1 .. N
      BY <1>1, <1>3
    <3> QED BY <1>2, <3>1
  <2> QED BY <2>1, <1>3
<1> DEFINE after == CHOOSE g : Runs(g)
<1>5. Runs(after)
  BY <1>4
<1>6. Transacted(d, statements) = after[N]
  BY DEF Transacted, N
<1> HIDE DEF after
<1> QED BY <1>1, <1>5, <1>6 DEF N

LEMMA TransactedTyped ==
    ASSUME NEW objects, NEW ids, NEW d \in Databases(objects, ids), NEW statements, Len(statements) \in Nat,
           \A n \in 1 .. Len(statements) : RecordsIn(statements[n], ids)
    PROVE  Transacted(d, statements) \in Databases(objects, ids)
<1>1. PICK f : /\ f[0] = d /\ Transacted(d, statements) = f[Len(statements)]
               /\ \A k \in 1 .. Len(statements) : f[k] = Executed(f[k - 1], statements[k])
  BY TransactedSteps
<1>2. \A k \in 1 .. Len(statements) : f[k - 1] \in Databases(objects, ids) => f[k] \in Databases(objects, ids)
  BY <1>1, ExecutedTyped
<1> QED BY <1>1, <1>2, StepsKeep

-----------------------------------------------------------------------------
(* The scripts of a campaign.                                              *)
Ids(c) == {m.id : m \in Promises[c]}

LEMMA StepsOf ==
    ASSUME NEW c \in DOMAIN Campaigns, NEW script \in Range(Campaigns[c]), NEW u \in Range(script.units)
    PROVE  /\ Len(u.steps) \in Nat
           /\ \A n \in 1 .. Len(u.steps) :
                /\ u.steps[n] \in Range(u.steps) /\ u.steps[n] \in Steps[c]
                /\ RecordsIn(u.steps[n], Ids(c))
                /\ \A k \in 1 .. Len(u.steps[n].sql) : u.steps[n].sql[k] \in Steps[c]
<1>1. u.steps \in Seq(Range(u.steps))
  BY CampaignsAssumption
<1>2. Len(u.steps) \in Nat /\ \A n \in 1 .. Len(u.steps) : u.steps[n] \in Range(u.steps)
  BY <1>1
<1> DEFINE top == UNION {UNION {Range(v.steps) : v \in Range(s.units)} : s \in Range(Campaigns[c])}
<1>3. Steps[c] = top \cup UNION {Range(s.sql) : s \in top}
  BY DEF Steps
<1>4. \A s \in Range(u.steps) : s \in top
  OBVIOUS
<1> HIDE DEF top
<1>5. ASSUME NEW s \in Range(u.steps)
      PROVE  s \in Steps[c] /\ RecordsIn(s, Ids(c)) /\ \A k \in 1 .. Len(s.sql) : s.sql[k] \in Steps[c]
  <2>1. s \in Steps[c] /\ Range(s.sql) \subseteq Steps[c]
    BY <1>3, <1>4
  <2>2. s.sql \in Seq(Range(s.sql))
    BY <2>1, CampaignsAssumption
  <2>3. Len(s.sql) \in Nat /\ \A k \in 1 .. Len(s.sql) : s.sql[k] \in Steps[c]
    BY <2>1, <2>2
  <2>4. \A t \in Steps[c] : RecordsKnown(t, Ids(c))
    BY CampaignsAssumption DEF RecordsKnown, Ids
  <2> QED BY <2>1, <2>3, <2>4 DEF RecordsIn
<1> QED BY <1>2, <1>5

SchemaTyped ==
    /\ MigrationsTypeOK /\ held = [o \in Operators |-> held[o]]
    /\ \A o \in Operators : doing[o] # NoScript =>
         at[o] \in 1 .. Len(Campaigns[campaign][doing[o]].units)

LEMMA UnitRun ==
    ASSUME SchemaTyped, NEW o \in Operators, doing[o] # NoScript
    PROVE  /\ Campaigns[campaign][doing[o]] \in Range(Campaigns[campaign])
           /\ unit(o) \in Range(Campaigns[campaign][doing[o]].units)
           /\ Len(Campaigns[campaign][doing[o]].units) \in Nat
<1> DEFINE script == Campaigns[campaign][doing[o]]
<1>1. campaign \in DOMAIN Campaigns /\ doing[o] \in DOMAIN Campaigns[campaign]
  BY DEF SchemaTyped, MigrationsTypeOK
<1>2. script \in Range(Campaigns[campaign])
  BY <1>1 DEF Range
<1>3. script.units \in Seq(Range(script.units))
  BY <1>1, <1>2, CampaignsAssumption
<1>4. unit(o) = script.units[at[o]] /\ at[o] \in 1 .. Len(script.units)
  BY DEF SchemaTyped, unit
<1> HIDE DEF script
<1>5. unit(o) \in Range(script.units) /\ Len(script.units) \in Nat
  BY <1>3, <1>4
<1> QED BY <1>2, <1>5 DEF script

LEMMA DatabaseTyped ==
    ASSUME SchemaTyped
    PROVE  Database \in Databases(Objects[campaign], Ids(campaign))
BY DEF SchemaTyped, MigrationsTypeOK, Database, Databases, Ids

(* What a unit makes of the database.                                      *)
LEMMA UnitTyped ==
    ASSUME SchemaTyped, NEW o \in Operators, doing[o] # NoScript
    PROVE  Transacted(Database, unit(o).steps) \in Databases(Objects[campaign], Ids(campaign))
<1>1. campaign \in DOMAIN Campaigns
  BY DEF SchemaTyped, MigrationsTypeOK
<1> QED BY <1>1, UnitRun, StepsOf, DatabaseTyped, TransactedTyped

-----------------------------------------------------------------------------
LEMMA BaseTyped ==
    ASSUME NEW c \in DOMAIN Campaigns, NEW ids
    PROVE  Base[c] \in Databases(Objects[c], ids)
BY DEF Base, Databases, Shapes

LEMMA BootTyped ==
    ASSUME NEW c \in DOMAIN Campaigns, NEW m \in Promises[c], NEW n \in 0 .. Len(m.sql)
    PROVE  AllOf(Base[c], SubSeq(m.sql, 1, n)).shape \in [Objects[c] -> Shapes]
<1> DEFINE sql == SubSeq(m.sql, 1, n)
           ids == {sql[k].id : k \in 1 .. Len(sql)}
<1>1. m.sql \in Seq(Range(m.sql))
  BY CampaignsAssumption
<1>2. \A k \in 1 .. n : m.sql[k] \in Range(m.sql)
  BY <1>1
<1>3. Len(sql) \in Nat
  BY <1>1, <1>2, SubSeqProperties
<1>4. \A k \in 1 .. Len(sql) : RecordsKnown(sql[k], ids)
  BY DEF RecordsKnown
<1> HIDE DEF sql, ids
<1>5. AllOf(Base[c], sql) \in Databases(Objects[c], ids)
  BY <1>3, <1>4, BaseTyped, AllOfTyped
<1> QED BY <1>5 DEF sql, Databases

LEMMA InitSchemaTyped == MigrationsInit => SchemaTyped
<1> SUFFICES ASSUME MigrationsInit PROVE SchemaTyped
  OBVIOUS
<1>1. campaign \in DOMAIN Campaigns /\ shape \in [Objects[campaign] -> Shapes]
  BY BootTyped DEF MigrationsInit
<1>2. \A x \in Breakable(campaign, shape) : x \in Objects[campaign]
  BY <1>1 DEF Breakable, Rules, Values, Objects
<1>3. dirty \subseteq Objects[campaign]
  BY <1>2 DEF MigrationsInit
<1>4. doing = [o \in Operators |-> NoScript] /\ at = [o \in Operators |-> NoScript]
      /\ held = [o \in Operators |-> NoKey] /\ recorded = {}
  BY DEF MigrationsInit
<1> QED BY <1>1, <1>3, <1>4 DEF SchemaTyped, MigrationsTypeOK, NoScript

-----------------------------------------------------------------------------
(* An operator goes on, or stops.                                          *)
Moves(o) ==
    /\ campaign' = campaign
    /\ \E k \in {NoScript} \cup DOMAIN Campaigns[campaign] : doing' = [doing EXCEPT ![o] = k]
    /\ \E n \in Nat : at' = [at EXCEPT ![o] = n]
    /\ \E key : held' = [held EXCEPT ![o] = key] /\ (KeyFree(o, key) \/ key = held[o])
    /\ doing'[o] # NoScript => at'[o] \in 1 .. Len(Campaigns[campaign][doing'[o]].units)

LEMMA MovesKeep ==
    ASSUME SchemaTyped, NEW o \in Operators, Moves(o),
           shape' \in [Objects[campaign] -> Shapes], dirty' \subseteq Objects[campaign], recorded' \subseteq Ids(campaign)
    PROVE  SchemaTyped'
<1> USE DEF SchemaTyped, MigrationsTypeOK
<1>1. PICK k \in {NoScript} \cup DOMAIN Campaigns[campaign] : doing' = [doing EXCEPT ![o] = k]
  BY DEF Moves
<1>2. PICK n \in Nat : at' = [at EXCEPT ![o] = n]
  BY DEF Moves
<1>3. PICK key : held' = [held EXCEPT ![o] = key] /\ (KeyFree(o, key) \/ key = held[o])
  BY DEF Moves
<1>4. campaign' = campaign /\ campaign \in DOMAIN Campaigns
  BY DEF Moves
<1>5. doing' \in [Operators -> {NoScript} \cup DOMAIN Campaigns[campaign]] /\ at' \in [Operators -> Nat]
  BY <1>1, <1>2
<1>6. held' = [p \in Operators |-> held'[p]]
      /\ \A p, other \in Operators : p # other /\ held'[p] # NoKey => held'[other] # held'[p]
  BY <1>3 DEF KeyFree
<1>7. ASSUME NEW p \in Operators, doing'[p] # NoScript
      PROVE  at'[p] \in 1 .. Len(Campaigns[campaign][doing'[p]].units)
  <2>1. CASE p = o
    BY <1>7, <2>1 DEF Moves
  <2>2. CASE p # o
    BY <1>1, <1>2, <1>7, <2>2
  <2> QED BY <2>1, <2>2
<1> QED BY <1>4, <1>5, <1>6, <1>7 DEF Ids

LEMMA GoesOnMoves ==
    ASSUME SchemaTyped, NEW o \in Operators, doing[o] # NoScript, GoesOn(o), campaign' = campaign,
           NEW key, held' = [held EXCEPT ![o] = key], KeyFree(o, key) \/ key = held[o]
    PROVE  Moves(o)
<1> DEFINE last == Len(Campaigns[campaign][doing[o]].units)
<1>1. at[o] \in 1 .. last /\ last \in Nat /\ doing[o] \in DOMAIN Campaigns[campaign]
  BY UnitRun DEF SchemaTyped, MigrationsTypeOK
<1>2. DOMAIN doing = Operators /\ DOMAIN at = Operators
  BY DEF SchemaTyped, MigrationsTypeOK
<1>3. CASE at[o] = last
  <2>1. doing' = [doing EXCEPT ![o] = NoScript] /\ at' = [at EXCEPT ![o] = NoScript]
    BY <1>3 DEF GoesOn
  <2> QED BY <1>2, <2>1 DEF Moves, NoScript
<1>4. CASE at[o] # last
  <2>1. doing' = [doing EXCEPT ![o] = doing[o]] /\ at' = [at EXCEPT ![o] = at[o] + 1]
    BY <1>4 DEF GoesOn
  <2>2. at[o] + 1 \in 1 .. last /\ at[o] + 1 \in Nat
    BY <1>1, <1>4
  <2>3. doing'[o] = doing[o] /\ at'[o] = at[o] + 1
    BY <1>2, <2>1
  <2> HIDE DEF last
  <2>4. at'[o] \in 1 .. Len(Campaigns[campaign][doing'[o]].units)
    BY <2>2, <2>3 DEF last
  <2> QED BY <1>1, <2>1, <2>2, <2>4 DEF Moves
<1> QED BY <1>3, <1>4

LEMMA StopsMoves ==
    ASSUME SchemaTyped, NEW o \in Operators, Stops(o), campaign' = campaign
    PROVE  Moves(o)
BY DEF Stops, Moves, KeyFree, NoScript, SchemaTyped, MigrationsTypeOK

LEMMA SchemaTypedKept ==
    ASSUME SchemaTyped, [MigrationsNext]_migrationVars
    PROVE  SchemaTyped'
<1> USE DEF SchemaTyped, MigrationsTypeOK, Ids
<1>0. campaign \in DOMAIN Campaigns
  OBVIOUS
<1>1. CASE UNCHANGED migrationVars
  BY <1>1 DEF migrationVars
<1>2. ASSUME NEW o \in Operators, NEW k \in DOMAIN Campaigns[campaign], BeginScript(o, k) PROVE SchemaTyped'
  <2> DEFINE script == Campaigns[campaign][k]
  <2>1. script \in Range(Campaigns[campaign]) /\ k \in Nat \ {NoScript}
    BY CampaignsAssumption DEF Range
  <2>2. script.units \in Seq(Range(script.units)) \ {<<>>}
    BY <2>1, CampaignsAssumption
  <2>3. 1 \in 1 .. Len(script.units)
    <3> HIDE DEF script
    <3>1. Len(script.units) \in Nat \ {0}
      BY <2>2, EmptySeq
    <3> QED BY <3>1
  <2>4. doing' = [doing EXCEPT ![o] = k] /\ at' = [at EXCEPT ![o] = 1] /\ held' = [held EXCEPT ![o] = held[o]]
        /\ campaign' = campaign /\ UNCHANGED <<shape, dirty, recorded>>
    BY <1>2 DEF BeginScript
  <2>5. doing'[o] = k /\ at'[o] = 1
    BY <2>4
  <2>6. Moves(o)
    BY <2>3, <2>4, <2>5 DEF Moves
  <2> QED BY <2>4, <2>6, MovesKeep
<1>3. ASSUME NEW o \in Operators, Lock_(o) \/ Unlock_(o) PROVE SchemaTyped'
  <2>1. doing[o] # NoScript /\ GoesOn(o) /\ UNCHANGED <<campaign, shape, dirty, recorded>>
    BY <1>3 DEF Lock_, Unlock_
  <2>2. \E key : held' = [held EXCEPT ![o] = key] /\ KeyFree(o, key)
    BY <1>3 DEF Lock_, Unlock_, KeyFree
  <2>3. Moves(o)
    BY <2>1, <2>2, GoesOnMoves
  <2> QED BY <2>1, <2>3, MovesKeep
<1>4. ASSUME NEW o \in Operators, RunUnit(o) PROVE SchemaTyped'
  <2> DEFINE d == Transacted(Database, unit(o).steps)
  <2>1. doing[o] # NoScript /\ GoesOn(o) /\ UNCHANGED <<campaign, held>>
        /\ shape' = d.shape /\ dirty' = d.dirty /\ recorded' = d.recorded
    BY <1>4 DEF RunUnit, Executable
  <2>2. d \in Databases(Objects[campaign], Ids(campaign))
    BY <2>1, UnitTyped
  <2> HIDE DEF d
  <2>3. held' = [held EXCEPT ![o] = held[o]]
    BY <2>1
  <2>4. Moves(o)
    BY <2>1, <2>3, GoesOnMoves
  <2> QED BY <2>1, <2>2, <2>4, MovesKeep DEF Databases
<1>5. ASSUME NEW o \in Operators, Refuse(o) \/ Crash(o) \/ IndexFails(o) PROVE SchemaTyped'
  <2>1. Stops(o) /\ UNCHANGED <<campaign, dirty, recorded>>
    BY <1>5 DEF Refuse, Crash, IndexFails
  <2>2. shape' \in [Objects[campaign] -> Shapes]
    BY <1>5 DEF Refuse, Crash, IndexFails, Shapes
  <2> QED BY <2>1, <2>2, StopsMoves, MovesKeep
<1>6. CASE WriteBadRow \/ Repair
  <2>1. UNCHANGED <<campaign, shape, recorded, doing, at, held>>
    BY <1>6 DEF WriteBadRow, Repair
  <2>2. \A x \in Breakable(campaign, shape) : x \in Objects[campaign]
    BY DEF Breakable, Rules, Values, Objects
  <2>3. dirty' \subseteq Objects[campaign]
    BY <1>6, <2>2 DEF WriteBadRow, Repair
  <2> QED BY <2>1, <2>3
<1> QED BY <1>1, <1>2, <1>3, <1>4, <1>5, <1>6 DEF MigrationsNext, Proceeds

-----------------------------------------------------------------------------
(* The excerpts are what they are said to be: a statement that does not    *)
(* fail makes of an excerpt what it makes of the database.                 *)
(* An exchange is seen with both of its sides.                             *)
Whole(s, X) == s.do = "exchange" /\ s.by \cap X # {} => s.on \subseteq X

LEMMA SameDatabase ==
    ASSUME NEW X, NEW ids, NEW d \in Databases(X, ids), NEW e \in Databases(X, ids),
           d.shape = e.shape, d.dirty = e.dirty, d.recorded = e.recorded, d.ok = e.ok, d.skip = e.skip
    PROVE  d = e
BY DEF Databases

LEMMA ExcerptTyped ==
    ASSUME NEW objects, NEW ids, NEW d \in Databases(objects, ids), NEW X \in SUBSET objects, NEW id
    PROVE  Excerpt(d, X, id) \in Databases(X, {id})
BY DEF Excerpt, Databases

LEMMA OkBefore ==
    ASSUME NEW d, NEW s, After(d, s).ok
    PROVE  d.ok
BY DEF After

LEMMA ConfinedTyped ==
    ASSUME NEW s, NEW X, NEW id
    PROVE  RecordsKnown(Confined(s, X, id), {id})
BY DEF RecordsKnown, Confined

LEMMA ExcerptShape ==
    ASSUME NEW objects, NEW ids, NEW d \in Databases(objects, ids), NEW X \in SUBSET objects, NEW id, NEW s,
           Whole(s, X), s.do \notin {"record", "recordOnce"} \/ s.id = id
    PROVE  ShapeAfter(Excerpt(d, X, id), Confined(s, X, id)) = [x \in X |-> ShapeAfter(d, s)[x]]
<1> DEFINE e == Excerpt(d, X, id)
           t == Confined(s, X, id)
<1>1. e.shape = [x \in X |-> d.shape[x]] /\ DOMAIN d.shape = objects
  BY DEF Excerpt, Databases
<1>2. t.do = s.do /\ t.on = s.on \cap X /\ t.by = s.by \cap X
  BY DEF Confined
<1>3. There(e, t.on) => There(d, s.on)
  BY <1>1, <1>2 DEF There
<1>4. s.on \subseteq X /\ There(d, s.on) => There(e, t.on)
  BY <1>1, <1>2 DEF There
<1> DEFINE old == ShapeAfter(d, s)
           new == ShapeAfter(e, t)
<1> HIDE DEF e, t
<1> SUFFICES new = [x \in X |-> old[x]]
  BY DEF e, t
<1>5. CASE s.do = "exchange" /\ There(d, s.on) /\ There(e, t.on)
  <2>1. new = [x \in X |-> IF x \in s.on THEN "absent" ELSE IF x \in s.by THEN "inforce" ELSE d.shape[x]]
    BY <1>1, <1>2, <1>5 DEF ShapeAfter
  <2>2. old = [x \in objects |-> IF x \in s.on THEN "absent" ELSE IF x \in s.by THEN "inforce" ELSE d.shape[x]]
    BY <1>1, <1>5 DEF ShapeAfter
  <2> HIDE DEF old, new
  <2> QED BY <2>1, <2>2
<1>6. CASE s.do = "exchange" /\ There(d, s.on) /\ ~There(e, t.on)
  <2>1. \A x \in t.on : e.shape[x] = "absent"
    BY <1>6 DEF There
  <2>2. t.by = {}
    BY <1>2, <1>4, <1>6 DEF Whole
  <2>3. new = [x \in X |-> IF x \in s.on THEN Turned("exchange", d.shape[x]) ELSE d.shape[x]]
    BY <1>1, <1>2, <1>6 DEF ShapeAfter
  <2>4. \A x \in X : x \in s.on => d.shape[x] = "absent"
    BY <1>1, <1>2, <2>1
  <2>5. \A x \in X : x \notin s.by
    BY <1>2, <2>2
  <2>6. old = [x \in objects |-> IF x \in s.on THEN "absent" ELSE IF x \in s.by THEN "inforce" ELSE d.shape[x]]
    BY <1>1, <1>6 DEF ShapeAfter
  <2>7. Turned("exchange", "absent") = "absent"
    BY DEF Turned
  <2> HIDE DEF old, new
  <2>8. \A x \in X : new[x] = old[x]
    BY <2>3, <2>4, <2>5, <2>6, <2>7
  <2> QED BY <2>3, <2>8
<1>7. CASE s.do # "exchange" \/ ~There(d, s.on)
  <2>1. new = [x \in X |-> IF x \in s.on THEN Turned(s.do, d.shape[x]) ELSE d.shape[x]]
    BY <1>1, <1>2, <1>3, <1>7 DEF ShapeAfter
  <2>2. old = [x \in objects |-> IF x \in s.on THEN Turned(s.do, d.shape[x]) ELSE d.shape[x]]
    BY <1>1, <1>7 DEF ShapeAfter
  <2> HIDE DEF old, new
  <2> QED BY <2>1, <2>2
<1> QED BY <1>5, <1>6, <1>7

LEMMA ExcerptFails ==
    ASSUME NEW objects, NEW ids, NEW d \in Databases(objects, ids), NEW X \in SUBSET objects, NEW id, NEW s,
           Fails(Excerpt(d, X, id), Confined(s, X, id))
    PROVE  Fails(d, s)
<1> DEFINE e == Excerpt(d, X, id)
           t == Confined(s, X, id)
<1>1. e.shape = [x \in X |-> d.shape[x]] /\ e.dirty = d.dirty \cap X /\ e.recorded = d.recorded \cap {id}
  BY DEF Excerpt
<1>2. t.do = s.do /\ t.on = s.on \cap X /\ t.by = s.by \cap X /\ t.id = s.id
  <2>1. t.do # "elsewhere"
    BY DEF Fails
  <2> QED BY <2>1 DEF Confined
<1>3. Fails(e, t)
  OBVIOUS
<1> HIDE DEF e, t
<1> QED BY <1>1, <1>2, <1>3 DEF Fails, There, InForce

LEMMA ExcerptAfter ==
    ASSUME NEW objects, NEW ids, NEW d \in Databases(objects, ids), NEW X \in SUBSET objects, NEW id, NEW s,
           RecordsKnown(s, ids), Whole(s, X), NEW D, Excerpt(d, X, id) \in D, After(d, s).ok
    PROVE  Excerpt(After(d, s), X, id) \in ExcerptsAfter(D, s, X, id)
<1> DEFINE e == Excerpt(d, X, id)
           t == Confined(s, X, id)
           g == Excerpt(After(d, s), X, id)
<1>0. d.ok
  BY OkBefore
<1>1. e \in Databases(X, {id}) /\ g \in Databases(X, {id}) /\ After(e, t) \in Databases(X, {id})
  BY ExcerptTyped, AfterTyped, ConfinedTyped
<1>2. e.shape = [x \in X |-> d.shape[x]] /\ e.dirty = d.dirty \cap X /\ e.recorded = d.recorded \cap {id}
      /\ e.ok = d.ok /\ e.skip = d.skip
  BY DEF Excerpt
<1>3. g.shape = [x \in X |-> After(d, s).shape[x]] /\ g.dirty = After(d, s).dirty \cap X
      /\ g.recorded = After(d, s).recorded \cap {id} /\ g.ok = After(d, s).ok /\ g.skip = After(d, s).skip
  BY DEF Excerpt
<1>4. t.on = s.on \cap X /\ t.by = s.by \cap X /\ t.id = s.id
      /\ t.do = IF s.do \in {"record", "recordOnce"} /\ s.id # id THEN "elsewhere" ELSE s.do
  BY DEF Confined
<1>5. CASE s.do = "skipIfRecorded" /\ s.id # id
  <2>1. After(d, s) = [d EXCEPT !.skip = s.id \in d.recorded]
    BY <1>0, <1>5 DEF After
  <2> DEFINE b == s.id \in d.recorded
             h == [e EXCEPT !.skip = b]
  <2>2. b \in BOOLEAN
    OBVIOUS
  <2>3. h \in Databases(X, {id}) /\ h.shape = e.shape /\ h.dirty = e.dirty /\ h.recorded = e.recorded
        /\ h.ok = e.ok /\ h.skip = b
    <3> HIDE DEF b, e
    <3> QED BY <1>1, <2>2 DEF Databases
  <2>4. g.shape = e.shape /\ g.dirty = e.dirty /\ g.recorded = e.recorded /\ g.ok = e.ok /\ g.skip = b
    BY <1>2, <1>3, <2>1 DEF Databases
  <2>5. g = h
    <3> HIDE DEF g, h, b, e
    <3> QED BY <1>1, <2>3, <2>4, SameDatabase
  <2>6. g = [e EXCEPT !.skip = b] /\ e \in D
    BY <2>5
  <2> HIDE DEF g, h, b, e
  <2>7. \E x \in D, v \in BOOLEAN : g = [x EXCEPT !.skip = v]
    BY <2>2, <2>6
  <2>8. g \in {[x EXCEPT !.skip = v] : x \in D, v \in BOOLEAN}
    BY <2>7
  <2>9. ExcerptsAfter(D, s, X, id) = {[x EXCEPT !.skip = v] : x \in D, v \in BOOLEAN}
    BY <1>5 DEF ExcerptsAfter
  <2> QED BY <2>8, <2>9 DEF g
<1>6. CASE ~(s.do = "skipIfRecorded" /\ s.id # id)
  <2> SUFFICES g = After(e, t)
    <3>1. g.ok
      BY <1>3
    <3> QED BY <1>6, <3>1 DEF ExcerptsAfter
  <2>1. CASE s.do = "skipIfRecorded"
    <3>1. After(d, s) = [d EXCEPT !.skip = s.id \in d.recorded] /\ s.id = id
      BY <1>0, <1>6, <2>1 DEF After
    <3>2. After(e, t) = [e EXCEPT !.skip = t.id \in e.recorded] /\ t.do = "skipIfRecorded"
      BY <1>0, <1>2, <1>4, <2>1 DEF After
    <3> DEFINE b == s.id \in d.recorded
               a == After(e, t)
    <3>3. (t.id \in e.recorded) = b /\ b \in BOOLEAN
      BY <1>2, <1>4, <3>1
    <3>4. a.shape = e.shape /\ a.dirty = e.dirty /\ a.recorded = e.recorded /\ a.ok = e.ok /\ a.skip = b
      BY <1>1, <3>2, <3>3 DEF Databases
    <3>5. g.shape = e.shape /\ g.dirty = e.dirty /\ g.recorded = e.recorded /\ g.ok = e.ok /\ g.skip = b
      BY <1>2, <1>3, <3>1 DEF Databases
    <3> HIDE DEF a, g, b
    <3> QED BY <1>1, <3>4, <3>5, SameDatabase DEF a
  <2>2. CASE s.do # "skipIfRecorded" /\ d.skip
    <3>1. After(d, s) = d
      BY <1>0, <2>2 DEF After
    <3>2. After(e, t) = e
      BY <1>0, <1>2, <1>4, <2>2 DEF After
    <3> QED BY <3>1, <3>2
  <2>3. CASE s.do # "skipIfRecorded" /\ ~d.skip
    <3>1. ~Fails(d, s)
      BY <1>0, <2>3 DEF After
    <3>2. ~Fails(e, t)
      BY <3>1, ExcerptFails
    <3> DEFINE a == After(e, t)
               f == After(d, s)
    <3>3. f.shape = ShapeAfter(d, s) /\ f.ok = TRUE /\ f.skip = FALSE
          /\ f.dirty = (IF s.do = "backfill" THEN d.dirty \ s.on ELSE d.dirty)
          /\ f.recorded = (IF s.do \in {"record", "recordOnce"} THEN d.recorded \cup {s.id} ELSE d.recorded)
      BY <1>0, <2>3, <3>1 DEF After
    <3>4. t.do # "skipIfRecorded" /\ e.ok /\ ~e.skip
      BY <1>0, <1>2, <1>4, <2>3
    <3>5. a.shape = ShapeAfter(e, t) /\ a.ok = TRUE /\ a.skip = FALSE
          /\ a.dirty = (IF t.do = "backfill" THEN e.dirty \ t.on ELSE e.dirty)
          /\ a.recorded = (IF t.do \in {"record", "recordOnce"} THEN e.recorded \cup {t.id} ELSE e.recorded)
      <4> HIDE DEF e, t
      <4> QED BY <3>2, <3>4 DEF After
    <3>6. a.shape = g.shape
      <4>1. g.shape = [x \in X |-> ShapeAfter(d, s)[x]]
        BY <1>3, <3>3
      <4>2. CASE s.do \notin {"record", "recordOnce"} \/ s.id = id
        BY <3>5, <4>1, <4>2, ExcerptShape
      <4>3. CASE s.do \in {"record", "recordOnce"} /\ s.id # id
        <5>1. t.do = "elsewhere"
          BY <1>4, <4>3
        <5>2. ShapeAfter(e, t) = e.shape
          <6> HIDE DEF e, t
          <6> QED BY <1>1, <5>1 DEF ShapeAfter, Turned, Databases
        <5>3. ShapeAfter(d, s) = d.shape
          BY <4>3 DEF ShapeAfter, Turned, Databases
        <5> QED BY <1>2, <3>5, <4>1, <5>2, <5>3
      <4> QED BY <4>2, <4>3
    <3> HIDE DEF a, g, f, e, t
    <3>7. a.dirty = g.dirty
      BY <1>2, <1>3, <1>4, <3>3, <3>5 DEF f
    <3>8. a.recorded = g.recorded
      BY <1>2, <1>3, <1>4, <3>3, <3>5 DEF f
    <3>9. a.ok = g.ok /\ a.skip = g.skip
      BY <1>3, <3>3, <3>5 DEF f
    <3> QED BY <1>1, <3>6, <3>7, <3>8, <3>9, SameDatabase DEF a
  <2> QED BY <2>1, <2>2, <2>3
<1> QED BY <1>5, <1>6

(* Sets of excerpts.                                                       *)
ExcerptSets(X, id) == SUBSET Databases(X, {id})

LEMMA ExcerptsAfterTyped ==
    ASSUME NEW X, NEW id, NEW D \in ExcerptSets(X, id), NEW s
    PROVE  ExcerptsAfter(D, s, X, id) \in ExcerptSets(X, id)
<1>1. ASSUME NEW d \in D, NEW b \in BOOLEAN PROVE [d EXCEPT !.skip = b] \in Databases(X, {id})
  BY DEF Databases, ExcerptSets
<1>2. \A d \in D : After(d, Confined(s, X, id)) \in Databases(X, {id})
  BY AfterTyped, ConfinedTyped DEF ExcerptSets
<1> QED BY <1>1, <1>2 DEF ExcerptsAfter, ExcerptSets

LEMMA ExcerptsAfterAllSteps ==
    ASSUME NEW X, NEW id, NEW D \in ExcerptSets(X, id), NEW sql, Len(sql) \in Nat
    PROVE  \E f : /\ f[0] = D /\ ExcerptsAfterAll(D, sql, X, id) = f[Len(sql)]
                  /\ f \in [0 .. Len(sql) -> ExcerptSets(X, id)]
                  /\ \A k \in 1 .. Len(sql) : f[k] = ExcerptsAfter(f[k - 1], sql[k], X, id)
<1> DEFINE T == ExcerptSets(X, id)
           N == Len(sql)
           F == [k \in 1 .. N |-> [Z \in T |-> ExcerptsAfter(Z, sql[k], X, id)]]
           Runs(f) == f = [k \in 0 .. N |-> IF k = 0 THEN D ELSE ExcerptsAfter(f[k - 1], sql[k], X, id)]
<1>1. N \in Nat /\ D \in T /\ \A Z \in T, k \in 1 .. N : ExcerptsAfter(Z, sql[k], X, id) \in T
  BY ExcerptsAfterTyped
<1> HIDE DEF T, N
<1>2. F \in [1 .. N -> [T -> T]] /\ \A Z \in T, k \in 1 .. N : F[k][Z] = ExcerptsAfter(Z, sql[k], X, id)
  BY <1>1
<1> HIDE DEF F
<1>3. PICK f \in [0 .. N -> T] : f[0] = D /\ \A k \in 1 .. N : f[k] = F[k][f[k - 1]]
  <2>1. D \in T /\ N \in Nat /\ F \in [1 .. N -> [T -> T]]
    BY <1>1, <1>2
  <2>2. StepsRun(T, D, N, F)
    BY <2>1, SequenceOfSteps
  <2> QED BY <2>2 DEF StepsRun
<1>4. \A k \in 1 .. N : f[k] = ExcerptsAfter(f[k - 1], sql[k], X, id)
  <2> SUFFICES ASSUME NEW k \in 1 .. N PROVE f[k] = ExcerptsAfter(f[k - 1], sql[k], X, id)
    OBVIOUS
  <2>1. f[k] = F[k][f[k - 1]] /\ f[k - 1] \in T
    BY <1>1, <1>3
  <2> QED BY <1>2, <2>1
<1>5. Runs(f)
  <2>1. \A k \in 0 .. N : f[k] = IF k = 0 THEN D ELSE ExcerptsAfter(f[k - 1], sql[k], X, id)
    BY <1>1, <1>3, <1>4
  <2> QED BY <2>1, <1>3
<1> DEFINE after == CHOOSE g : Runs(g)
<1>6. Runs(after)
  BY <1>5
<1>7. ExcerptsAfterAll(D, sql, X, id) = after[N]
  BY DEF ExcerptsAfterAll, N
<1> HIDE DEF after
<1>8. after[0] = D /\ \A k \in 1 .. N : after[k] = ExcerptsAfter(after[k - 1], sql[k], X, id)
  BY <1>1, <1>6
<1>9. after \in [0 .. N -> T]
  <2>1. ASSUME NEW n \in 0 .. N PROVE after[n] \in T
    <3>1. after[0] \in T /\ n \in Nat /\ \A k \in 1 .. n : after[k - 1] \in T => after[k] \in T
      BY <1>1, <1>8
    <3>2. \A S, g : \A m \in Nat : g[0] \in S /\ (\A k \in 1 .. m : g[k - 1] \in S => g[k] \in S) => g[m] \in S
      BY StepsKeep
    <3> QED BY <3>1, <3>2
  <2> QED BY <1>6, <2>1
<1> QED BY <1>7, <1>8, <1>9 DEF N, T

(* The SQL under the condition of a statement is a sequence.               *)
HasSql(s) == Len(s.sql) \in Nat

LEMMA ExcerptsExecutedTyped ==
    ASSUME NEW X, NEW id, NEW D \in ExcerptSets(X, id), NEW s, HasSql(s)
    PROVE  ExcerptsExecuted(D, s, X, id) \in ExcerptSets(X, id)
<1>1. ExcerptsAfterAll(D, s.sql, X, id) \in ExcerptSets(X, id)
  <2> DEFINE sql == s.sql
  <2>1. Len(sql) \in Nat
    BY DEF HasSql
  <2> HIDE DEF sql
  <2>2. PICK f : /\ f[0] = D /\ ExcerptsAfterAll(D, sql, X, id) = f[Len(sql)]
                 /\ f \in [0 .. Len(sql) -> ExcerptSets(X, id)]
                 /\ \A k \in 1 .. Len(sql) : f[k] = ExcerptsAfter(f[k - 1], sql[k], X, id)
    BY <2>1, ExcerptsAfterAllSteps
  <2> QED BY <2>1, <2>2 DEF sql
<1> QED BY <1>1, ExcerptsAfterTyped DEF ExcerptsExecuted, ExcerptSets

LEMMA ExcerptsTransactedSteps ==
    ASSUME NEW X, NEW id, NEW D \in ExcerptSets(X, id), NEW statements, Len(statements) \in Nat,
           \A n \in 1 .. Len(statements) : HasSql(statements[n])
    PROVE  \E f : /\ f[0] = D /\ ExcerptsTransacted(D, statements, X, id) = f[Len(statements)]
                  /\ f \in [0 .. Len(statements) -> ExcerptSets(X, id)]
                  /\ \A k \in 1 .. Len(statements) : f[k] = ExcerptsExecuted(f[k - 1], statements[k], X, id)
<1> DEFINE T == ExcerptSets(X, id)
           N == Len(statements)
           F == [k \in 1 .. N |-> [Z \in T |-> ExcerptsExecuted(Z, statements[k], X, id)]]
           Runs(f) == f = [k \in 0 .. N |-> IF k = 0 THEN D ELSE ExcerptsExecuted(f[k - 1], statements[k], X, id)]
<1>1. N \in Nat /\ D \in T /\ \A Z \in T, k \in 1 .. N : ExcerptsExecuted(Z, statements[k], X, id) \in T
  BY ExcerptsExecutedTyped
<1> HIDE DEF T, N
<1>2. F \in [1 .. N -> [T -> T]] /\ \A Z \in T, k \in 1 .. N : F[k][Z] = ExcerptsExecuted(Z, statements[k], X, id)
  BY <1>1
<1> HIDE DEF F
<1>3. PICK f \in [0 .. N -> T] : f[0] = D /\ \A k \in 1 .. N : f[k] = F[k][f[k - 1]]
  <2>1. D \in T /\ N \in Nat /\ F \in [1 .. N -> [T -> T]]
    BY <1>1, <1>2
  <2>2. StepsRun(T, D, N, F)
    BY <2>1, SequenceOfSteps
  <2> QED BY <2>2 DEF StepsRun
<1>4. \A k \in 1 .. N : f[k] = ExcerptsExecuted(f[k - 1], statements[k], X, id)
  <2> SUFFICES ASSUME NEW k \in 1 .. N PROVE f[k] = ExcerptsExecuted(f[k - 1], statements[k], X, id)
    OBVIOUS
  <2>1. f[k] = F[k][f[k - 1]] /\ f[k - 1] \in T
    BY <1>1, <1>3
  <2> QED BY <1>2, <2>1
<1>5. Runs(f)
  <2>1. \A k \in 0 .. N : f[k] = IF k = 0 THEN D ELSE ExcerptsExecuted(f[k - 1], statements[k], X, id)
    BY <1>1, <1>3, <1>4
  <2> QED BY <2>1, <1>3
<1> DEFINE after == CHOOSE g : Runs(g)
<1>6. Runs(after)
  BY <1>5
<1>7. ExcerptsTransacted(D, statements, X, id) = after[N]
  BY DEF ExcerptsTransacted, N
<1> HIDE DEF after
<1>8. after[0] = D /\ \A k \in 1 .. N : after[k] = ExcerptsExecuted(after[k - 1], statements[k], X, id)
  BY <1>1, <1>6
<1>9. after \in [0 .. N -> T]
  <2>1. ASSUME NEW n \in 0 .. N PROVE after[n] \in T
    <3>1. after[0] \in T /\ n \in Nat /\ \A k \in 1 .. n : after[k - 1] \in T => after[k] \in T
      BY <1>1, <1>8
    <3>2. \A S, g : \A m \in Nat : g[0] \in S /\ (\A k \in 1 .. m : g[k - 1] \in S => g[k] \in S) => g[m] \in S
      BY StepsKeep
    <3> QED BY <3>1, <3>2
  <2> QED BY <1>6, <2>1
<1> QED BY <1>7, <1>8, <1>9 DEF N, T

(* The same for statements one after the other, ...                        *)
LEMMA ExcerptAfterAll ==
    ASSUME NEW objects, NEW ids, NEW d \in Databases(objects, ids), NEW X \in SUBSET objects, NEW id,
           NEW sql, Len(sql) \in Nat,
           \A n \in 1 .. Len(sql) : RecordsKnown(sql[n], ids) /\ Whole(sql[n], X),
           NEW D \in ExcerptSets(X, id), Excerpt(d, X, id) \in D, AllOf(d, sql).ok
    PROVE  d.ok /\ Excerpt(AllOf(d, sql), X, id) \in ExcerptsAfterAll(D, sql, X, id)
<1> DEFINE N == Len(sql)
<1>1. PICK f : /\ f[0] = d /\ AllOf(d, sql) = f[N]
               /\ \A k \in 1 .. N : f[k] = After(f[k - 1], sql[k])
  BY AllOfSteps
<1>2. PICK g : /\ g[0] = D /\ ExcerptsAfterAll(D, sql, X, id) = g[N]
               /\ g \in [0 .. N -> ExcerptSets(X, id)]
               /\ \A k \in 1 .. N : g[k] = ExcerptsAfter(g[k - 1], sql[k], X, id)
  BY ExcerptsAfterAllSteps
<1> DEFINE Kept(n) == f[n] \in Databases(objects, ids) /\ (f[n].ok => d.ok /\ Excerpt(f[n], X, id) \in g[n])
           K == {n \in Nat : n <= N => Kept(n)}
<1>3. 0 \in K
  BY <1>1, <1>2
<1>4. ASSUME NEW n \in Nat, n \in K PROVE n + 1 \in K
  <2> SUFFICES ASSUME n + 1 <= N PROVE Kept(n + 1)
    OBVIOUS
  <2>1. Kept(n) /\ n + 1 \in 1 .. N /\ (n + 1) - 1 = n
    BY <1>4
  <2>2. f[n + 1] = After(f[n], sql[n + 1]) /\ g[n + 1] = ExcerptsAfter(g[n], sql[n + 1], X, id)
    BY <1>1, <1>2, <2>1
  <2>3. RecordsKnown(sql[n + 1], ids) /\ Whole(sql[n + 1], X)
    BY <2>1
  <2>4. f[n + 1] \in Databases(objects, ids)
    BY <2>1, <2>2, <2>3, AfterTyped
  <2>5. ASSUME f[n + 1].ok PROVE d.ok /\ Excerpt(f[n + 1], X, id) \in g[n + 1]
    <3>1. f[n].ok
      BY <2>2, <2>5, OkBefore
    <3> QED BY <2>1, <2>2, <2>3, <2>5, <3>1, ExcerptAfter
  <2> QED BY <2>4, <2>5
<1> HIDE DEF K
<1>5. N \in K
  BY <1>3, <1>4, NatInductionSet
<1> QED BY <1>1, <1>2, <1>5 DEF K

(* ... for one that has a condition, ...                                   *)
WholeIn(s, X) == Whole(s, X) /\ \A n \in 1 .. Len(s.sql) : Whole(s.sql[n], X)

LEMMA ExcerptExecuted ==
    ASSUME NEW objects, NEW ids, NEW d \in Databases(objects, ids), NEW X \in SUBSET objects, NEW id,
           NEW s, RecordsIn(s, ids), WholeIn(s, X),
           NEW D \in ExcerptSets(X, id), Excerpt(d, X, id) \in D, Executed(d, s).ok
    PROVE  d.ok /\ Excerpt(Executed(d, s), X, id) \in ExcerptsExecuted(D, s, X, id)
<1>1. CASE s.do # "unless"
  BY <1>1, ExcerptAfter, OkBefore DEF Executed, ExcerptsExecuted, RecordsIn, WholeIn
<1>2. CASE s.do = "unless" /\ InForce(d, s.on)
  <2>1. InForce(Excerpt(d, X, id), s.on \cap X)
    BY <1>2 DEF InForce, Excerpt
  <2> QED BY <1>2, <2>1 DEF Executed, ExcerptsExecuted
<1>3. CASE s.do = "unless" /\ ~InForce(d, s.on)
  <2>1. AllOf(d, s.sql).ok /\ Executed(d, s) = AllOf(d, s.sql)
    BY <1>3 DEF Executed
  <2>2. d.ok /\ Excerpt(AllOf(d, s.sql), X, id) \in ExcerptsAfterAll(D, s.sql, X, id)
    BY <2>1, ExcerptAfterAll DEF RecordsIn, WholeIn
  <2> QED BY <1>3, <2>1, <2>2 DEF ExcerptsExecuted
<1> QED BY <1>1, <1>2, <1>3

(* ... and for a transaction.                                              *)
LEMMA ExcerptTransacted ==
    ASSUME NEW objects, NEW ids, NEW d \in Databases(objects, ids), NEW X \in SUBSET objects, NEW id,
           NEW statements, Len(statements) \in Nat,
           \A n \in 1 .. Len(statements) : RecordsIn(statements[n], ids) /\ WholeIn(statements[n], X),
           NEW D \in ExcerptSets(X, id), Excerpt(d, X, id) \in D, Transacted(d, statements).ok
    PROVE  Excerpt(Transacted(d, statements), X, id) \in ExcerptsTransacted(D, statements, X, id)
<1> DEFINE N == Len(statements)
<1>1. PICK f : /\ f[0] = d /\ Transacted(d, statements) = f[N]
               /\ \A k \in 1 .. N : f[k] = Executed(f[k - 1], statements[k])
  BY TransactedSteps
<1>2. PICK g : /\ g[0] = D /\ ExcerptsTransacted(D, statements, X, id) = g[N]
               /\ g \in [0 .. N -> ExcerptSets(X, id)]
               /\ \A k \in 1 .. N : g[k] = ExcerptsExecuted(g[k - 1], statements[k], X, id)
  <2>1. \A n \in 1 .. N : HasSql(statements[n])
    BY DEF RecordsIn, HasSql
  <2> QED BY <2>1, ExcerptsTransactedSteps
<1> DEFINE Kept(n) == f[n] \in Databases(objects, ids) /\ (f[n].ok => Excerpt(f[n], X, id) \in g[n])
           K == {n \in Nat : n <= N => Kept(n)}
<1>3. 0 \in K
  BY <1>1, <1>2
<1>4. ASSUME NEW n \in Nat, n \in K PROVE n + 1 \in K
  <2> SUFFICES ASSUME n + 1 <= N PROVE Kept(n + 1)
    OBVIOUS
  <2>1. Kept(n) /\ n + 1 \in 1 .. N /\ (n + 1) - 1 = n
    BY <1>4
  <2>0. g[n] \in ExcerptSets(X, id)
    BY <1>2, <2>1
  <2>2. f[n + 1] = Executed(f[n], statements[n + 1]) /\ g[n + 1] = ExcerptsExecuted(g[n], statements[n + 1], X, id)
    BY <1>1, <1>2, <2>1
  <2>3. RecordsIn(statements[n + 1], ids) /\ WholeIn(statements[n + 1], X)
    BY <2>1
  <2>4. f[n + 1] \in Databases(objects, ids)
    BY <2>1, <2>2, <2>3, ExecutedTyped
  <2>5. ASSUME f[n + 1].ok PROVE Excerpt(f[n + 1], X, id) \in g[n + 1]
    <3> DEFINE h == f[n]
               t == statements[n + 1]
    <3>1. h \in Databases(objects, ids) /\ Executed(h, t).ok /\ RecordsIn(t, ids) /\ WholeIn(t, X)
      BY <2>1, <2>2, <2>3, <2>5
    <3>2. h.ok
      <4> HIDE DEF h, t
      <4>1. CASE t.do # "unless" \/ InForce(h, t.on)
        BY <3>1, <4>1, OkBefore DEF Executed
      <4>2. CASE t.do = "unless" /\ ~InForce(h, t.on)
        <5>1. AllOf(h, t.sql).ok /\ Excerpt(h, X, id) \in Databases(X, {id})
          BY <3>1, <4>2, ExcerptTyped DEF Executed
        <5>2. {Excerpt(h, X, id)} \in ExcerptSets(X, id) /\ Excerpt(h, X, id) \in {Excerpt(h, X, id)}
          BY <5>1 DEF ExcerptSets
        <5> QED BY <3>1, <5>1, <5>2, ExcerptAfterAll DEF RecordsIn, WholeIn
      <4> QED BY <4>1, <4>2
    <3>3. Excerpt(h, X, id) \in g[n]
      BY <2>1, <3>2
    <3> HIDE DEF h, t
    <3>4. Excerpt(Executed(h, t), X, id) \in ExcerptsExecuted(g[n], t, X, id)
      BY <2>0, <2>1, <3>1, <3>3, ExcerptExecuted
    <3> QED BY <2>2, <3>4 DEF h, t
  <2> QED BY <2>4, <2>5
<1> HIDE DEF K
<1>5. N \in K
  BY <1>3, <1>4, NatInductionSet
<1> QED BY <1>1, <1>2, <1>5 DEF K

-----------------------------------------------------------------------------
(* What of the database the promise about an object looks at.              *)
Sight(m, x) == Excerpt(Database, Watched[campaign][m][x], m.id)

(* The promise is kept if it was recorded, or if a unit that establishes   *)
(* it has run in a script that still runs.                                 *)
EarnedFor(m, x) ==
    /\ Found(campaign, m, x, Sight(m, x))
    /\ m.id \in recorded => Stands(campaign, m, x, Sight(m, x))
    /\ \A o \in Operators : doing[o] # NoScript => \A j \in 1 .. at[o] - 1 :
         Establishes(campaign, Campaigns[campaign][doing[o]].units[j], m, x) => Stands(campaign, m, x, Sight(m, x))

Earned == SchemaTyped /\ \A m \in Promises[campaign] : \A x \in Promised(m) : EarnedFor(m, x)

LEMMA WatchedWhole ==
    ASSUME NEW c \in DOMAIN Campaigns, NEW m \in Promises[c], NEW x \in Promised(m)
    PROVE  /\ x \in Objects[c] /\ Watched[c][m][x] \in SUBSET Objects[c] /\ x \in Watched[c][m][x]
           /\ \A s \in Steps[c] : Whole(s, Watched[c][m][x])
<1>1. x \in Objects[c] /\ Watched[c][m][x] \in SUBSET Objects[c]
  BY ScriptsAssumption
<1>2. \A s \in Steps[c] : Whole(s, Watched[c][m][x])
  BY ScriptsAssumption DEF Whole
<1>3. x \in Watched[c][m][x]
  BY DEF Watched
<1> QED BY <1>1, <1>2, <1>3

LEMMA SightTyped ==
    ASSUME SchemaTyped, NEW m \in Promises[campaign], NEW x \in Promised(m)
    PROVE  /\ Sight(m, x) \in Databases(Watched[campaign][m][x], {m.id})
           /\ Sight(m, x).ok = TRUE /\ Sight(m, x).skip = FALSE
           /\ DOMAIN Sight(m, x).shape = Watched[campaign][m][x]
           /\ Sight(m, x).recorded # {} <=> m.id \in recorded
           /\ Found(campaign, m, x, Sight(m, x)) => Sight(m, x) \in Findable(campaign, m, x)
<1> DEFINE X == Watched[campaign][m][x]
           v == Sight(m, x)
<1>1. campaign \in DOMAIN Campaigns
  BY DEF SchemaTyped, MigrationsTypeOK
<1>2. v \in Databases(X, {m.id})
  BY <1>1, DatabaseTyped, WatchedWhole, ExcerptTyped DEF Sight
<1>3. v.ok = TRUE /\ v.skip = FALSE /\ v.recorded = recorded \cap {m.id} /\ DOMAIN v.shape = X
  BY DEF Sight, Excerpt, Database
<1> HIDE DEF v, X
<1>4. Found(campaign, m, x, v) => v \in Findable(campaign, m, x)
  BY <1>2, <1>3 DEF Findable, Databases, X
<1> QED BY <1>2, <1>3, <1>4 DEF v, X

(* The promise looks at shapes and rows only.                              *)
LEMMA SameSight ==
    ASSUME NEW c, NEW m, NEW x, NEW d, NEW e, d.shape = e.shape, d.dirty = e.dirty
    PROVE  /\ Found(c, m, x, d) <=> Found(c, m, x, e)
           /\ Stands(c, m, x, d) <=> Stands(c, m, x, e)
BY DEF Found, Stands, InForce

LEMMA UnitOutcome ==
    ASSUME SchemaTyped, NEW o \in Operators, doing[o] # NoScript, NEW m \in Promises[campaign], NEW x \in Promised(m),
           Transacted(Database, unit(o).steps).ok
    PROVE  Excerpt(Transacted(Database, unit(o).steps), Watched[campaign][m][x], m.id)
             \in Outcomes(campaign, unit(o), m, x, Sight(m, x))
<1> DEFINE X == Watched[campaign][m][x]
           v == Sight(m, x)
           steps == unit(o).steps
           O == Objects[campaign]
           I == Ids(campaign)
           d == Database
<1>1. campaign \in DOMAIN Campaigns
  BY DEF SchemaTyped, MigrationsTypeOK
<1>2. X \in SUBSET O /\ \A s \in Steps[campaign] : Whole(s, X)
  BY <1>1, WatchedWhole
<1>3. /\ Len(steps) \in Nat
      /\ \A n \in 1 .. Len(steps) :
            /\ steps[n] \in Steps[campaign]
            /\ RecordsIn(steps[n], I)
            /\ \A k \in 1 .. Len(steps[n].sql) : steps[n].sql[k] \in Steps[campaign]
  BY <1>1, UnitRun, StepsOf
<1>4. d \in Databases(O, I)
  BY DatabaseTyped
<1>5. {v} \in ExcerptSets(X, m.id) /\ Excerpt(d, X, m.id) \in {v}
  <2>1. v \in Databases(X, {m.id})
    BY SightTyped
  <2>2. Excerpt(d, X, m.id) = v
    BY DEF Sight
  <2> HIDE DEF v, d, X
  <2> QED BY <2>1, <2>2 DEF ExcerptSets
<1>6. Outcomes(campaign, unit(o), m, x, v) = ExcerptsTransacted({v}, steps, X, m.id)
  BY DEF Outcomes
<1>7. Transacted(d, steps).ok
  OBVIOUS
<1> HIDE DEF X, v, steps, O, I, d
<1>8. \A n \in 1 .. Len(steps) : RecordsIn(steps[n], I) /\ WholeIn(steps[n], X)
  BY <1>2, <1>3 DEF WholeIn
<1>9. Excerpt(Transacted(d, steps), X, m.id) \in ExcerptsTransacted({v}, steps, X, m.id)
  BY <1>2, <1>3, <1>4, <1>5, <1>7, <1>8, ExcerptTransacted
<1> QED BY <1>6, <1>9 DEF X, v, steps, d

(* What the scripts are assumed to do, about one object.                   *)
LEMMA DisturbedKeeps ==
    ASSUME NEW c \in DOMAIN Campaigns, NEW m \in Promises[c], NEW x \in Promised(m),
           NEW d \in Findable(c, m, x), NEW e \in Disturbed(c, d)
    PROVE  Found(c, m, x, e) /\ (Stands(c, m, x, d) => Stands(c, m, x, e))
BY ScriptsAssumption DEF Findable

LEMMA UnitKeeps ==
    ASSUME NEW c \in DOMAIN Campaigns, NEW m \in Promises[c], NEW x \in Promised(m),
           NEW d \in Findable(c, m, x), NEW script \in Range(Campaigns[c]), NEW n \in DOMAIN script.units,
           script.units[n].kind \in {"tx", "index", "pool"}, NEW e \in Outcomes(c, script.units[n], m, x, d)
    PROVE  /\ Found(c, m, x, e)
           /\ Stands(c, m, x, d) => Stands(c, m, x, e)
           /\ (d.recorded # {} => Stands(c, m, x, d)) /\ e.recorded # {} =>
                \/ Stands(c, m, x, e)
                \/ \E j \in 1 .. n - 1 : Establishes(c, script.units[j], m, x)
BY ScriptsAssumption

-----------------------------------------------------------------------------
(* Nobody gets further in a script, or one operator does by one unit.      *)
Halts == \A p \in Operators : doing'[p] # NoScript => \A j \in 1 .. at'[p] - 1 :
             doing'[p] = doing[p] /\ j \in 1 .. at[p] - 1

Advances(o) == \A p \in Operators : doing'[p] # NoScript => \A j \in 1 .. at'[p] - 1 :
             doing'[p] = doing[p] /\ (j \in 1 .. at[p] - 1 \/ (p = o /\ j = at[o]))

LEMMA GoesOnAdvances ==
    ASSUME SchemaTyped, NEW o \in Operators, doing[o] # NoScript, GoesOn(o)
    PROVE  Advances(o)
<1> DEFINE last == Len(Campaigns[campaign][doing[o]].units)
<1>1. at[o] \in Nat /\ DOMAIN doing = Operators /\ DOMAIN at = Operators
  BY DEF SchemaTyped, MigrationsTypeOK
<1>2. doing' = [doing EXCEPT ![o] = IF at[o] = last THEN NoScript ELSE doing[o]]
      /\ at' = [at EXCEPT ![o] = IF at[o] = last THEN NoScript ELSE at[o] + 1]
  BY DEF GoesOn
<1> HIDE DEF last
<1>3. ASSUME NEW p \in Operators, p # o PROVE doing'[p] = doing[p] /\ at'[p] = at[p]
  BY <1>2, <1>3
<1>4. doing'[o] # NoScript => doing'[o] = doing[o] /\ at'[o] = at[o] + 1
  BY <1>1, <1>2
<1>5. ASSUME NEW p \in Operators, doing'[p] # NoScript, NEW j \in 1 .. at'[p] - 1
      PROVE  doing'[p] = doing[p] /\ (j \in 1 .. at[p] - 1 \/ (p = o /\ j = at[o]))
  <2>1. CASE p = o
    <3>1. doing'[p] = doing[p] /\ at'[p] = at[o] + 1
      BY <1>4, <1>5, <2>1
    <3>2. j \in 1 .. (at[o] + 1) - 1
      BY <3>1
    <3>3. j \in 1 .. at[o] - 1 \/ j = at[o]
      BY <1>1, <3>2
    <3> QED BY <2>1, <3>1, <3>3
  <2>2. CASE p # o
    <3>1. doing'[p] = doing[p] /\ at'[p] = at[p]
      BY <1>3, <2>2
    <3>2. j \in 1 .. at[p] - 1
      BY <3>1
    <3> QED BY <3>1, <3>2
  <2> QED BY <2>1, <2>2
<1> QED BY <1>5 DEF Advances

LEMMA StopsHalts ==
    ASSUME SchemaTyped, NEW o \in Operators, Stops(o)
    PROVE  Halts
BY DEF Stops, Halts, SchemaTyped, MigrationsTypeOK

LEMMA EarnedKept ==
    ASSUME Earned, SchemaTyped', campaign' = campaign, NEW o,
           Halts \/ (doing[o] # NoScript /\ Advances(o)),
           \A m \in Promises[campaign] : \A x \in Promised(m) :
              /\ Found(campaign, m, x, Sight(m, x)')
              /\ Stands(campaign, m, x, Sight(m, x)) => Stands(campaign, m, x, Sight(m, x)')
              /\ m.id \in recorded' => Stands(campaign, m, x, Sight(m, x)')
              /\ Halts \/ (Establishes(campaign, unit(o), m, x) => Stands(campaign, m, x, Sight(m, x)'))
    PROVE  Earned'
<1> SUFFICES ASSUME NEW m \in Promises[campaign], NEW x \in Promised(m) PROVE EarnedFor(m, x)'
  BY DEF Earned
<1>1. EarnedFor(m, x)
  BY DEF Earned
<1>2. ASSUME NEW p \in Operators, doing'[p] # NoScript, NEW j \in 1 .. at'[p] - 1,
             Establishes(campaign, Campaigns[campaign][doing'[p]].units[j], m, x)
      PROVE  Stands(campaign, m, x, Sight(m, x)')
  <2>1. doing'[p] = doing[p]
    BY <1>2 DEF Halts, Advances
  <2>2. CASE j \in 1 .. at[p] - 1
    BY <1>1, <1>2, <2>1, <2>2 DEF EarnedFor
  <2>3. CASE j \notin 1 .. at[p] - 1
    <3>1. ~Halts /\ p = o /\ j = at[o]
      BY <1>2, <2>3 DEF Halts, Advances
    <3> QED BY <1>2, <2>1, <3>1 DEF unit
  <2> QED BY <2>2, <2>3
<1> QED BY <1>2 DEF EarnedFor

(* Nothing happens to the database.                                        *)
LEMMA UntouchedKeeps ==
    ASSUME Earned, SchemaTyped', UNCHANGED <<campaign, shape, dirty, recorded>>, NEW o \in Operators,
           Halts \/ (doing[o] # NoScript /\ Advances(o) /\ unit(o).kind \notin {"tx", "index", "pool"})
    PROVE  Earned'
<1>1. \A m, x : Sight(m, x)' = Sight(m, x)
  BY DEF Sight, Excerpt, Database
<1>2. \A m \in Promises[campaign] : \A x \in Promised(m) :
          Found(campaign, m, x, Sight(m, x)) /\ (m.id \in recorded => Stands(campaign, m, x, Sight(m, x)))
  BY DEF Earned, EarnedFor
<1>3. ~Halts => \A m, x : ~Establishes(campaign, unit(o), m, x)
  BY DEF Establishes
<1> QED BY <1>1, <1>2, <1>3, EarnedKept

(* Nothing happens to the database but what may always happen to it.       *)
LEMMA DisturbanceKeeps ==
    ASSUME Earned, SchemaTyped', UNCHANGED <<campaign, recorded>>, Halts,
           \A m \in Promises[campaign] : \A x \in Promised(m) :
              \/ Sight(m, x)' = Sight(m, x)
              \/ Sight(m, x)' \in Disturbed(campaign, Sight(m, x))
    PROVE  Earned'
<1>2. ASSUME NEW m \in Promises[campaign], NEW x \in Promised(m)
      PROVE  /\ Found(campaign, m, x, Sight(m, x)')
             /\ Stands(campaign, m, x, Sight(m, x)) => Stands(campaign, m, x, Sight(m, x)')
  <2>1. campaign \in DOMAIN Campaigns /\ Found(campaign, m, x, Sight(m, x))
    BY DEF Earned, EarnedFor, SchemaTyped, MigrationsTypeOK
  <2>2. Sight(m, x) \in Findable(campaign, m, x)
    BY <2>1, SightTyped DEF Earned
  <2>3. CASE Sight(m, x)' = Sight(m, x)
    BY <2>1, <2>3
  <2>4. CASE Sight(m, x)' \in Disturbed(campaign, Sight(m, x))
    BY <2>1, <2>2, <2>4, DisturbedKeeps
  <2> QED BY <2>3, <2>4
<1>3. \A m \in Promises[campaign] : \A x \in Promised(m) :
          m.id \in recorded => Stands(campaign, m, x, Sight(m, x))
  BY DEF Earned, EarnedFor
<1> QED BY <1>2, <1>3, EarnedKept

-----------------------------------------------------------------------------
LEMMA RunUnitKeeps ==
    ASSUME Earned, SchemaTyped', NEW o \in Operators, RunUnit(o)
    PROVE  Earned'
<1> DEFINE d == Transacted(Database, unit(o).steps)
           script == Campaigns[campaign][doing[o]]
<1>1. /\ doing[o] # NoScript /\ GoesOn(o) /\ d.ok /\ campaign' = campaign /\ unit(o).kind \in {"tx", "index", "pool"}
      /\ shape' = d.shape /\ dirty' = d.dirty /\ recorded' = d.recorded
  BY DEF RunUnit, Executable
<1>2. SchemaTyped /\ campaign \in DOMAIN Campaigns
  BY DEF Earned, SchemaTyped, MigrationsTypeOK
<1>3. Advances(o)
  BY <1>1, <1>2, GoesOnAdvances
<1>4. ASSUME NEW m \in Promises[campaign], NEW x \in Promised(m)
      PROVE  /\ Found(campaign, m, x, Sight(m, x)')
             /\ Stands(campaign, m, x, Sight(m, x)) => Stands(campaign, m, x, Sight(m, x)')
             /\ m.id \in recorded' => Stands(campaign, m, x, Sight(m, x)')
             /\ Establishes(campaign, unit(o), m, x) => Stands(campaign, m, x, Sight(m, x)')
  <2> DEFINE v == Sight(m, x)
             X == Watched[campaign][m][x]
             e == Excerpt(d, X, m.id)
  <2>1. e \in Outcomes(campaign, unit(o), m, x, v)
    BY <1>1, <1>2, UnitOutcome
  <2>2. EarnedFor(m, x)
    BY DEF Earned
  <2>3. Found(campaign, m, x, v) /\ (v.recorded # {} => Stands(campaign, m, x, v)) /\ v \in Findable(campaign, m, x)
    BY <1>2, <2>2, SightTyped DEF EarnedFor
  <2>4. script \in Range(Campaigns[campaign]) /\ at[o] \in DOMAIN script.units /\ unit(o) = script.units[at[o]]
    <3>1. script \in Range(Campaigns[campaign])
      BY <1>1, <1>2, UnitRun
    <3>2. script.units \in Seq(Range(script.units))
      BY <1>2, <3>1, CampaignsAssumption
    <3>3. at[o] \in 1 .. Len(script.units)
      BY <1>1, <1>2 DEF SchemaTyped
    <3>4. DOMAIN script.units = 1 .. Len(script.units)
      <4> HIDE DEF script
      <4> QED BY <3>2
    <3> QED BY <3>1, <3>3, <3>4 DEF unit
  <2>5. \A j \in 1 .. at[o] - 1 : Establishes(campaign, script.units[j], m, x) => Stands(campaign, m, x, v)
    BY <1>1, <2>2 DEF EarnedFor
  <2>6. v'.shape = e.shape /\ v'.dirty = e.dirty /\ (e.recorded # {} <=> m.id \in recorded')
    BY <1>1 DEF Sight, Excerpt, Database
  <2> DEFINE w == Sight(m, x)'
  <2>7. /\ Found(campaign, m, x, w) <=> Found(campaign, m, x, e)
        /\ Stands(campaign, m, x, w) <=> Stands(campaign, m, x, e)
    <3>1. w.shape = e.shape /\ w.dirty = e.dirty
      BY <2>6
    <3> HIDE DEF w, e
    <3> QED BY <3>1, SameSight
  <2> HIDE DEF w, e, v, script
  <2>8. /\ Found(campaign, m, x, e)
        /\ Stands(campaign, m, x, v) => Stands(campaign, m, x, e)
        /\ e.recorded # {} => Stands(campaign, m, x, e)
    <3> DEFINE n == at[o]
    <3>1. n \in DOMAIN script.units /\ script.units[n].kind \in {"tx", "index", "pool"}
          /\ e \in Outcomes(campaign, script.units[n], m, x, v)
      BY <1>1, <2>1, <2>4
    <3> HIDE DEF n
    <3>2. /\ Found(campaign, m, x, e)
          /\ Stands(campaign, m, x, v) => Stands(campaign, m, x, e)
          /\ (v.recorded # {} => Stands(campaign, m, x, v)) /\ e.recorded # {} =>
               \/ Stands(campaign, m, x, e)
               \/ \E j \in 1 .. n - 1 : Establishes(campaign, script.units[j], m, x)
      BY <1>2, <2>3, <2>4, <3>1, UnitKeeps
    <3> QED BY <2>3, <2>5, <3>2 DEF n
  <2>9. Establishes(campaign, unit(o), m, x) => Stands(campaign, m, x, e)
    BY <2>1, <2>3 DEF Establishes
  <2> QED BY <2>6, <2>7, <2>8, <2>9 DEF v, w
<1> QED BY <1>1, <1>3, <1>4, EarnedKept

LEMMA IndexFailsKeeps ==
    ASSUME Earned, SchemaTyped', NEW o \in Operators, IndexFails(o)
    PROVE  Earned'
<1>1. /\ doing[o] # NoScript /\ unit(o).kind = "index" /\ Stops(o) /\ UNCHANGED <<campaign, dirty, recorded>>
      /\ SchemaTyped /\ campaign \in DOMAIN Campaigns
  BY DEF IndexFails, Executable, Earned, SchemaTyped, MigrationsTypeOK
<1>2. PICK y \in UNION {s.on : s \in Range(unit(o).steps)} :
          shape[y] = "absent" /\ shape' = [shape EXCEPT ![y] = "invalid"]
  BY DEF IndexFails
<1>3. y \in Indexed[campaign]
  <2>1. Campaigns[campaign][doing[o]] \in Range(Campaigns[campaign])
        /\ unit(o) \in Range(Campaigns[campaign][doing[o]].units)
    BY <1>1, UnitRun
  <2> QED BY <1>1, <1>2, <2>1 DEF Indexed
<1>4. ASSUME NEW m \in Promises[campaign], NEW x \in Promised(m)
      PROVE  Sight(m, x)' = Sight(m, x) \/ Sight(m, x)' \in Disturbed(campaign, Sight(m, x))
  <2> DEFINE X == Watched[campaign][m][x]
             v == Sight(m, x)
             w == Sight(m, x)'
  <2>1. v \in Databases(X, {m.id}) /\ DOMAIN v.shape = X
    BY <1>1, SightTyped
  <2>2. X \in SUBSET Objects[campaign] /\ shape \in [Objects[campaign] -> Shapes]
    BY <1>1, WatchedWhole DEF SchemaTyped, MigrationsTypeOK
  <2>3. v = [shape |-> [z \in X |-> shape[z]], dirty |-> dirty \cap X, recorded |-> recorded \cap {m.id},
             ok |-> TRUE, skip |-> FALSE]
    BY DEF Sight, Excerpt, Database
  <2>4. w = [shape |-> [z \in X |-> shape'[z]], dirty |-> dirty \cap X, recorded |-> recorded \cap {m.id},
             ok |-> TRUE, skip |-> FALSE]
    BY <1>1 DEF Sight, Excerpt, Database
  <2> HIDE DEF v, w, X
  <2>5. CASE y \notin X
    <3>1. [z \in X |-> shape'[z]] = [z \in X |-> shape[z]]
      BY <1>2, <2>2, <2>5
    <3>2. w = v
      BY <2>3, <2>4, <3>1
    <3> QED BY <3>2 DEF v, w
  <2>6. CASE y \in X
    <3>1. [z \in X |-> shape'[z]] = [v.shape EXCEPT ![y] = "invalid"]
      BY <1>2, <2>2, <2>3, <2>6
    <3>2. v.shape[y] = "absent" /\ y \in DOMAIN v.shape \cap Indexed[campaign]
      BY <1>2, <1>3, <2>1, <2>3, <2>6
    <3> DEFINE u == [v EXCEPT !.shape[y] = "invalid"]
    <3>3. u = [v EXCEPT !.shape = [v.shape EXCEPT ![y] = "invalid"]]
      OBVIOUS
    <3>4. u.shape = w.shape /\ u.dirty = w.dirty /\ u.recorded = w.recorded /\ u.ok = w.ok /\ u.skip = w.skip
          /\ u \in Databases(X, {m.id})
      <4>1. [v.shape EXCEPT ![y] = "invalid"] \in [X -> Shapes]
        BY <2>1 DEF Databases, Shapes
      <4> DEFINE new == [v.shape EXCEPT ![y] = "invalid"]
      <4>2. u = [v EXCEPT !.shape = new]
        BY <3>3
      <4> HIDE DEF new, u
      <4>3. u \in Databases(X, {m.id}) /\ u.shape = new /\ u.dirty = v.dirty /\ u.recorded = v.recorded
            /\ u.ok = v.ok /\ u.skip = v.skip
        BY <2>1, <4>1, <4>2 DEF Databases, new
      <4>4. w.shape = new
        BY <2>4, <3>1 DEF new
      <4> QED BY <2>3, <2>4, <4>3, <4>4
    <3>5. u \in Disturbed(campaign, v)
      BY <3>2 DEF Disturbed
    <3>6. w \in Databases(X, {m.id})
      <4>1. [z \in X |-> shape'[z]] \in [X -> Shapes]
        BY <2>1, <2>3, <3>1 DEF Databases, Shapes
      <4> QED BY <2>4, <4>1 DEF Databases
    <3>7. u = w
      <4> HIDE DEF u
      <4> QED BY <3>4, <3>6, SameDatabase
    <3> HIDE DEF u
    <3> QED BY <3>5, <3>7 DEF v, w
  <2> QED BY <2>5, <2>6
<1>5. Halts
  BY <1>1, StopsHalts
<1> QED BY <1>1, <1>4, <1>5, DisturbanceKeeps

(* A row breaks a rule, or is repaired.                                    *)
LEMMA DirtySight ==
    ASSUME SchemaTyped, NEW m \in Promises[campaign], NEW x \in Promised(m), NEW soiled, NEW v,
           v = [shape |-> [z \in Watched[campaign][m][x] |-> shape[z]], dirty |-> soiled \cap Watched[campaign][m][x],
                recorded |-> recorded \cap {m.id}, ok |-> TRUE, skip |-> FALSE],
           UNCHANGED <<campaign, shape, recorded>>,
           \/ \E y \in Breakable(campaign, shape) : dirty' = soiled \cup {y}
           \/ \E y \in soiled : dirty' = soiled \ {y}
    PROVE  Sight(m, x)' = v \/ Sight(m, x)' \in Disturbed(campaign, v)
<1> DEFINE X == Watched[campaign][m][x]
           w == Sight(m, x)'
<1>1. campaign \in DOMAIN Campaigns
  BY DEF SchemaTyped, MigrationsTypeOK
<1>2. X \in SUBSET Objects[campaign] /\ shape \in [Objects[campaign] -> Shapes]
  BY <1>1, WatchedWhole DEF SchemaTyped, MigrationsTypeOK
<1>3. v = [shape |-> [z \in X |-> shape[z]], dirty |-> soiled \cap X, recorded |-> recorded \cap {m.id},
           ok |-> TRUE, skip |-> FALSE]
  OBVIOUS
<1>4. w = [shape |-> [z \in X |-> shape[z]], dirty |-> dirty' \cap X, recorded |-> recorded \cap {m.id},
           ok |-> TRUE, skip |-> FALSE]
  BY DEF Sight, Excerpt, Database
<1>7. ASSUME NEW D \in SUBSET X, dirty' \cap X = D PROVE w = [v EXCEPT !.dirty = D]
  <2> DEFINE u == [v EXCEPT !.dirty = D]
  <2>1. [z \in X |-> shape[z]] \in [X -> Shapes]
    BY <1>2
  <2>2. v \in Databases(X, {m.id}) /\ w \in Databases(X, {m.id})
    BY <1>3, <1>4, <2>1 DEF Databases
  <2>3. u \in Databases(X, {m.id})
    BY <2>2 DEF Databases
  <2>4. u.shape = w.shape /\ u.dirty = w.dirty /\ u.recorded = w.recorded /\ u.ok = w.ok /\ u.skip = w.skip
    BY <1>3, <1>4, <1>7
  <2> HIDE DEF u
  <2>5. u = w
    BY <2>2, <2>3, <2>4, SameDatabase
  <2> QED BY <2>5 DEF u
<1> SUFFICES w = v \/ w \in Disturbed(campaign, v)
  OBVIOUS
<1> HIDE DEF w, X
<1>5. ASSUME NEW y \in Breakable(campaign, shape), dirty' = soiled \cup {y} PROVE w = v \/ w \in Disturbed(campaign, v)
  <2>1. CASE y \in X
    <3>1. v.shape[y] = shape[y] /\ y \in DOMAIN v.shape
      BY <1>3, <2>1
    <3>2. y \in Breakable(campaign, v.shape)
      BY <1>5, <3>1 DEF Breakable
    <3>3. w = [v EXCEPT !.dirty = v.dirty \cup {y}]
      <4>1. dirty' \cap X = v.dirty \cup {y} /\ v.dirty \cup {y} \in SUBSET X
        BY <1>3, <1>5, <2>1
      <4> QED BY <1>7, <4>1
    <3> QED BY <3>2, <3>3 DEF Disturbed
  <2>2. CASE y \notin X
    <3>1. dirty' \cap X = soiled \cap X
      BY <1>5, <2>2
    <3> QED BY <1>3, <1>4, <3>1
  <2> QED BY <2>1, <2>2
<1>6. ASSUME NEW y \in soiled, dirty' = soiled \ {y} PROVE w = v \/ w \in Disturbed(campaign, v)
  <2>1. CASE y \in X
    <3>1. w = [v EXCEPT !.dirty = v.dirty \ {y}]
      <4>1. dirty' \cap X = v.dirty \ {y} /\ v.dirty \ {y} \in SUBSET X
        BY <1>3, <1>6
      <4> QED BY <1>7, <4>1
    <3>2. y \in v.dirty
      BY <1>3, <2>1
    <3> QED BY <3>1, <3>2 DEF Disturbed
  <2>2. CASE y \notin X
    <3>1. dirty' \cap X = soiled \cap X
      BY <1>6, <2>2
    <3> QED BY <1>3, <1>4, <3>1
  <2> QED BY <2>1, <2>2
<1> QED BY <1>5, <1>6

LEMMA DirtyKeeps ==
    ASSUME Earned, SchemaTyped', WriteBadRow \/ Repair
    PROVE  Earned'
<1>1. UNCHANGED <<campaign, shape, recorded, doing, at, held>>
      /\ \/ \E y \in Breakable(campaign, shape) : dirty' = dirty \cup {y}
         \/ \E y \in dirty : dirty' = dirty \ {y}
  BY DEF WriteBadRow, Repair
<1>2. ASSUME NEW m \in Promises[campaign], NEW x \in Promised(m)
      PROVE  Sight(m, x)' = Sight(m, x) \/ Sight(m, x)' \in Disturbed(campaign, Sight(m, x))
  <2> DEFINE v == Sight(m, x)
  <2>1. v = [shape |-> [z \in Watched[campaign][m][x] |-> shape[z]], dirty |-> dirty \cap Watched[campaign][m][x],
             recorded |-> recorded \cap {m.id}, ok |-> TRUE, skip |-> FALSE]
    BY DEF Sight, Excerpt, Database
  <2>2. SchemaTyped
    BY DEF Earned
  <2> HIDE DEF v
  <2>3. Sight(m, x)' = v \/ Sight(m, x)' \in Disturbed(campaign, v)
    BY <1>1, <2>1, <2>2, DirtySight
  <2> QED BY <2>3 DEF v
<1>3. Halts
  BY <1>1 DEF Halts, Earned, SchemaTyped, MigrationsTypeOK
<1> QED BY <1>1, <1>2, <1>3, DisturbanceKeeps

LEMMA EarnedStep ==
    ASSUME Earned, [MigrationsNext]_migrationVars
    PROVE  Earned'
<1>0. SchemaTyped /\ SchemaTyped'
  BY SchemaTypedKept DEF Earned
<1> USE <1>0
<1>1. CASE UNCHANGED migrationVars
  <2>1. \A m, x : Sight(m, x)' = Sight(m, x)
    BY <1>1 DEF Sight, Excerpt, Database, migrationVars
  <2> QED BY <1>1, <2>1 DEF Earned, EarnedFor, migrationVars
<1>2. ASSUME NEW o \in Operators, NEW k \in DOMAIN Campaigns[campaign], BeginScript(o, k) PROVE Earned'
  <2>1. Halts
    <3>1. doing[o] = NoScript /\ doing' = [doing EXCEPT ![o] = k] /\ at' = [at EXCEPT ![o] = 1]
      BY <1>2 DEF BeginScript
    <3> QED BY <3>1 DEF Halts, SchemaTyped, MigrationsTypeOK
  <2> QED BY <1>2, <2>1, UntouchedKeeps DEF BeginScript
<1>3. ASSUME NEW o \in Operators, Lock_(o) \/ Unlock_(o) PROVE Earned'
  <2>1. doing[o] # NoScript /\ GoesOn(o) /\ unit(o).kind \notin {"tx", "index", "pool"}
        /\ UNCHANGED <<campaign, shape, dirty, recorded>>
    BY <1>3 DEF Lock_, Unlock_
  <2>2. Advances(o)
    BY <2>1, GoesOnAdvances
  <2> QED BY <2>1, <2>2, UntouchedKeeps
<1>4. ASSUME NEW o \in Operators, RunUnit(o) PROVE Earned'
  BY <1>4, RunUnitKeeps
<1>5. ASSUME NEW o \in Operators, Refuse(o) \/ Crash(o) PROVE Earned'
  <2>1. Stops(o) /\ UNCHANGED <<campaign, shape, dirty, recorded>>
    BY <1>5 DEF Refuse, Crash
  <2>2. Halts
    BY <2>1, StopsHalts
  <2> QED BY <2>1, <2>2, UntouchedKeeps
<1>6. ASSUME NEW o \in Operators, IndexFails(o) PROVE Earned'
  BY <1>6, IndexFailsKeeps
<1>7. CASE WriteBadRow \/ Repair
  BY <1>7, DirtyKeeps
<1> QED BY <1>1, <1>2, <1>3, <1>4, <1>5, <1>6, <1>7 DEF MigrationsNext, Proceeds

(* A boot that stopped leaves nothing that the scripts do not expect.      *)
LEMMA InitEarned == MigrationsInit => Earned
<1> SUFFICES ASSUME MigrationsInit PROVE Earned
  OBVIOUS
<1>1. SchemaTyped /\ campaign \in DOMAIN Campaigns
  BY InitSchemaTyped DEF SchemaTyped, MigrationsTypeOK
<1>2. doing = [o \in Operators |-> NoScript] /\ recorded = {}
  BY DEF MigrationsInit
<1>3. ASSUME NEW m \in Promises[campaign], NEW x \in Promised(m) PROVE Found(campaign, m, x, Sight(m, x))
  <2> DEFINE X == Watched[campaign][m][x]
             v == [shape |-> [z \in X |-> shape[z]], dirty |-> {}, recorded |-> {}, ok |-> TRUE, skip |-> FALSE]
  <2>1. PICK boot \in Promises[campaign] : \E n \in 0 .. Len(boot.sql) :
            shape = AllOf(Base[campaign], SubSeq(boot.sql, 1, n)).shape
    BY DEF MigrationsInit
  <2>2. PICK n \in 0 .. Len(boot.sql) : shape = AllOf(Base[campaign], SubSeq(boot.sql, 1, n)).shape
    BY <2>1
  <2> DEFINE booted == Excerpt(AllOf(Base[campaign], SubSeq(boot.sql, 1, n)), X, m.id)
  <2>3. Found(campaign, m, x, booted)
    BY <1>1, ScriptsAssumption
  <2>4. booted.shape = v.shape
    BY <2>2 DEF Excerpt
  <2> HIDE DEF booted
  <2>5. Found(campaign, m, x, v)
    <3>1. v.dirty = {}
      OBVIOUS
    <3> HIDE DEF v
    <3> QED BY <2>3, <2>4, <3>1 DEF Found, InForce
  <2>6. v \in Findable(campaign, m, x)
    <3>1. X \in SUBSET Objects[campaign] /\ shape \in [Objects[campaign] -> Shapes]
      BY <1>1, WatchedWhole DEF SchemaTyped, MigrationsTypeOK
    <3>2. [z \in X |-> shape[z]] \in [X -> Shapes]
      BY <3>1
    <3>3. v \in [shape : [X -> Shapes], dirty : SUBSET X, recorded : SUBSET {m.id}, ok : {TRUE}, skip : {FALSE}]
      BY <3>2
    <3> HIDE DEF v
    <3> QED BY <2>5, <3>3 DEF Findable
  <2>8. CASE dirty \cap X = {}
    <3>1. Sight(m, x) = v
      BY <1>2, <2>8 DEF Sight, Excerpt, Database
    <3> QED BY <2>5, <3>1
  <2>9. CASE dirty \cap X # {}
    <3>1. PICK y \in Breakable(campaign, shape) : dirty = {y}
      BY <2>9 DEF MigrationsInit
    <3>2. y \in X /\ y \in Breakable(campaign, v.shape)
      BY <2>9, <3>1 DEF Breakable
    <3>3. Sight(m, x) = [v EXCEPT !.dirty = v.dirty \cup {y}]
      <4> DEFINE u == [v EXCEPT !.dirty = v.dirty \cup {y}]
                 w == Sight(m, x)
      <4>1. w \in Databases(X, {m.id})
        BY <1>1, SightTyped
      <4>2. w.shape = v.shape /\ w.dirty = v.dirty \cup {y} /\ w.recorded = {} /\ w.ok = TRUE /\ w.skip = FALSE
        BY <1>2, <2>9, <3>1 DEF Sight, Excerpt, Database
      <4>3. v \in Databases(X, {m.id}) /\ v.recorded = {} /\ v.ok = TRUE /\ v.skip = FALSE
        BY <4>1, <4>2 DEF Databases
      <4> HIDE DEF v, w
      <4>4. u \in Databases(X, {m.id}) /\ u.shape = v.shape /\ u.dirty = v.dirty \cup {y} /\ u.recorded = {}
            /\ u.ok = TRUE /\ u.skip = FALSE
        BY <3>2, <4>3 DEF Databases
      <4> HIDE DEF u
      <4> QED BY <4>1, <4>2, <4>4, SameDatabase DEF u, w
    <3>4. Sight(m, x) \in Disturbed(campaign, v)
      <4> HIDE DEF v
      <4> QED BY <3>2, <3>3 DEF Disturbed
    <3> HIDE DEF v
    <3> QED BY <1>1, <2>6, <3>4, DisturbedKeeps
  <2> QED BY <2>8, <2>9
<1> QED BY <1>1, <1>2, <1>3 DEF Earned, EarnedFor

LEMMA EarnedHolds == Earned => LedgerIsEarned
<1> SUFFICES ASSUME Earned, NEW m \in Promises[campaign], m.id \in recorded, NEW x \in Promised(m)
             PROVE  Stands(campaign, m, x, Database)
  BY DEF LedgerIsEarned
<1>1. Stands(campaign, m, x, Sight(m, x)) /\ SchemaTyped /\ campaign \in DOMAIN Campaigns
  BY DEF Earned, EarnedFor, SchemaTyped, MigrationsTypeOK
<1>2. x \in Watched[campaign][m][x]
  BY <1>1, WatchedWhole
<1>3. Sight(m, x).shape[x] = shape[x] /\ (x \in Sight(m, x).dirty <=> x \in dirty)
  BY <1>2 DEF Sight, Excerpt, Database
<1>4. Database.shape[x] = shape[x] /\ Database.dirty = dirty
  BY DEF Database
<1> QED BY <1>1, <1>3, <1>4 DEF Stands

-----------------------------------------------------------------------------
(* All parts together.  Only the part that moves is known to be sound; the *)
(* cards of the other behaviours stay as they were seeded.                 *)
RecordsSound ==
    /\ In("families", FamiliesSound)
    /\ In("studies", StudiesSound)
    /\ In("staffing", StaffSound)
    /\ CardFollowsLatestRound

LEMMA InitRecordsSound == RecordsInit => RecordsSound
<1> SUFFICES ASSUME RecordsInit PROVE RecordsSound
  OBVIOUS
<1>1. FamiliesSound
  BY FamiliesInitSound DEF RecordsInit
<1>2. StudiesSound
  BY StudiesInitSound DEF RecordsInit
<1>3. StaffSound
  BY StaffInitSound DEF RecordsInit
<1> QED BY <1>1, <1>2, <1>3 DEF RecordsSound, In, StudiesSound, CardRowsFit

LEMMA FamiliesStay == ASSUME FamiliesSound, UNCHANGED <<run, familyVars>> PROVE FamiliesSound'
<1>1. UNCHANGED <<run, student, parent, guardian, kin, past, wish, rejoined>>
  BY DEF familyVars, familyRows
<1>2. DOMAIN run' = Instances /\ LocksExclude'
  BY <1>1 DEF FamiliesSound, LocksExclude
<1>3. FamilyRowsFit'
  BY RowsStay DEF FamiliesSound
<1>4. \A p \in Instances : FamilySees(p)'
  BY <1>1 DEF FamiliesSound, FamilySees, SawStudent, SawIntake, MadeFor, Seen
<1> QED BY <1>2, <1>3, <1>4 DEF FamiliesSound

LEMMA StaffStays == ASSUME StaffSound, UNCHANGED <<run, staffVars>> PROVE StaffSound'
<1>1. UNCHANGED <<run, employed, contract, present>>
  BY DEF staffVars
<1>2. DOMAIN run' = Instances /\ LocksExclude'
  BY <1>1 DEF StaffSound, LocksExclude
<1>3. StaffRowsFit'
  BY <1>1, StaffRowsStay DEF StaffSound
<1>4. \A p \in Instances : SawContracts(p)'
  BY <1>1 DEF StaffSound, SawContracts, Was
<1> QED BY <1>2, <1>3, <1>4 DEF StaffSound

LEMMA StudiesStay == ASSUME StudiesSound, UNCHANGED <<run, studyVars, counselVars>> PROVE StudiesSound'
<1>1. UNCHANGED <<studyRows, revived, resumed>>
  BY DEF studyVars
<1>2. DOMAIN run' = Instances /\ LocksExclude'
  BY DEF StudiesSound, LocksExclude
<1>3. StudyRowsFit' /\ CardRowsFit'
  BY <1>1, StudyRowsStay, CardRowsStay DEF StudiesSound
<1>4. \A p \in Instances : HoldsItsKeys(p)'
  BY DEF StudiesSound, HoldsItsKeys, Read
<1>5. \A p \in Instances : Sees(p)'
  BY <1>1 DEF StudiesSound, Sees, SeesPupil, SeesCourse, SeesSubject, SeesRoadmap, SeesName, SeesCard,
              SeesEnrollment, IsOf, MadeAs, Read, studyRows, counselVars, cardRows
<1> QED BY <1>2, <1>3, <1>4, <1>5 DEF StudiesSound

LEMMA RecordsKeep == ASSUME RecordsSound, [RecordsNext]_recordsVars PROVE RecordsSound'
<1>1. CASE part = "families" /\ RecordsNext
  <2>1. part' = part /\ FamiliesNext /\ UNCHANGED counselVars
    BY <1>1 DEF RecordsNext
  <2>2. FamiliesSound'
    BY <1>1, <2>1, FamiliesNextKeeps DEF RecordsSound, In
  <2>3. CardFollowsLatestRound'
    BY <2>1 DEF RecordsSound, CardFollowsLatestRound, counselVars, cardRows
  <2> QED BY <1>1, <2>1, <2>2, <2>3 DEF RecordsSound, In
<1>2. CASE part = "studies" /\ RecordsNext
  <2>1. part' = part /\ StudiesOrCounselNext
    BY <1>2 DEF RecordsNext
  <2>2. StudiesSound'
    BY <1>2, <2>1, StudiesNextKeeps, CounselNextKeeps DEF RecordsSound, In, StudiesOrCounselNext
  <2> QED BY <1>2, <2>1, <2>2 DEF RecordsSound, In, StudiesSound, CardRowsFit
<1>3. CASE part = "staffing" /\ RecordsNext
  <2>1. part' = part /\ StaffingNext /\ UNCHANGED counselVars
    BY <1>3 DEF RecordsNext
  <2>2. StaffSound'
    BY <1>3, <2>1, StaffingNextKeeps DEF RecordsSound, In
  <2>3. CardFollowsLatestRound'
    BY <2>1 DEF RecordsSound, CardFollowsLatestRound, counselVars, cardRows
  <2> QED BY <1>3, <2>1, <2>2, <2>3 DEF RecordsSound, In
<1>4. CASE UNCHANGED <<part, run, othersVars>>
  <2>1. CardFollowsLatestRound'
    BY <1>4 DEF RecordsSound, CardFollowsLatestRound, othersVars, counselVars, cardRows
  <2>2. part = "families" => FamiliesSound'
    BY <1>4, FamiliesStay DEF RecordsSound, In, othersVars
  <2>3. part = "studies" => StudiesSound'
    BY <1>4, StudiesStay DEF RecordsSound, In, othersVars
  <2>4. part = "staffing" => StaffSound'
    BY <1>4, StaffStays DEF RecordsSound, In, othersVars
  <2> QED BY <1>4, <2>1, <2>2, <2>3, <2>4 DEF RecordsSound, In
<1> QED BY <1>1, <1>2, <1>3, <1>4 DEF RecordsNext, recordsVars

LEMMA AlwaysRecordsSound == RecordsSpec => []RecordsSound
BY InitRecordsSound, RecordsKeep, PTL DEF RecordsSpec

(* createAcademicHistory, transitionAcademicProfile, the contracts of      *)
(* teachers: on no day is a student in two schools or a teacher under two  *)
(* contracts, whatever commands ran side by side.                          *)
THEOREM PeriodsApart == RecordsSpec => []PeriodsNeverOverlap
<1>1. RecordsSound => PeriodsNeverOverlap
  BY DEF RecordsSound, In, PeriodsNeverOverlap, FamiliesSound, FamilyRowsFit, StaffSound, StaffRowsFit
<1> QED BY <1>1, AlwaysRecordsSound, PTL

(* student-interests.service, roadmaps.service: a list that several        *)
(* managers add to, take from and reorder stays 1, 2, ... without a gap.   *)
THEOREM OrdersDense == RecordsSpec => []OrdersStayDense
<1>1. RecordsSound => OrdersStayDense
  BY DEF RecordsSound, In, OrdersStayDense, FamiliesSound, FamilyRowsFit, StudiesSound, StudyRowsFit
<1> QED BY <1>1, AlwaysRecordsSound, PTL

(* attachGuardianInTx, resolveSubjectCourse, convert: however many         *)
(* commands look for a guardian, a subject or an enrollment that is        *)
(* missing, one of them makes it.                                          *)
THEOREM MadeOnce == RecordsSpec => []FoundOrMadeOnce
<1>1. ConvertedOnce /\ converted \in [Forms -> Nat] /\ reopened \in [Forms -> Nat] => OneConversion
  BY DEF ConvertedOnce, OneConversion
<1>2. RecordsSound => FoundOrMadeOnce
  BY <1>1 DEF RecordsSound, In, FoundOrMadeOnce, FamiliesSound, FamilyRowsFit, StudiesSound, StudyRowsFit,
              CardRowsFit
<1> QED BY <1>2, AlwaysRecordsSound, PTL

(* students.remove, courses.remove, roadmaps.remove: no guardian, relative *)
(* or enrollment in force of a student who is gone, and no enrollment in a *)
(* course or a roadmap that is gone.                                       *)
THEOREM NothingNamed == RecordsSpec => []NothingNamesWhatIsGone
<1>1. RecordsSound => NothingNamesWhatIsGone
  BY DEF RecordsSound, In, NothingNamesWhatIsGone, FamiliesSound, FamilyRowsFit, StudiesSound, StudyRowsFit
<1> QED BY <1>1, AlwaysRecordsSound, PTL

(* createRound, updateRound, removeRound: the next contact of a card is    *)
(* the one its latest round agreed on, unless somebody edited the card.    *)
THEOREM CardsFollow == RecordsSpec => []CardFollowsLatestRound
<1>1. RecordsSound => CardFollowsLatestRound
  BY DEF RecordsSound
<1> QED BY <1>1, AlwaysRecordsSound, PTL

-----------------------------------------------------------------------------
(* The rows of a table and the two documents, as parts of the whole.       *)
LEMMA MirrorInRecords == RecordsSpec => MirrorSpec
<1>1. RecordsInit => MirrorInit
  BY DEF RecordsInit
<1>2. [RecordsNext]_recordsVars => [MirrorNext]_mirrorVars
  BY DEF RecordsNext, recordsVars
<1> QED BY <1>1, <1>2, PTL DEF RecordsSpec, MirrorSpec

LEMMA LedgersInRecords == RecordsSpec => LedgersSpec
<1>1. RecordsInit => LedgersInit
  BY DEF RecordsInit
<1>2. [RecordsNext]_recordsVars => [PaymentsNext \/ ExpensesNext]_ledgersVars
  BY DEF RecordsNext, recordsVars
<1> QED BY <1>1, <1>2, PTL DEF RecordsSpec, LedgersSpec

(* transaction, in-memory.database.ts: a transaction that is undone leaves *)
(* no row in the mirror, whatever GETs and other writes run beside it.     *)
THEOREM UndoneLeavesNothing == RecordsSpec => []NoGhostRows
BY MirrorInRecords, MirrorHasNoGhosts, PTL

(* lockTargets and then the refresh: what a command has locked is in the   *)
(* mirror as it is in the database, through all of its own writes.         *)
THEOREM LockedAreSeen == RecordsSpec => []LockedRowsAreCurrent
BY MirrorInRecords, MirrorShowsLocked, PTL

(* update: the audit trail of an invoice's amount has no gap and no        *)
(* overwritten step.                                                       *)
THEOREM Audit == RecordsSpec => []AuditIsAChain
BY LedgersInRecords, LedgersAudit, PTL

(* markPaid, update; approve, withdraw: what was collected is what the     *)
(* invoice says, and an approved expense is in the ledger exactly once.    *)
THEOREM DocumentsMatch == RecordsSpec => []DocumentsMatchLedger
BY LedgersInRecords, LedgersMatch, PTL

(* markPaid, refund, approve: an invoice or an expense enters the ledger   *)
(* at most once and leaves it at most once, by the amount it entered with. *)
THEOREM ImplementLedger == RecordsSpec => KeepsTheBooks
BY LedgersInRecords, LedgersBook, PTL

-----------------------------------------------------------------------------
(* The schema as a part of the whole.                                      *)
SchemaSound == IF part = "schema" THEN Earned ELSE campaign = NoScript

LEMMA AlwaysSchemaSound == RecordsSpec => []SchemaSound
<1>1. RecordsInit => SchemaSound
  BY InitEarned DEF RecordsInit, SchemaSound, NoCampaign
<1>2. ASSUME SchemaSound, [RecordsNext]_recordsVars PROVE SchemaSound'
  <2>1. CASE part = "schema"
    <3>1. part' = part /\ [MigrationsNext]_migrationVars
      BY <1>2, <2>1 DEF RecordsNext, recordsVars
    <3> QED BY <1>2, <2>1, <3>1, EarnedStep DEF SchemaSound
  <2>2. CASE part # "schema"
    <3>1. part' = part /\ campaign' = campaign
      BY <1>2, <2>2 DEF RecordsNext, recordsVars, migrationVars
    <3> QED BY <1>2, <2>2, <3>1 DEF SchemaSound
  <2> QED BY <2>1, <2>2
<1> QED BY <1>1, <1>2, PTL DEF RecordsSpec

(* verify-migration-ledger, the scripts: what schema_migrations says was   *)
(* done stands in the catalogue, however many operators run however many   *)
(* scripts side by side, and whatever crashed, failed or was written in    *)
(* between.                                                                *)
THEOREM LedgerEarned == RecordsSpec => []LedgerIsEarned
<1>1. SchemaSound => LedgerIsEarned
  BY EarnedHolds DEF SchemaSound, LedgerIsEarned
<1> QED BY <1>1, AlwaysSchemaSound, PTL

-----------------------------------------------------------------------------
(* What each part keeps of its rows has the type it says.                  *)
LEMMA FamilyTypes == FamiliesSound => FamiliesTypeOK /\ LocksExclude
<1> SUFFICES ASSUME FamiliesSound PROVE FamiliesTypeOK /\ LocksExclude
  OBVIOUS
<1> USE DEF FamiliesSound, FamilyRowsFit, FamiliesTyped
<1>1. ASSUME NEW s \in Students PROVE wish[s] \in [Targets -> 0 .. Cardinality(Targets)]
  <2> DEFINE row == wish[s]
             N == Cardinality(Wished(row))
  <2>1. row \in [Targets -> Nat] /\ {row[t] : t \in Wished(row)} = 1 .. N
    BY DEF WishesStayRanked, Ranked
  <2>2. N \in Nat /\ Cardinality(Targets) \in Nat /\ N <= Cardinality(Targets)
    <3>1. IsFiniteSet(Targets) /\ Wished(row) \subseteq Targets
      BY FamilyCommandsAssumption DEF Wished
    <3> QED BY <3>1, FS_Subset, FS_CardinalityType
  <2> HIDE DEF row, N
  <2>3. ASSUME NEW t \in Targets PROVE row[t] \in 0 .. Cardinality(Targets)
    <3>1. CASE row[t] = 0
      BY <2>2, <3>1
    <3>2. CASE row[t] # 0
      <4>1. t \in Wished(row)
        BY <2>1, <3>2 DEF Wished
      <4>2. row[t] \in 1 .. N
        BY <2>1, <4>1
      <4> QED BY <2>2, <4>2
    <3> QED BY <3>1, <3>2
  <2> QED BY <2>1, <2>3 DEF row
<1>2. \A g \in Parents : parent[g].status \in {"absent", "active", "removed"}
  BY DEF ParentRow
<1>3. wish \in [Students -> [Targets -> 0 .. Cardinality(Targets)]]
  BY <1>1
<1> QED BY <1>2, <1>3 DEF FamiliesTypeOK, Links

LEMMA StudyTypes == StudiesSound => StudiesTypeOK /\ CounselTypeOK /\ LocksExclude
<1> SUFFICES ASSUME StudiesSound PROVE StudiesTypeOK /\ CounselTypeOK /\ LocksExclude
  OBVIOUS
<1>1. StudyTyped /\ CardRowsFit /\ LocksExclude
  BY DEF StudiesSound, StudyRowsFit
<1>2. \A x \in StudyCourses : course[x].status \in {"absent", "active", "removed"} /\ course[x].subject \in Subjects
  BY <1>1 DEF StudyTyped, CourseRows, Standing
<1>3. ASSUME NEW s \in Pupils, NEW x \in StudyCourses
      PROVE  /\ enrolled[s][x].status \in EnrollmentStatuses \cup {"none"}
             /\ enrolled[s][x].roadmap \in Roadmaps \cup {NoRoadmap}
  <2>1. enrolled[s][x] \in EnrollmentRows
    BY <1>1 DEF StudyTyped
  <2> QED BY <2>1 DEF EnrollmentRows, NotEnrolled
<1>4. ASSUME NEW f \in Forms
      PROVE  /\ card[f].student \in Pupils /\ card[f].next \in Contacts \cup {Unset}
             /\ \A i \in Rounds(round[f]) : round[f][i].next \in Contacts \cup {Unset}
  <2>1. card[f] \in CardRows /\ \A i \in RoundSlots : round[f][i] \in RoundRows
    BY <1>1 DEF CardRowsFit
  <2> QED BY <2>1 DEF CardRows, RoundRows, Rounds
<1>5. pupil \in [Pupils -> {"visible", "hidden", "removed"}]
  BY <1>1 DEF StudyTyped
<1> QED BY <1>1, <1>2, <1>3, <1>4, <1>5 DEF StudiesTypeOK, CounselTypeOK

LEMMA MirrorTypes == Faithful => MirrorTypeOK
BY DEF Faithful, Shaped, MirrorTypeOK, Rows

(* The rows of every part have the type their table gives them, and no two *)
(* commands or sessions hold one lock.                                     *)
THEOREM RecordsAreTyped == RecordsSpec => []RecordsTypeOK
<1>1. RecordsSound /\ Faithful /\ P!TypeOK /\ E!TypeOK /\ SchemaSound => RecordsTypeOK
  BY FamilyTypes, StudyTypes, MirrorTypes
     DEF RecordsSound, In, RecordsTypeOK, StaffSound, StaffRowsFit, SchemaSound, Earned, SchemaTyped
<1> QED BY <1>1, AlwaysRecordsSound, AlwaysSchemaSound, MirrorInRecords, AlwaysFaithful, LedgersInRecords,
           LedgersTyping, PTL
=============================================================================
