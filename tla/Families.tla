------------------------------ MODULE Families ------------------------------
(***************************************************************************)
(* Students and their guardians: registration, guardian links, relatives,  *)
(* school history and the courses a student wishes for (students.service,  *)
(* student-interests.service, parents.service, registrations.service).     *)
(*                                                                         *)
(* A command's answers, names, grades and contact data are left out; a     *)
(* guardian is known by the key of his intake, phone number and name;      *)
(* "blank" is one without a number, "none" an intake without a guardian.   *)
(* Days are numbers, Forever the end of a period that is still open.       *)
(***************************************************************************)
EXTENDS UnitOfWork

CONSTANTS Students, Parents,
          Slots,           \* rows a student may have in student_academic_histories
          Targets,         \* courses and labels a student may wish for
          Today, Forever,
          FamilySeeds,     \* the rows there are before the first command
          FamilyCommands,
          MaxFamily        \* bound: commands that begin

VARIABLES student,         \* students: "absent", "active" or "removed"
          parent,          \* parents: [status, key, how]
          guardian,        \* parent_student_relations: "none", "linked", "primary"
          kin,             \* student_family_relations
          past,            \* student_academic_histories: periods
          wish,            \* student_interests: the priority of each target, or 0
          families,        \* counts up to MaxFamily
          rejoined         \* history: students related to somebody after their removal

familyRows == <<student, parent, guardian, kin, past, wish>>
familyVars == <<familyRows, families, rejoined>>

NoParent == [status |-> "absent", key |-> "none", how |-> "none"]
NoPeriod == [from |-> 0, to |-> 0]
SinceToday == [from |-> Today, to |-> Forever]

(* What a client may send: validated before a command begins.              *)
ASSUME FamilyCommandsAssumption ==
    /\ IsFiniteSet(Targets) /\ Today \in Nat \ {0} /\ Forever \in Nat
    /\ \A c \in FamilyCommands :
         /\ c.op # "none"
         /\ c.op \notin {"removeParent", "editParent", "relate", "part"} => c.s \in Students
         /\ c.op \in {"link", "newParent", "makePrimary", "unlink", "removeGuardian",
                      "removeParent", "editParent"} => c.g \in Parents
         /\ c.op \in {"relate", "part"} => c.kin \in SUBSET Students /\ Cardinality(c.kin) = 2
         /\ c.op = "register" => c.kin \in SUBSET (Students \ {c.s})
         /\ c.op \in {"addPast", "editPast"} => c.period \in [from : Nat, to : Nat]
         /\ c.op \in {"editPast", "dropPast"} => c.row \in Slots
         /\ c.op \in {"setWishes", "register"} => c.wishes \in [Targets -> Nat]
         /\ c.op \in {"addWish", "dropWish"} => c.t \in Targets
         /\ c.op = "addWish" => c.rank \in Nat

FamiliesInit ==
    /\ families = 0 /\ rejoined = {}
    /\ \E seed \in FamilySeeds :
         /\ student = seed.student /\ parent = seed.parent /\ guardian = seed.guardian
         /\ kin = seed.kin /\ past = seed.past /\ wish = seed.wish

-----------------------------------------------------------------------------
(* The keys of each command.  registrations.register takes the relative's  *)
(* lock last; what it read before is not touched by others meanwhile.      *)
StudentLock(s) == {<<"student", s>>}
ParentLock(g)  == {<<"parent", g>>}
IntakeLock(k)  == IF k \in {"none", "blank"} THEN {} ELSE {<<"parentIntake", k>>}

FamilyKeys(c) ==
    CASE c.op = "register"      -> IntakeLock(c.key) \cup UNION {StudentLock(r) : r \in c.kin \cup {c.s}}
      [] c.op \in {"relate", "part"} -> UNION {StudentLock(r) : r \in c.kin}
      [] c.op = "removeGuardian" -> StudentLock(c.s) \cup ParentLock(c.g)
      [] c.op \in {"removeParent", "editParent"} -> ParentLock(c.g)
      [] OTHER                  -> StudentLock(c.s)

(* Mutants: no lock on the student whose guardian is linked; none on the   *)
(* phone number of an intake.                                              *)
LinksUnlocked(c) == IF c.op = "link" THEN {} ELSE FamilyKeys(c)
IntakeUnlocked(c) ==
    IF c.op = "register" THEN UNION {StudentLock(r) : r \in c.kin \cup {c.s}} ELSE FamilyKeys(c)

KeysOfFamilyCommand(c) == FamilyKeys(c)

(* What a command names was there when the request was made; only what     *)
(* the command checks again under its locks is still known to be there.    *)
Named(c) ==
    /\ "s" \in DOMAIN c => (c.op = "register") = (student[c.s] = "absent")
    /\ "g" \in DOMAIN c => (c.op = "newParent") = (parent[c.g].status = "absent")
    /\ "kin" \in DOMAIN c => \A r \in c.kin \ (IF c.op = "register" THEN {c.s} ELSE {}) : student[r] # "absent"

BeginFamilyCommand(p) ==
    /\ families < MaxFamily
    /\ \E c \in FamilyCommands :
         /\ Named(c)
         /\ Begin(p, c, KeysOfFamilyCommand(c),
                  [student |-> student, parent |-> parent, guardian |-> guardian,
                   kin |-> kin, past |-> past, wish |-> wish])
    /\ families' = families + 1
    /\ UNCHANGED <<familyRows, rejoined>>

RefuseFamilyCommand(p) == Abort(p) /\ UNCHANGED familyVars

Seen(p) == run[p].saw

-----------------------------------------------------------------------------
(* linkInTx: both exist, no link yet; a new primary demotes the one before *)
(* (demotePrimary).  uq_parent_student_relations_active and                *)
(* uq_parent_student_primary hold of what is written.                      *)
OnePrimary(row) == \A g, h \in Parents : row[g] = "primary" /\ row[h] = "primary" => g = h

WithLink(row, seen, g, primary) ==
    [h \in Parents |-> IF h = g THEN (IF primary THEN "primary" ELSE "linked")
                       ELSE IF primary /\ seen[h] = "primary" /\ row[h] = "primary" THEN "linked"
                       ELSE row[h]]

CanLink(seenParent, seenRow, g) == seenParent[g].status = "active" /\ seenRow[g] = "none"

LinkGuardian(p) ==
    LET c == run[p].cmd IN
    /\ Running(p, "link")
    /\ Seen(p).student[c.s] = "active" /\ CanLink(Seen(p).parent, Seen(p).guardian[c.s], c.g)
    /\ guardian[c.s][c.g] = "none"
    /\ guardian' = [guardian EXCEPT ![c.s] = WithLink(@, Seen(p).guardian[c.s], c.g, c.primary)]
    /\ OnePrimary(guardian'[c.s])
    /\ End(p)
    /\ UNCHANGED <<student, parent, kin, past, wish, families, rejoined>>

(* parents.create: a new guardian, whoever else has that number.           *)
NewParent(p) ==
    LET c == run[p].cmd IN
    /\ Running(p, "newParent") /\ Seen(p).student[c.s] = "active"
    /\ parent[c.g].status = "absent"
    /\ parent' = [parent EXCEPT ![c.g] = [status |-> "active", key |-> c.key, how |-> "direct"]]
    /\ guardian' = [guardian EXCEPT ![c.s] = WithLink(@, Seen(p).guardian[c.s], c.g, c.primary)]
    /\ OnePrimary(guardian'[c.s])
    /\ End(p)
    /\ UNCHANGED <<student, kin, past, wish, families, rejoined>>

(* updateRelation: the primary guardian changes.                           *)
MakePrimary(p) ==
    LET c == run[p].cmd IN
    /\ Running(p, "makePrimary")
    /\ Seen(p).guardian[c.s][c.g] # "none" /\ guardian[c.s][c.g] # "none"
    /\ guardian' = [guardian EXCEPT ![c.s] = WithLink(@, Seen(p).guardian[c.s], c.g, TRUE)]
    /\ OnePrimary(guardian'[c.s])
    /\ End(p)
    /\ UNCHANGED <<student, parent, kin, past, wish, families, rejoined>>

RemoveRelation(p) ==
    LET c == run[p].cmd IN
    /\ Running(p, "unlink") /\ Seen(p).guardian[c.s][c.g] # "none"
    /\ guardian' = [guardian EXCEPT ![c.s][c.g] = "none"]
    /\ End(p)
    /\ UNCHANGED <<student, parent, kin, past, wish, families, rejoined>>

(* Students the guardian is linked to, as a statement reads them.          *)
WardsOf(rows, g) == {s \in Students : rows[s][g] # "none"}

(* removeGuardian: and the guardian himself, if he has no other student.   *)
RemoveGuardian(p) ==
    LET c == run[p].cmd IN
    /\ Running(p, "removeGuardian")
    /\ Seen(p).guardian[c.s][c.g] # "none" /\ Seen(p).parent[c.g].status = "active"
    /\ guardian' = [guardian EXCEPT ![c.s][c.g] = "none"]
    /\ parent' = IF WardsOf(Seen(p).guardian, c.g) \ {c.s} = {}
                   THEN [parent EXCEPT ![c.g].status = "removed"] ELSE parent
    /\ End(p)
    /\ UNCHANGED <<student, kin, past, wish, families, rejoined>>

RemoveParent(p) ==
    LET c == run[p].cmd IN
    /\ Running(p, "removeParent")
    /\ Seen(p).parent[c.g].status = "active" /\ WardsOf(Seen(p).guardian, c.g) = {}
    /\ parent' = [parent EXCEPT ![c.g].status = "removed"]
    /\ End(p)
    /\ UNCHANGED <<student, guardian, kin, past, wish, families, rejoined>>

(* parents.update: another number or name, compared with nobody's.         *)
EditParent(p) ==
    LET c == run[p].cmd IN
    /\ Running(p, "editParent") /\ Seen(p).parent[c.g].status = "active"
    /\ parent[c.g].status = "active"
    /\ parent' = [parent EXCEPT ![c.g] = [status |-> "active", key |-> c.key, how |-> "direct"]]
    /\ End(p)
    /\ UNCHANGED <<student, guardian, kin, past, wish, families, rejoined>>

-----------------------------------------------------------------------------
(* createFamilyRelation: whether the two students exist was asked before   *)
(* the locks.  With linkGuardians each gets the guardians of the other.    *)
Shared(rows, both) ==
    [s \in Students |->
        IF s \notin both THEN rows[s]
        ELSE [g \in Parents |-> IF rows[s][g] = "none" /\ \E r \in both : rows[r][g] # "none"
                                THEN "linked" ELSE rows[s][g]]]

Relate(p) ==
    LET c == run[p].cmd IN
    /\ Running(p, "relate")
    /\ c.kin \notin Seen(p).kin /\ c.kin \notin kin
    /\ kin' = kin \cup {c.kin}
    /\ guardian' = IF c.shared THEN Shared(guardian, c.kin) ELSE guardian
    /\ rejoined' = rejoined \cup {s \in c.kin : student[s] = "removed"}
    /\ End(p)
    /\ UNCHANGED <<student, parent, past, wish, families>>

(* removeFamilyRelation: the guardian links stay.                          *)
Part(p) ==
    LET c == run[p].cmd IN
    /\ Running(p, "part") /\ c.kin \in Seen(p).kin
    /\ \E s \in c.kin : Seen(p).student[s] = "active"
    /\ kin' = kin \ {c.kin}
    /\ End(p)
    /\ UNCHANGED <<student, parent, guardian, past, wish, families, rejoined>>

-----------------------------------------------------------------------------
(* School history.                                                         *)
Overlap(a, b) == a.from <= b.to /\ b.from <= a.to

Fits(rows, period, but) ==
    \A i \in Slots \ but : rows[i] # NoPeriod => ~Overlap(rows[i], period)

AddPast(p) ==
    LET c == run[p].cmd IN
    /\ Running(p, "addPast")
    /\ Fits(Seen(p).past[c.s], c.period, {})
    /\ \E i \in Slots : past[c.s][i] = NoPeriod /\ past' = [past EXCEPT ![c.s][i] = c.period]
    /\ End(p)
    /\ UNCHANGED <<student, parent, guardian, kin, wish, families, rejoined>>

EditPast(p) ==
    LET c == run[p].cmd IN
    /\ Running(p, "editPast")
    /\ Seen(p).student[c.s] = "active" /\ Seen(p).past[c.s][c.row] # NoPeriod
    /\ Fits(Seen(p).past[c.s], c.period, {c.row})
    /\ past[c.s][c.row] # NoPeriod
    /\ past' = [past EXCEPT ![c.s][c.row] = c.period]
    /\ End(p)
    /\ UNCHANGED <<student, parent, guardian, kin, wish, families, rejoined>>

DropPast(p) ==
    LET c == run[p].cmd IN
    /\ Running(p, "dropPast")
    /\ Seen(p).student[c.s] = "active" /\ Seen(p).past[c.s][c.row] # NoPeriod
    /\ past' = [past EXCEPT ![c.s][c.row] = NoPeriod]
    /\ End(p)
    /\ UNCHANGED <<student, parent, guardian, kin, wish, families, rejoined>>

(* transitionAcademicProfile: the current period ends yesterday and a new  *)
(* one begins today; one that began today only changes its grade.          *)
Covers(period, day) == period.from <= day /\ day <= period.to

Closed(rows) == [i \in Slots |-> IF Covers(rows[i], Today) THEN [rows[i] EXCEPT !.to = Today - 1] ELSE rows[i]]

NewGrade(p) ==
    LET c    == run[p].cmd
        rows == Seen(p).past[c.s]
    IN  /\ Running(p, "newGrade") /\ Seen(p).student[c.s] = "active"
        /\ IF \E i \in Slots : Covers(rows[i], Today) /\ rows[i].from = Today THEN UNCHANGED past
           ELSE /\ Fits(Closed(rows), SinceToday, {})
                /\ \E i \in Slots :
                     /\ past[c.s][i] = NoPeriod
                     /\ past' = [past EXCEPT ![c.s] = [Closed(@) EXCEPT ![i] = SinceToday]]
        /\ End(p)
        /\ UNCHANGED <<student, parent, guardian, kin, wish, families, rejoined>>

-----------------------------------------------------------------------------
(* Wishes: the priorities a client sends are 1, 2, ... without a gap       *)
(* (validate), and stay so.  Of each student, each priority and each       *)
(* target is in one row (uq_student_interests_...).                        *)
Wished(row) == {t \in Targets : row[t] > 0}

Ranked(row) == {row[t] : t \in Wished(row)} = 1 .. Cardinality(Wished(row))

(* replace.                                                                *)
SetWishes(p) ==
    LET c == run[p].cmd IN
    /\ Running(p, "setWishes") /\ Seen(p).student[c.s] = "active"
    /\ Ranked(c.wishes)
    /\ Wished(wish[c.s]) \subseteq Wished(Seen(p).wish[c.s])
    /\ wish' = [wish EXCEPT ![c.s] = c.wishes]
    /\ End(p)
    /\ UNCHANGED <<student, parent, guardian, kin, past, families, rejoined>>

AddWish(p) ==
    LET c == run[p].cmd IN
    /\ Running(p, "addWish") /\ Seen(p).student[c.s] = "active"
    /\ Seen(p).wish[c.s][c.t] = 0 /\ Ranked([Seen(p).wish[c.s] EXCEPT ![c.t] = c.rank])
    /\ wish[c.s][c.t] = 0 /\ \A t \in Targets : wish[c.s][t] # c.rank
    /\ wish' = [wish EXCEPT ![c.s][c.t] = c.rank]
    /\ End(p)
    /\ UNCHANGED <<student, parent, guardian, kin, past, families, rejoined>>

(* remove: those behind it move up.                                        *)
Without(row, target) ==
    [t \in Targets |-> IF t = target THEN 0
                       ELSE Cardinality({x \in Wished(row) \ {target} : row[x] <= row[t]})]

DropWish(p) ==
    LET c   == run[p].cmd
        new == Without(Seen(p).wish[c.s], c.t)
    IN  /\ Running(p, "dropWish") /\ Seen(p).student[c.s] = "active"
        /\ Seen(p).wish[c.s][c.t] > 0
        /\ wish' = [wish EXCEPT ![c.s] = [t \in Targets |->
                       IF t = c.t THEN 0
                       ELSE IF Seen(p).wish[c.s][t] > 0 /\ wish[c.s][t] > 0 THEN new[t] ELSE wish[c.s][t]]]
        /\ End(p)
        /\ UNCHANGED <<student, parent, guardian, kin, past, families, rejoined>>

-----------------------------------------------------------------------------
(* register: the student with his first period, his wishes, his guardian,  *)
(* found by phone and name or new (attachGuardianInTx), and his relative,  *)
(* in one transaction.                                                     *)
Known(seenParent, k) ==
    IF k = "blank" THEN {} ELSE {g \in Parents : seenParent[g].status = "active" /\ seenParent[g].key = k}

Attach(p, g) ==
    LET c == run[p].cmd IN
    IF Known(Seen(p).parent, c.key) = {}
      THEN parent[g].status = "absent" /\ parent' = [parent EXCEPT ![g] = [status |-> "active", key |-> c.key, how |-> "intake"]]
      ELSE g \in Known(Seen(p).parent, c.key) /\ UNCHANGED parent

JoinedBy(c, rows) == IF c.shared THEN Shared(rows, c.kin \cup {c.s}) ELSE rows

Register(p) ==
    LET c == run[p].cmd IN
    /\ Running(p, "register") /\ student[c.s] = "absent" /\ Ranked(c.wishes)
    /\ student' = [student EXCEPT ![c.s] = "active"]
    /\ past' = [past EXCEPT ![c.s] = [i \in Slots |-> IF i = 1 THEN SinceToday ELSE NoPeriod]]
    /\ wish' = [wish EXCEPT ![c.s] = c.wishes]
    /\ kin' = kin \cup {{c.s, r} : r \in c.kin}
    /\ IF c.key = "none"
         THEN guardian' = JoinedBy(c, guardian) /\ UNCHANGED parent
         ELSE \E g \in Parents :
                /\ Attach(p, g)
                /\ guardian' = JoinedBy(c, [guardian EXCEPT ![c.s][g] = "primary"])
    /\ rejoined' = rejoined \cup {s \in c.kin : student[s] = "removed"}
    /\ End(p)
    /\ UNCHANGED families

(* students.remove, with everything its readback finds of the student.     *)
RemoveStudent(p) ==
    LET c == run[p].cmd IN
    /\ Running(p, "removeStudent") /\ Seen(p).student[c.s] = "active"
    /\ student' = [student EXCEPT ![c.s] = "removed"]
    /\ wish' = [wish EXCEPT ![c.s] = [t \in Targets |-> IF Seen(p).wish[c.s][t] > 0 THEN 0 ELSE @[t]]]
    /\ guardian' = [guardian EXCEPT ![c.s] = [g \in Parents |->
                       IF Seen(p).guardian[c.s][g] # "none" THEN "none" ELSE @[g]]]
    /\ kin' = {k \in kin : ~(c.s \in k /\ k \in Seen(p).kin)}
    /\ past' = [past EXCEPT ![c.s] = [i \in Slots |->
                       IF Seen(p).past[c.s][i] # NoPeriod THEN NoPeriod ELSE @[i]]]
    /\ End(p)
    /\ UNCHANGED <<parent, families, rejoined>>

FamiliesNext ==
    \E p \in Instances :
        \/ BeginFamilyCommand(p) \/ RefuseFamilyCommand(p)
        \/ LinkGuardian(p) \/ NewParent(p) \/ MakePrimary(p) \/ RemoveRelation(p)
        \/ RemoveGuardian(p) \/ RemoveParent(p) \/ EditParent(p)
        \/ Relate(p) \/ Part(p)
        \/ AddPast(p) \/ EditPast(p) \/ DropPast(p) \/ NewGrade(p)
        \/ SetWishes(p) \/ AddWish(p) \/ DropWish(p)
        \/ Register(p) \/ RemoveStudent(p)

-----------------------------------------------------------------------------
FamiliesTypeOK ==
    /\ student \in [Students -> {"absent", "active", "removed"}]
    /\ \A g \in Parents : parent[g].status \in {"absent", "active", "removed"}
    /\ guardian \in [Students -> [Parents -> {"none", "linked", "primary"}]]
    /\ \A k \in kin : k \subseteq Students /\ Cardinality(k) = 2
    /\ wish \in [Students -> [Targets -> 0 .. Cardinality(Targets)]]

(* createAcademicHistory: no index keeps periods apart, only the lock and  *)
(* the readback do.  A student is never in two schools on one day, however *)
(* additions, amendments and a change of grade interleave.                 *)
Apart(rows) ==
    \A i, j \in Slots : i # j /\ rows[i] # NoPeriod /\ rows[j] # NoPeriod => ~Overlap(rows[i], rows[j])

PeriodsStayApart == \A s \in Students : Apart(past[s])

(* add, remove, replace, students.remove: the wishes of a student are      *)
(* ranked without a gap, and a student who was removed has none left.      *)
WishesStayRanked ==
    \A s \in Students : Ranked(wish[s]) /\ (student[s] = "removed" => Wished(wish[s]) = {})

(* parentIntake: registrations of the same guardian, at the same time on   *)
(* two instances or one after the other, make one guardian.                *)
MadeFor(rows, g, key) == rows[g].status = "active" /\ rows[g].how = "intake" /\ rows[g].key = key

OneEach(rows) ==
    \A g, h \in Parents : MadeFor(rows, g, rows[h].key) /\ MadeFor(rows, h, rows[g].key) =>
        g = h \/ rows[g].key = "blank"

OneGuardianPerIntake == OneEach(parent)

(* create, link, updateRelation, updateFamilyRelation against remove: what  *)
(* the removal of a student takes from a family no other command brings    *)
(* back: he is linked to a guardian or related to somebody only by a       *)
(* relation made after his removal (createFamilyRelation asks whether he   *)
(* exists before it waits for his lock).                                   *)
Unattached(s, guardians, relations) ==
    (\A g \in Parents : guardians[s][g] = "none") /\ \A k \in relations : s \notin k

RemovedStudentsStayAlone ==
    \A s \in Students : student[s] = "removed" /\ s \notin rejoined => Unattached(s, guardian, kin)

(* The rows there are before the first command are such rows.              *)
ASSUME FamilySeedsAssumption ==
    \A seed \in FamilySeeds :
        /\ seed.student \in [Students -> {"absent", "active", "removed"}]
        /\ seed.parent \in [Parents -> [status : {"absent", "active", "removed"}, how : {"none", "direct", "intake"},
                                         key : {seed.parent[g].key : g \in Parents}]]
        /\ seed.guardian \in [Students -> [Parents -> {"none", "linked", "primary"}]]
        /\ \A k \in seed.kin : k \in SUBSET Students /\ Cardinality(k) = 2
        /\ seed.past \in [Students -> [Slots -> [from : Nat, to : Nat]]]
        /\ seed.wish \in [Students -> [Targets -> Nat]]
        /\ \A s \in Students : Apart(seed.past[s]) /\ Ranked(seed.wish[s])
        /\ \A s \in Students : seed.student[s] = "removed" =>
             Wished(seed.wish[s]) = {} /\ Unattached(s, seed.guardian, seed.kin)
        /\ OneEach(seed.parent)
=============================================================================
