--------------------------- MODULE StudiesProofs ----------------------------
(* What the proofs about commands share: locks and ranks; and the proofs   *)
(* about studies and counselling, for any rows, instances and commands.    *)
EXTENDS Counsel, FiniteSetTheorems, TLAPS

-----------------------------------------------------------------------------
(* Commands and their locks (UnitOfWork).                                  *)
LEMMA Begun ==
    ASSUME DOMAIN run = Instances, LocksExclude, NEW p \in Instances, NEW c, NEW keys, NEW saw,
           Begin(p, c, keys, saw)
    PROVE  /\ DOMAIN run' = Instances /\ LocksExclude'
           /\ run'[p].cmd = c /\ run'[p].held = keys /\ run'[p].saw = saw
           /\ \A q \in Instances \ {p} : run'[q] = run[q]
<1>1. DOMAIN run' = Instances /\ run'[p] = [cmd |-> c, held |-> keys, saw |-> saw]
      /\ \A q \in Instances \ {p} : run'[q] = run[q] /\ run[q].held \cap keys = {}
  BY DEF Begin, Free
<1>2. LocksExclude'
  BY <1>1 DEF LocksExclude
<1> QED BY <1>1, <1>2

LEMMA Ended ==
    ASSUME DOMAIN run = Instances, LocksExclude, NEW p \in Instances, End(p)
    PROVE  /\ DOMAIN run' = Instances /\ LocksExclude'
           /\ run'[p].cmd = NoCommand /\ run'[p].held = {}
           /\ \A q \in Instances \ {p} : run'[q] = run[q]
<1>1. DOMAIN run' = Instances /\ run'[p] = Idle /\ \A q \in Instances \ {p} : run'[q] = run[q]
  BY DEF End
<1>2. LocksExclude'
  BY <1>1 DEF LocksExclude, Idle
<1> QED BY <1>1, <1>2 DEF Idle

(* A key one command holds no other command holds.                         *)
LEMMA HeldAlone ==
    ASSUME LocksExclude, NEW p \in Instances, NEW q \in Instances \ {p}, NEW k \in run[p].held
    PROVE  k \notin run[q].held
BY DEF LocksExclude

-----------------------------------------------------------------------------
(* Ranks: counting in a finite set those that do not come later numbers it *)
(* 1, 2, ...                                                               *)
Upto(W, f, y) == {x \in W : f[x] <= f[y]}

LEMMA NumberedAnew ==
    ASSUME NEW W, IsFiniteSet(W), NEW f \in [W -> Nat], \A x, y \in W : f[x] = f[y] => x = y
    PROVE  /\ \A y \in W : Cardinality(Upto(W, f, y)) \in 1 .. Cardinality(W)
           /\ \A m \in 1 .. Cardinality(W) : \E y \in W : m = Cardinality(Upto(W, f, y))
<1> DEFINE n == Cardinality(W)
           g == [y \in W |-> Cardinality(Upto(W, f, y))]
<1>1. n \in Nat /\ IsFiniteSet(1 .. n) /\ Cardinality(1 .. n) = n
  BY FS_CardinalityType, FS_Interval
<1>2. \A y \in W : IsFiniteSet(Upto(W, f, y)) /\ Cardinality(Upto(W, f, y)) \in 1 .. n
  <2> TAKE y \in W
  <2>1. IsFiniteSet(Upto(W, f, y)) /\ Cardinality(Upto(W, f, y)) <= n
    <3>1. Upto(W, f, y) \in SUBSET W
      BY DEF Upto
    <3> QED BY <3>1, FS_Subset
  <2>2. y \in Upto(W, f, y)
    BY DEF Upto
  <2>3. Cardinality(Upto(W, f, y)) # 0 /\ Cardinality(Upto(W, f, y)) \in Nat
    BY <2>1, <2>2, FS_EmptySet, FS_CardinalityType
  <2> HIDE DEF n
  <2> QED BY <1>1, <2>1, <2>3
<1>3. \A y, z \in W : f[y] < f[z] => g[y] # g[z]
  <2> TAKE y, z \in W
  <2> HAVE f[y] < f[z]
  <2>1. Upto(W, f, y) \subseteq Upto(W, f, z) /\ z \in Upto(W, f, z) /\ z \notin Upto(W, f, y)
    BY DEF Upto
  <2>2. Cardinality(Upto(W, f, z)) # Cardinality(Upto(W, f, y))
    BY <1>2, <2>1, FS_Subset
  <2> QED BY <2>2
<1>4. g \in Injection(W, 1 .. n)
  <2>1. g \in [W -> 1 .. n]
    BY <1>2
  <2>2. \A y, z \in W : g[y] = g[z] => y = z
    <3> HIDE DEF g
    <3> QED BY <1>3
  <2> QED BY <2>1, <2>2 DEF Injection, IsInjective
<1>5. g \in Surjection(W, 1 .. n)
  <2> HIDE DEF g, n
  <2>1. n = Cardinality(W)
    BY DEF n
  <2> QED BY <1>1, <1>4, <2>1, FS_Injection
<1>6. \A m \in 1 .. n : \E y \in W : g[y] = m
  <2> HIDE DEF g, n
  <2> QED BY <1>5 DEF Surjection
<1> QED BY <1>2, <1>6

(* What is numbered 1, 2, ... without a gap has no number twice.           *)
LEMMA NoRankTwice ==
    ASSUME NEW W, IsFiniteSet(W), NEW f \in [W -> Nat], {f[x] : x \in W} = 1 .. Cardinality(W)
    PROVE  \A x, y \in W : f[x] = f[y] => x = y
<1> DEFINE n == Cardinality(W)
<1>1. n \in Nat /\ Cardinality(1 .. n) = n
  BY FS_CardinalityType, FS_Interval
<1>2. f \in Surjection(W, 1 .. n)
  <2>1. \A x \in W : f[x] \in 1 .. n
    OBVIOUS
  <2>2. \A m \in 1 .. n : \E x \in W : f[x] = m
    OBVIOUS
  <2> QED BY <2>1, <2>2 DEF Surjection
<1>3. f \in Injection(W, 1 .. n)
  <2>1. Cardinality(W) = Cardinality(1 .. n)
    BY <1>1
  <2> HIDE DEF n
  <2> QED BY <1>2, <2>1, FS_Surjection
<1> QED BY <1>3 DEF Injection, IsInjective

(* One of them leaves and those behind it move up.                         *)
Placed(S, f) == {x \in S : f[x] > 0}
Dense(S, f)  == {f[x] : x \in Placed(S, f)} = 1 .. Cardinality(Placed(S, f))

LEMMA MovedUp ==
    ASSUME NEW S, IsFiniteSet(S), NEW f \in [S -> Nat], NEW t \in S, NEW g \in [S -> Nat],
           Dense(S, f), g[t] = 0,
           \A x \in S \ {t} : g[x] = IF f[x] > 0 THEN Cardinality(Upto(Placed(S, f) \ {t}, f, x)) ELSE 0
    PROVE  Dense(S, g) /\ Placed(S, g) = Placed(S, f) \ {t}
<1> DEFINE V == Placed(S, f)
           W == V \ {t}
           fV == [x \in V |-> f[x]]
           fW == [x \in W |-> f[x]]
<1>1. IsFiniteSet(V) /\ IsFiniteSet(W)
  <2>1. IsFiniteSet(V)
    BY FS_Subset DEF Placed
  <2> QED BY <2>1, FS_Subset
<1>2. \A x, y \in W : fW[x] = fW[y] => x = y
  <2>1. {fV[x] : x \in V} = 1 .. Cardinality(V)
    BY DEF Dense
  <2>2. fV \in [V -> Nat]
    BY DEF Placed
  <2> HIDE DEF V, fV
  <2>3. \A x, y \in V : fV[x] = fV[y] => x = y
    BY <1>1, <2>1, <2>2, NoRankTwice
  <2> QED BY <2>3 DEF fV
<1>3. /\ \A y \in W : Cardinality(Upto(W, f, y)) \in 1 .. Cardinality(W)
      /\ \A m \in 1 .. Cardinality(W) : \E y \in W : m = Cardinality(Upto(W, f, y))
  <2>1. fW \in [W -> Nat]
    BY DEF Placed
  <2> HIDE DEF fW, W
  <2>2. /\ \A y \in W : Cardinality(Upto(W, fW, y)) \in 1 .. Cardinality(W)
        /\ \A m \in 1 .. Cardinality(W) : \E y \in W : m = Cardinality(Upto(W, fW, y))
    BY <1>1, <1>2, <2>1, NumberedAnew
  <2>3. \A y \in W : Upto(W, fW, y) = Upto(W, f, y)
    BY DEF fW, Upto
  <2> QED BY <2>2, <2>3
<1>4. \A y \in W : g[y] = Cardinality(Upto(W, f, y))
  BY DEF Placed
<1>5. \A y \in S \ W : g[y] = 0
  BY DEF Placed
<1>6. Cardinality(W) \in Nat /\ W \subseteq S
  BY <1>1, FS_CardinalityType DEF Placed
<1> HIDE DEF W
<1>7. Placed(S, g) = W
  <2>1. \A y \in W : g[y] \in 1 .. Cardinality(W)
    BY <1>3, <1>4
  <2>2. \A y \in W : g[y] > 0
    BY <1>6, <2>1
  <2> QED BY <1>5, <1>6, <2>2 DEF Placed
<1>8. {g[x] : x \in W} = 1 .. Cardinality(W)
  <2>1. \A y \in W : g[y] \in 1 .. Cardinality(W)
    BY <1>3, <1>4
  <2>2. \A m \in 1 .. Cardinality(W) : \E y \in W : m = g[y]
    BY <1>3, <1>4
  <2> QED BY <2>1, <2>2, Zenon
<1> QED BY <1>7, <1>8 DEF Dense, W

-----------------------------------------------------------------------------
(* Studies and counselling.                                                *)
SubjectNames == {c.name : c \in StudyCommands}
                    \cup {seed.subject[x].name : seed \in StudySeeds, x \in Subjects}

Standing == {"absent", "active", "removed"}
SubjectRows == [status : Standing, name : SubjectNames, auto : BOOLEAN]
CourseRows  == [status : Standing, subject : Subjects]
RoadmapRows == [status : Standing, open : BOOLEAN, order : [StudyCourses -> Nat]]
EnrollmentRows ==
    [status : EnrollmentStatuses, roadmap : Roadmaps \cup {NoRoadmap}, form : Forms \cup {NoForm}]
        \cup {NotEnrolled}

StudyTyped ==
    /\ pupil \in [Pupils -> {"visible", "hidden", "removed"}]
    /\ subject \in [Subjects -> SubjectRows]
    /\ course \in [StudyCourses -> CourseRows]
    /\ roadmap \in [Roadmaps -> RoadmapRows]
    /\ enrolled \in [Pupils -> [StudyCourses -> EnrollmentRows]]

CoursesHaveSubjects ==
    \A x \in StudyCourses : course[x].status = "active" => subject[course[x].subject].status = "active"

StudyRowsFit ==
    /\ StudyTyped /\ CoursesHaveSubjects
    /\ EnrollmentsRestOnWhatExists /\ RoadmapOrderIsDense /\ OneSubjectPerName /\ RemovedStudentsLeave

CardRows  == [status : CounselStatuses \cup {"absent", "removed"}, student : Pupils, next : Contacts \cup {Unset}]
RoundRows == [no : 0 .. 98, next : Contacts \cup {Unset}] \cup {NoRound}

RoundsApart(rows) == \A i, j \in Rounds(rows) : rows[i].no = rows[j].no => i = j

(* A card that was converted more often than it was reopened is still      *)
(* registered, or gone.                                                    *)
ConvertedOnce ==
    \A f \in Forms : \/ converted[f] <= reopened[f]
                     \/ converted[f] = reopened[f] + 1 /\ card[f].status \in {"registered", "removed"}

CardRowsFit ==
    /\ card \in [Forms -> CardRows] /\ round \in [Forms -> [RoundSlots -> RoundRows]]
    /\ converted \in [Forms -> Nat] /\ reopened \in [Forms -> Nat]
    /\ \A f \in Forms : RoundsApart(round[f]) /\ (card[f].status = "absent" => Rounds(round[f]) = {})
    /\ ConvertedOnce /\ CardFollowsLatestRound

-----------------------------------------------------------------------------
(* What a command saw, as far as the keys it holds keep it true.  An edit  *)
(* of an enrollment takes neither the pupil's key nor the course's, so     *)
(* that only whether there is one is known, and whether it can have become *)
(* active.                                                                 *)
SeesEnrollment(p, s, x) ==
    \/ Read(p).enrolled[s][x] = NotEnrolled /\ enrolled[s][x] = NotEnrolled
    \/ Read(p).enrolled[s][x].status # "none" /\ enrolled[s][x].status # "none"

SeesPupil(p, s) ==
    /\ Read(p).pupil[s] = pupil[s]
    /\ \A x \in StudyCourses :
         /\ SeesEnrollment(p, s, x)
         /\ enrolled[s][x].status = "active" /\ <<s, x>> \notin revived =>
              Read(p).enrolled[s][x].status = "active"

SeesCourse(p, x) ==
    /\ Read(p).course[x].status # "absent" => Read(p).course[x] = course[x]
    /\ \A s \in Pupils : SeesEnrollment(p, s, x)

IsOf(rows, x, z) == rows[x].status = "active" /\ rows[x].subject = z

SeesSubject(p, z) ==
    /\ Read(p).subject[z].status # "absent" => Read(p).subject[z] = subject[z]
    /\ \A x \in StudyCourses : IsOf(course, x, z) => IsOf(Read(p).course, x, z)

SeesRoadmap(p, r) ==
    /\ Read(p).roadmap[r].status # "absent" => Read(p).roadmap[r] = roadmap[r]
    /\ \A s \in Pupils, x \in StudyCourses : enrolled[s][x].roadmap = r =>
         /\ Read(p).enrolled[s][x].roadmap = r /\ Read(p).enrolled[s][x].status \in EnrollmentStatuses
         /\ enrolled[s][x].status = "active" /\ <<s, x>> \notin revived \cup resumed =>
              Read(p).enrolled[s][x].status = "active"

MadeAs(rows, z, n) == rows[z].status = "active" /\ rows[z].auto /\ rows[z].name = n

SeesName(p, n) ==
    \A z \in Subjects : MadeAs(subject, z, n) =>
        Read(p).subject[z].status = "active" /\ Read(p).subject[z].name = n

SeesCard(p, f) ==
    /\ Read(p).card[f].status # "absent" => Read(p).card[f] = card[f]
    /\ Read(p).round[f] = round[f]

Sees(p) ==
    /\ \A s \in Pupils : <<"student", s>> \in run[p].held => SeesPupil(p, s)
    /\ \A x \in StudyCourses : <<"course", x>> \in run[p].held => SeesCourse(p, x)
    /\ \A z \in Subjects : <<"subject", z>> \in run[p].held => SeesSubject(p, z)
    /\ \A r \in Roadmaps : <<"roadmap", r>> \in run[p].held => SeesRoadmap(p, r)
    /\ \A n \in SubjectNames : <<"subjectName", n>> \in run[p].held => SeesName(p, n)
    /\ \A f \in Forms : <<"counselForm", f>> \in run[p].held => SeesCard(p, f)

(* A command and the keys it holds; those of a conversion are the keys of  *)
(* the student it saw on the card.                                         *)
HoldsItsKeys(p) ==
    LET c == run[p].cmd IN
    c.op # "none" =>
        \/ c \in StudyCommands /\ run[p].held = StudyKeys(c)
        \/ /\ c \in CounselCommands
           /\ c.op # "openCard" => <<"counselForm", c.f>> \in run[p].held
           /\ c.op = "convert" => EnrollKeys(Read(p).card[c.f].student, c.c, c.r) \subseteq run[p].held
           /\ c.op = "enrollCard" => EnrollKeys(c.s, c.c, c.r) \subseteq run[p].held

StudiesSound ==
    /\ DOMAIN run = Instances /\ LocksExclude /\ StudyRowsFit /\ CardRowsFit
    /\ \A p \in Instances : HoldsItsKeys(p) /\ Sees(p)

-----------------------------------------------------------------------------
(* What a step of p leaves alone: what another command holds the key of.   *)
Elsewhere(p, kind, x) == \E q \in Instances \ {p} : <<kind, x>> \in run[q].held

Touched(s, x) ==
    \/ enrolled'[s][x] = enrolled[s][x]
    \/ /\ enrolled[s][x].status # "none" /\ enrolled'[s][x].status # "none"
       /\ enrolled'[s][x].status = "active" => <<s, x>> \in revived'

SparePupils(p) ==
    \A s \in Pupils : Elsewhere(p, "student", s) => pupil'[s] = pupil[s] /\ \A x \in StudyCourses : Touched(s, x)

SpareCourses(p) ==
    \A x \in StudyCourses : Elsewhere(p, "course", x) =>
        /\ course[x].status # "absent" => course'[x] = course[x]
        /\ \A s \in Pupils : Touched(s, x)

SpareSubjects(p) ==
    \A z \in Subjects : Elsewhere(p, "subject", z) =>
        /\ subject[z].status # "absent" => subject'[z] = subject[z]
        /\ \A x \in StudyCourses : IsOf(course', x, z) => IsOf(course, x, z)

SpareRoadmaps(p) ==
    \A r \in Roadmaps : Elsewhere(p, "roadmap", r) =>
        /\ roadmap[r].status # "absent" => roadmap'[r] = roadmap[r]
        /\ \A s \in Pupils, x \in StudyCourses : enrolled'[s][x].roadmap = r =>
             /\ enrolled[s][x].roadmap = r
             /\ enrolled'[s][x].status = "active" /\ <<s, x>> \notin revived' \cup resumed' =>
                  enrolled[s][x].status = "active"

SpareNames(p) ==
    \A n \in SubjectNames : Elsewhere(p, "subjectName", n) =>
        \A z \in Subjects : MadeAs(subject', z, n) => MadeAs(subject, z, n)

SpareStudies(p) ==
    /\ revived \subseteq revived' /\ resumed \subseteq resumed'
    /\ SparePupils(p) /\ SpareCourses(p) /\ SpareSubjects(p) /\ SpareRoadmaps(p) /\ SpareNames(p)

SpareCards(p) ==
    \A f \in Forms : Elsewhere(p, "counselForm", f) =>
        (card[f].status # "absent" => card'[f] = card[f]) /\ round'[f] = round[f]

LEMMA NotElsewhere ==
    ASSUME LocksExclude, NEW p \in Instances, NEW kind, NEW x, <<kind, x>> \in run[p].held
    PROVE  ~Elsewhere(p, kind, x)
BY DEF LocksExclude, Elsewhere

LEMMA OthersSee ==
    ASSUME StudiesSound, NEW p \in Instances, SpareStudies(p), SpareCards(p),
           NEW q \in Instances \ {p}, run'[q] = run[q]
    PROVE  HoldsItsKeys(q)' /\ Sees(q)'
<1>1. HoldsItsKeys(q)'
  BY DEF StudiesSound, HoldsItsKeys, Read
<1>2. Read(q)' = Read(q) /\ Sees(q)
  BY DEF StudiesSound, Read
<1>3. ASSUME NEW kind, NEW x, <<kind, x>> \in run[q].held PROVE Elsewhere(p, kind, x)
  BY <1>3 DEF Elsewhere
<1>4. ASSUME NEW s \in Pupils, NEW x \in StudyCourses, Touched(s, x), SeesEnrollment(q, s, x)
      PROVE  SeesEnrollment(q, s, x)'
  BY <1>2, <1>4 DEF Touched, SeesEnrollment, NotEnrolled
<1>5. \A s \in Pupils : <<"student", s>> \in run[q].held => SeesPupil(q, s)'
  <2> TAKE s \in Pupils
  <2> HAVE <<"student", s>> \in run[q].held
  <2>1. SeesPupil(q, s) /\ pupil'[s] = pupil[s] /\ \A x \in StudyCourses : Touched(s, x)
    BY <1>2, <1>3 DEF Sees, SpareStudies, SparePupils
  <2>2. \A x \in StudyCourses : SeesEnrollment(q, s, x)'
    BY <1>4, <2>1 DEF SeesPupil
  <2>3. \A x \in StudyCourses : enrolled'[s][x].status = "active" /\ <<s, x>> \notin revived' =>
            Read(q).enrolled[s][x].status = "active"
    BY <2>1 DEF SeesPupil, Touched, SpareStudies
  <2> QED BY <1>2, <2>1, <2>2, <2>3 DEF SeesPupil
<1>6. \A x \in StudyCourses : <<"course", x>> \in run[q].held => SeesCourse(q, x)'
  <2> TAKE x \in StudyCourses
  <2> HAVE <<"course", x>> \in run[q].held
  <2>1. /\ SeesCourse(q, x) /\ \A s \in Pupils : Touched(s, x)
        /\ course[x].status # "absent" => course'[x] = course[x]
    BY <1>2, <1>3 DEF Sees, SpareStudies, SpareCourses
  <2>2. \A s \in Pupils : SeesEnrollment(q, s, x)'
    BY <1>4, <2>1 DEF SeesCourse
  <2> QED BY <1>2, <2>1, <2>2 DEF SeesCourse
<1>7. \A z \in Subjects : <<"subject", z>> \in run[q].held => SeesSubject(q, z)'
  <2> TAKE z \in Subjects
  <2> HAVE <<"subject", z>> \in run[q].held
  <2>1. /\ SeesSubject(q, z)
        /\ subject[z].status # "absent" => subject'[z] = subject[z]
        /\ \A x \in StudyCourses : IsOf(course', x, z) => IsOf(course, x, z)
    BY <1>2, <1>3 DEF Sees, SpareStudies, SpareSubjects
  <2> QED BY <1>2, <2>1 DEF SeesSubject, IsOf
<1>8. \A r \in Roadmaps : <<"roadmap", r>> \in run[q].held => SeesRoadmap(q, r)'
  <2> TAKE r \in Roadmaps
  <2> HAVE <<"roadmap", r>> \in run[q].held
  <2>1. SeesRoadmap(q, r) /\ Elsewhere(p, "roadmap", r)
    BY <1>2, <1>3 DEF Sees
  <2> QED BY <1>2, <2>1 DEF SeesRoadmap, SpareStudies, SpareRoadmaps
<1>9. \A n \in SubjectNames : <<"subjectName", n>> \in run[q].held => SeesName(q, n)'
  <2> TAKE n \in SubjectNames
  <2> HAVE <<"subjectName", n>> \in run[q].held
  <2>1. SeesName(q, n) /\ \A z \in Subjects : MadeAs(subject', z, n) => MadeAs(subject, z, n)
    BY <1>2, <1>3 DEF Sees, SpareStudies, SpareNames
  <2> QED BY <1>2, <2>1 DEF SeesName, MadeAs
<1>10. \A f \in Forms : <<"counselForm", f>> \in run[q].held => SeesCard(q, f)'
  <2> TAKE f \in Forms
  <2> HAVE <<"counselForm", f>> \in run[q].held
  <2>1. SeesCard(q, f) /\ Elsewhere(p, "counselForm", f)
    BY <1>2, <1>3 DEF Sees
  <2> QED BY <1>2, <2>1 DEF SeesCard, SpareCards
<1> QED BY <1>1, <1>5, <1>6, <1>7, <1>8, <1>9, <1>10 DEF Sees

LEMMA StudyStep ==
    ASSUME StudiesSound, NEW p \in Instances, End(p), StudyRowsFit', CardRowsFit', SpareStudies(p), SpareCards(p)
    PROVE  StudiesSound'
<1>1. /\ DOMAIN run' = Instances /\ LocksExclude' /\ run'[p].cmd = NoCommand /\ run'[p].held = {}
      /\ \A q \in Instances \ {p} : run'[q] = run[q]
  BY Ended DEF StudiesSound
<1>2. HoldsItsKeys(p)' /\ Sees(p)'
  BY <1>1 DEF HoldsItsKeys, Sees, NoCommand
<1> QED BY <1>1, <1>2, OthersSee DEF StudiesSound

LEMMA StudyRowsStay ==
    ASSUME StudyRowsFit, UNCHANGED <<studyRows, revived, resumed>>
    PROVE  StudyRowsFit' /\ \A p \in Instances : SpareStudies(p)
<1>1. \A s, x : Touched(s, x)
  BY DEF Touched, studyRows
<1>2. \A p \in Instances : SpareStudies(p)
  BY <1>1 DEF studyRows, SpareStudies, SparePupils, SpareCourses, SpareSubjects, SpareRoadmaps, SpareNames
<1>3. StudyTyped' /\ CoursesHaveSubjects' /\ RoadmapOrderIsDense' /\ OneSubjectPerName' /\ RemovedStudentsLeave'
  BY DEF studyRows, StudyRowsFit, StudyTyped, CoursesHaveSubjects, RoadmapOrderIsDense, OneSubjectPerName,
         RemovedStudentsLeave
<1>4. EnrollmentsRestOnWhatExists'
  BY DEF studyRows, StudyRowsFit, EnrollmentsRestOnWhatExists, StudiesSnapshot
<1> QED BY <1>2, <1>3, <1>4 DEF StudyRowsFit

LEMMA CardRowsStay ==
    ASSUME CardRowsFit, UNCHANGED counselVars
    PROVE  CardRowsFit' /\ \A p \in Instances : SpareCards(p)
BY DEF counselVars, cardRows, CardRowsFit, ConvertedOnce, CardFollowsLatestRound, SpareCards

-----------------------------------------------------------------------------
(* A command begins, or is refused.                                        *)
LEMMA SeesAtFirst ==
    ASSUME StudyRowsFit, NEW p, NEW rows,
           rows.pupil = pupil, rows.subject = subject, rows.course = course, rows.roadmap = roadmap,
           rows.enrolled = enrolled, run'[p].saw = rows, UNCHANGED <<studyRows, revived, resumed>>
    PROVE  /\ \A s \in Pupils : SeesPupil(p, s)'
           /\ \A x \in StudyCourses : SeesCourse(p, x)'
           /\ \A z \in Subjects : SeesSubject(p, z)'
           /\ \A r \in Roadmaps : SeesRoadmap(p, r)'
           /\ \A n : SeesName(p, n)'
<1>1. \A s \in Pupils, x \in StudyCourses :
          /\ enrolled[s][x].status = "none" => enrolled[s][x] = NotEnrolled
          /\ enrolled[s][x].roadmap \in Roadmaps => enrolled[s][x].status \in EnrollmentStatuses
  BY StudyCommandsAssumption DEF StudyRowsFit, StudyTyped, EnrollmentRows, NotEnrolled, EnrollmentStatuses
<1>2. \A s \in Pupils, x \in StudyCourses : SeesEnrollment(p, s, x)'
  BY <1>1 DEF SeesEnrollment, Read, studyRows
<1>3. /\ \A s \in Pupils : SeesPupil(p, s)'
      /\ \A x \in StudyCourses : SeesCourse(p, x)'
  BY <1>2 DEF SeesPupil, SeesCourse, Read, studyRows
<1>4. \A z \in Subjects : SeesSubject(p, z)'
  BY DEF SeesSubject, IsOf, Read, studyRows
<1>5. \A r \in Roadmaps : SeesRoadmap(p, r)'
  BY <1>1 DEF SeesRoadmap, Read, studyRows
<1>6. \A n : SeesName(p, n)'
  BY DEF SeesName, MadeAs, Read, studyRows
<1> QED BY <1>3, <1>4, <1>5, <1>6

LEMMA BeginStudyKeeps ==
    ASSUME StudiesSound, NEW p \in Instances, BeginStudyCommand(p), UNCHANGED counselVars
    PROVE  StudiesSound'
<1>1. PICK c \in StudyCommands : Begin(p, c, StudyKeys(c), StudiesSnapshot)
  BY DEF BeginStudyCommand, KeysOfStudyCommand
<1>2. UNCHANGED <<studyRows, revived, resumed>>
  BY DEF BeginStudyCommand
<1>3. /\ DOMAIN run' = Instances /\ LocksExclude'
      /\ run'[p].cmd = c /\ run'[p].held = StudyKeys(c) /\ run'[p].saw = StudiesSnapshot
      /\ \A q \in Instances \ {p} : run'[q] = run[q]
  BY <1>1, Begun DEF StudiesSound
<1>4. StudyRowsFit' /\ SpareStudies(p)
  BY <1>2, StudyRowsStay DEF StudiesSound
<1>5. CardRowsFit' /\ SpareCards(p)
  BY CardRowsStay DEF StudiesSound
<1>6. HoldsItsKeys(p)'
  BY <1>3 DEF HoldsItsKeys
<1>7. Sees(p)'
  <2>1. /\ \A s \in Pupils : SeesPupil(p, s)'
        /\ \A x \in StudyCourses : SeesCourse(p, x)'
        /\ \A z \in Subjects : SeesSubject(p, z)'
        /\ \A r \in Roadmaps : SeesRoadmap(p, r)'
        /\ \A n : SeesName(p, n)'
    <3> DEFINE rows == StudiesSnapshot
    <3>1. /\ rows.pupil = pupil /\ rows.subject = subject /\ rows.course = course
          /\ rows.roadmap = roadmap /\ rows.enrolled = enrolled
      BY DEF StudiesSnapshot
    <3>2. run'[p].saw = rows
      BY <1>3
    <3> HIDE DEF rows
    <3> QED BY <1>2, <3>1, <3>2, SeesAtFirst DEF StudiesSound
  <2>2. \A f \in Forms : <<"counselForm", f>> \notin StudyKeys(c)
    BY <1>1, StudyCommandsAssumption DEF StudyKeys, EnrollKeys, Lock
  <2> QED BY <1>3, <2>1, <2>2 DEF Sees
<1> QED BY <1>3, <1>4, <1>5, <1>6, <1>7, OthersSee DEF StudiesSound

LEMMA BeginCounselKeeps ==
    ASSUME StudiesSound, NEW p \in Instances, BeginCounselCommand(p)
    PROVE  StudiesSound'
<1>1. PICK c \in CounselCommands : Begin(p, c, CounselKeys(c), CardsSnapshot)
  BY DEF BeginCounselCommand
<1>2. UNCHANGED <<studyRows, revived, resumed, counselVars>>
  BY DEF BeginCounselCommand
<1>3. /\ DOMAIN run' = Instances /\ LocksExclude'
      /\ run'[p].cmd = c /\ run'[p].held = CounselKeys(c) /\ run'[p].saw = CardsSnapshot
      /\ \A q \in Instances \ {p} : run'[q] = run[q]
  BY <1>1, Begun DEF StudiesSound
<1>4. StudyRowsFit' /\ SpareStudies(p) /\ CardRowsFit' /\ SpareCards(p)
  BY <1>2, StudyRowsStay, CardRowsStay DEF StudiesSound
<1>5. HoldsItsKeys(p)'
  <2>1. Read(p)'.card = card
    BY <1>3 DEF Read, CardsSnapshot
  <2>2. c.op # "openCard" => <<"counselForm", c.f>> \in CounselKeys(c)
    BY <1>1, CounselCommandsAssumption DEF CounselKeys, Lock
  <2>3. /\ c.op = "convert" => EnrollKeys(card[c.f].student, c.c, c.r) \subseteq CounselKeys(c)
        /\ c.op = "enrollCard" => EnrollKeys(c.s, c.c, c.r) \subseteq CounselKeys(c)
    BY DEF CounselKeys
  <2>4. \A s, x, r : EnrollKeys(s, x, r)' = EnrollKeys(s, x, r)
    BY DEF EnrollKeys, Lock
  <2> QED BY <1>1, <1>3, <2>1, <2>2, <2>3, <2>4 DEF HoldsItsKeys
<1>6. Sees(p)'
  <2>1. /\ \A s \in Pupils : SeesPupil(p, s)'
        /\ \A x \in StudyCourses : SeesCourse(p, x)'
        /\ \A z \in Subjects : SeesSubject(p, z)'
        /\ \A r \in Roadmaps : SeesRoadmap(p, r)'
        /\ \A n : SeesName(p, n)'
    <3> DEFINE rows == CardsSnapshot
    <3>1. /\ rows.pupil = pupil /\ rows.subject = subject /\ rows.course = course
          /\ rows.roadmap = roadmap /\ rows.enrolled = enrolled
      BY DEF CardsSnapshot
    <3>2. run'[p].saw = rows
      BY <1>3
    <3> HIDE DEF rows
    <3> QED BY <1>2, <3>1, <3>2, SeesAtFirst DEF StudiesSound
  <2>2. \A f \in Forms : SeesCard(p, f)'
    BY <1>2, <1>3 DEF SeesCard, Read, CardsSnapshot, counselVars, cardRows
  <2> QED BY <2>1, <2>2 DEF Sees
<1> QED BY <1>3, <1>4, <1>5, <1>6, OthersSee DEF StudiesSound

LEMMA RefusedKeeps ==
    ASSUME StudiesSound, NEW p \in Instances, Abort(p), UNCHANGED <<studyVars, counselVars>>
    PROVE  StudiesSound'
<1>1. End(p) /\ UNCHANGED <<studyRows, revived, resumed>>
  BY DEF Abort, studyVars
<1>2. StudyRowsFit' /\ SpareStudies(p) /\ CardRowsFit' /\ SpareCards(p)
  BY <1>1, StudyRowsStay, CardRowsStay DEF StudiesSound
<1> QED BY <1>1, <1>2, StudyStep

-----------------------------------------------------------------------------
(* Enrollments.                                                            *)
LEMMA EnrollKeysHeld ==
    ASSUME StudiesSound, NEW p \in Instances, NEW s, NEW x, NEW r, EnrollKeys(s, x, r) \subseteq run[p].held
    PROVE  /\ <<"student", s>> \in run[p].held /\ <<"course", x>> \in run[p].held
           /\ r # NoRoadmap => <<"roadmap", r>> \in run[p].held
           /\ ~Elsewhere(p, "student", s) /\ ~Elsewhere(p, "course", x)
           /\ r # NoRoadmap => ~Elsewhere(p, "roadmap", r)
<1>1. /\ <<"student", s>> \in EnrollKeys(s, x, r) /\ <<"course", x>> \in EnrollKeys(s, x, r)
      /\ r # NoRoadmap => <<"roadmap", r>> \in EnrollKeys(s, x, r)
  BY DEF EnrollKeys, Lock
<1> QED BY <1>1, NotElsewhere DEF StudiesSound

LEMMA EnrollmentsFit ==
    ASSUME StudyRowsFit
    PROVE  \A s \in Pupils, x \in StudyCourses :
               /\ enrolled[s][x] \in EnrollmentRows
               /\ enrolled[s][x].status = "none" <=> enrolled[s][x] = NotEnrolled
               /\ enrolled[s][x].roadmap # NoRoadmap =>
                    enrolled[s][x].roadmap \in Roadmaps /\ enrolled[s][x].status \in EnrollmentStatuses
BY DEF StudyRowsFit, StudyTyped, EnrollmentRows, NotEnrolled, EnrollmentStatuses

LEMMA RestingRows ==
    EnrollmentsRestOnWhatExists <=>
        \A s \in Pupils, x \in StudyCourses :
            LET e == enrolled[s][x] IN
            e.status # "none" =>
                /\ course[x].status = "active" /\ subject[course[x].subject].status = "active"
                /\ e.roadmap # NoRoadmap =>
                     /\ roadmap[e.roadmap].status = "active" /\ roadmap[e.roadmap].order[x] > 0
                     /\ e.status = "active" /\ <<s, x>> \notin revived \cup resumed => roadmap[e.roadmap].open
BY DEF EnrollmentsRestOnWhatExists, RowsRest, StudiesSnapshot

LEMMA EnrolledFits ==
    ASSUME StudiesSound, NEW p \in Instances, NEW s \in Pupils, NEW x \in StudyCourses,
           NEW r \in Roadmaps \cup {NoRoadmap}, NEW f \in Forms \cup {NoForm},
           EnrollKeys(s, x, r) \subseteq run[p].held, EnrollAs(Read(p), s, x, r, f),
           UNCHANGED <<pupil, subject, course, roadmap, revived, resumed>>
    PROVE  StudyRowsFit' /\ SpareStudies(p)
<1> DEFINE new == [status |-> "active", roadmap |-> r, form |-> f]
<1>1. StudyTyped /\ RemovedStudentsLeave /\ CoursesHaveSubjects /\ EnrollmentsRestOnWhatExists
  BY DEF StudiesSound, StudyRowsFit
<1>2. new \in EnrollmentRows /\ new.status = "active" /\ new.roadmap = r
  BY DEF EnrollmentRows, EnrollmentStatuses
<1>3. /\ pupil[s] = "visible" /\ course[x].status = "active" /\ subject[course[x].subject].status = "active"
      /\ r # NoRoadmap => roadmap[r].status = "active" /\ roadmap[r].open /\ roadmap[r].order[x] > 0
  <2>1. SeesPupil(p, s) /\ SeesCourse(p, x) /\ (r # NoRoadmap => SeesRoadmap(p, r))
    <3>1. /\ <<"student", s>> \in run[p].held /\ <<"course", x>> \in run[p].held
          /\ r # NoRoadmap => <<"roadmap", r>> \in run[p].held
      BY EnrollKeysHeld
    <3>2. Sees(p)
      BY DEF StudiesSound
    <3> QED BY <3>1, <3>2 DEF Sees
  <2>2. CanEnroll(Read(p), s, x, r)
    BY DEF EnrollAs
  <2> QED BY <1>1, <2>1, <2>2 DEF CanEnroll, CanStudy, SeesPupil, SeesCourse, SeesRoadmap, CoursesHaveSubjects
<1>4. /\ ~Elsewhere(p, "student", s) /\ ~Elsewhere(p, "course", x)
      /\ r # NoRoadmap => ~Elsewhere(p, "roadmap", r)
  BY EnrollKeysHeld
<1>5. /\ enrolled' \in [Pupils -> [StudyCourses -> EnrollmentRows]] /\ enrolled'[s][x] = new
      /\ \A t \in Pupils, y \in StudyCourses : <<t, y>> # <<s, x>> => enrolled'[t][y] = enrolled[t][y]
  <2>1. enrolled' = [enrolled EXCEPT ![s][x] = new]
    BY DEF EnrollAs
  <2> HIDE DEF new
  <2> QED BY <1>1, <1>2, <2>1 DEF StudyTyped
<1> HIDE DEF new
<1>6. SpareStudies(p)
  <2>1. \A t \in Pupils, y \in StudyCourses : <<t, y>> # <<s, x>> => Touched(t, y)
    BY <1>5 DEF Touched
  <2>2. SparePupils(p) /\ SpareCourses(p)
    BY <1>4, <2>1 DEF SparePupils, SpareCourses
  <2>3. SpareSubjects(p) /\ SpareNames(p)
    BY DEF SpareSubjects, SpareNames
  <2>4. SpareRoadmaps(p)
    <3> SUFFICES ASSUME NEW q \in Roadmaps, Elsewhere(p, "roadmap", q), NEW t \in Pupils, NEW y \in StudyCourses,
                        enrolled'[t][y].roadmap = q
                 PROVE  enrolled'[t][y] = enrolled[t][y]
      BY DEF SpareRoadmaps
    <3>1. q # NoRoadmap /\ q # r
      BY <1>4, StudyCommandsAssumption
    <3> QED BY <1>2, <1>5, <3>1
  <2> QED BY <2>2, <2>3, <2>4 DEF SpareStudies
<1>7. EnrollmentsRestOnWhatExists'
  <2> SUFFICES ASSUME NEW t \in Pupils, NEW y \in StudyCourses, enrolled'[t][y].status # "none"
               PROVE  LET e == enrolled'[t][y] IN
                      /\ course[y].status = "active" /\ subject[course[y].subject].status = "active"
                      /\ e.roadmap # NoRoadmap =>
                           /\ roadmap[e.roadmap].status = "active" /\ roadmap[e.roadmap].order[y] > 0
                           /\ e.status = "active" /\ <<t, y>> \notin revived \cup resumed => roadmap[e.roadmap].open
    BY DEF EnrollmentsRestOnWhatExists, RowsRest, StudiesSnapshot
  <2>1. CASE <<t, y>> = <<s, x>>
    BY <1>2, <1>3, <1>5, <2>1
  <2>2. CASE <<t, y>> # <<s, x>>
    BY <1>1, <1>5, <2>2, RestingRows
  <2> QED BY <2>1, <2>2
<1>8. RemovedStudentsLeave'
  <2> SUFFICES ASSUME NEW t \in Pupils, NEW y \in StudyCourses, pupil[t] = "removed", enrolled'[t][y].status = "active"
               PROVE  <<t, y>> \in revived
    BY DEF RemovedStudentsLeave
  <2>1. <<t, y>> # <<s, x>>
    BY <1>3
  <2> QED BY <1>1, <1>5, <2>1 DEF RemovedStudentsLeave
<1>9. StudyTyped' /\ CoursesHaveSubjects' /\ RoadmapOrderIsDense' /\ OneSubjectPerName'
  BY <1>1, <1>5 DEF StudiesSound, StudyRowsFit, StudyTyped, CoursesHaveSubjects, RoadmapOrderIsDense, OneSubjectPerName
<1> QED BY <1>6, <1>7, <1>8, <1>9 DEF StudyRowsFit

StudyOps == {"enroll", "ensureActive", "editEnrollment", "editStudent", "removeStudent", "createCourse", "resolve",
             "moveCourse", "removeCourse", "removeSubject", "renameSubject", "createRoadmap", "openRoadmap", "removeRoadmap",
             "linkCourse", "unlinkCourse", "reorder"}

LEMMA StudyCommandHeld ==
    ASSUME StudiesSound, NEW p \in Instances, run[p].cmd.op \in StudyOps
    PROVE  run[p].cmd \in StudyCommands /\ run[p].held = StudyKeys(run[p].cmd) /\ Sees(p)
<1>1. run[p].cmd.op # "none" /\ run[p].cmd \notin CounselCommands
  BY CounselCommandsAssumption DEF StudyOps
<1> QED BY <1>1 DEF StudiesSound, HoldsItsKeys

LEMMA EnrollKeeps ==
    ASSUME StudiesSound, NEW p \in Instances, Enroll(p), UNCHANGED counselVars
    PROVE  StudiesSound'
<1> DEFINE c == run[p].cmd
<1>1. c.op = "enroll" /\ End(p) /\ UNCHANGED <<pupil, subject, course, roadmap, revived, resumed>>
      /\ EnrollAs(Read(p), c.s, c.c, c.r, NoForm)
  BY DEF Enroll, Running
<1>2. c \in StudyCommands /\ run[p].held = StudyKeys(c)
  BY <1>1, StudyCommandHeld DEF StudyOps
<1>3. c.s \in Pupils /\ c.c \in StudyCourses /\ c.r \in Roadmaps \cup {NoRoadmap}
  BY <1>1, <1>2, StudyCommandsAssumption
<1>4. EnrollKeys(c.s, c.c, c.r) \subseteq run[p].held
  BY <1>1, <1>2 DEF StudyKeys
<1>5. StudyRowsFit' /\ SpareStudies(p)
  <2> HIDE DEF c
  <2> QED BY <1>1, <1>3, <1>4, EnrolledFits
<1>6. CardRowsFit' /\ SpareCards(p)
  BY CardRowsStay DEF StudiesSound
<1> QED BY <1>1, <1>5, <1>6, StudyStep

(* Enrollments there are change their status only, or begin without a      *)
(* roadmap; those made active again are known to be.                       *)
LEMMA StatusesFit ==
    ASSUME StudiesSound, NEW p \in Instances, UNCHANGED <<subject, course, roadmap>>,
           pupil' \in [Pupils -> {"visible", "hidden", "removed"}],
           enrolled' \in [Pupils -> [StudyCourses -> EnrollmentRows]],
           revived \subseteq revived', resumed \subseteq resumed',
           \A s \in Pupils, x \in StudyCourses :
               enrolled'[s][x] # enrolled[s][x] =>
                   /\ enrolled'[s][x].roadmap = enrolled[s][x].roadmap
                   /\ enrolled[s][x].status = "none" => course[x].status = "active"
                   /\ enrolled'[s][x].status = "active" /\ <<s, x>> \notin revived' \cup resumed' =>
                        enrolled'[s][x].roadmap = NoRoadmap
    PROVE  StudyTyped' /\ CoursesHaveSubjects' /\ RoadmapOrderIsDense' /\ OneSubjectPerName'
           /\ EnrollmentsRestOnWhatExists'
           /\ SpareSubjects(p) /\ SpareRoadmaps(p) /\ SpareNames(p)
<1>1. StudyRowsFit
  BY DEF StudiesSound
<1>2. StudyTyped' /\ CoursesHaveSubjects' /\ RoadmapOrderIsDense' /\ OneSubjectPerName'
  BY <1>1 DEF StudyRowsFit, StudyTyped, CoursesHaveSubjects, RoadmapOrderIsDense, OneSubjectPerName
<1>3. EnrollmentsRestOnWhatExists'
  <2> SUFFICES ASSUME NEW s \in Pupils, NEW x \in StudyCourses, enrolled'[s][x].status # "none"
               PROVE  LET e == enrolled'[s][x] IN
                      /\ course[x].status = "active" /\ subject[course[x].subject].status = "active"
                      /\ e.roadmap # NoRoadmap =>
                           /\ roadmap[e.roadmap].status = "active" /\ roadmap[e.roadmap].order[x] > 0
                           /\ e.status = "active" /\ <<s, x>> \notin revived' \cup resumed' => roadmap[e.roadmap].open
    BY DEF EnrollmentsRestOnWhatExists, RowsRest, StudiesSnapshot
  <2> DEFINE e == enrolled'[s][x]
             old == enrolled[s][x]
  <2>1. old.status # "none" =>
            /\ course[x].status = "active" /\ subject[course[x].subject].status = "active"
            /\ old.roadmap # NoRoadmap =>
                 /\ roadmap[old.roadmap].status = "active" /\ roadmap[old.roadmap].order[x] > 0
                 /\ old.status = "active" /\ <<s, x>> \notin revived \cup resumed => roadmap[old.roadmap].open
    BY <1>1, RestingRows DEF StudyRowsFit
  <2>2. old.status = "none" => old.roadmap = NoRoadmap
    BY <1>1, EnrollmentsFit DEF NotEnrolled
  <2>3. CASE e = old
    BY <2>1, <2>3
  <2>4. CASE e # old
    <3>1. /\ e.roadmap = old.roadmap
          /\ old.status = "none" => course[x].status = "active"
          /\ e.status = "active" /\ <<s, x>> \notin revived' \cup resumed' => e.roadmap = NoRoadmap
      BY <2>4
    <3>2. course[x].status = "active" => subject[course[x].subject].status = "active"
      BY <1>1 DEF StudyRowsFit, CoursesHaveSubjects
    <3> HIDE DEF e, old
    <3>3. course[x].status = "active" /\ subject[course[x].subject].status = "active"
      BY <2>1, <3>1, <3>2
    <3>4. e.roadmap # NoRoadmap => roadmap[e.roadmap].status = "active" /\ roadmap[e.roadmap].order[x] > 0
      BY <2>1, <2>2, <3>1
    <3> QED BY <3>1, <3>3, <3>4 DEF e
  <2> QED BY <2>3, <2>4
<1>4. SpareRoadmaps(p)
  <2> SUFFICES ASSUME NEW r \in Roadmaps, NEW s \in Pupils, NEW x \in StudyCourses, enrolled'[s][x].roadmap = r
               PROVE  /\ enrolled[s][x].roadmap = r
                      /\ enrolled'[s][x].status = "active" /\ <<s, x>> \notin revived' \cup resumed' =>
                           enrolled[s][x].status = "active"
    BY DEF SpareRoadmaps
  <2>1. r # NoRoadmap
    BY StudyCommandsAssumption
  <2> QED BY <2>1
<1>5. SpareSubjects(p) /\ SpareNames(p)
  BY DEF SpareSubjects, SpareNames
<1> QED BY <1>2, <1>3, <1>4, <1>5

LEMMA EnsureKeeps ==
    ASSUME StudiesSound, NEW p \in Instances, EnsureActive(p), UNCHANGED counselVars
    PROVE  StudiesSound'
<1> DEFINE c == run[p].cmd
           x == c.c
           was(s) == Read(p).enrolled[s][x].status
<1>1. /\ c.op = "ensureActive" /\ End(p) /\ UNCHANGED <<pupil, subject, course, roadmap, revived>>
      /\ \A s \in c.pupils : CanStudy(Read(p), s, x)
      /\ enrolled' = [s \in Pupils |-> IF s \in c.pupils /\ was(s) # "active"
                                         THEN [enrolled[s] EXCEPT ![x].status = "active"] ELSE enrolled[s]]
      /\ resumed' = resumed \cup {<<s, x>> : s \in {t \in c.pupils : was(t) \notin {"none", "active"}}}
  BY DEF EnsureActive, Running
<1>2. c \in StudyCommands /\ run[p].held = StudyKeys(c) /\ Sees(p)
  BY <1>1, StudyCommandHeld DEF StudyOps
<1>3. c.pupils \in SUBSET Pupils /\ x \in StudyCourses
  BY <1>1, <1>2, StudyCommandsAssumption
<1>4. <<"course", x>> \in run[p].held /\ \A s \in c.pupils : <<"student", s>> \in run[p].held
  BY <1>1, <1>2 DEF StudyKeys, Lock
<1>5. SeesCourse(p, x) /\ \A s \in c.pupils : SeesPupil(p, s)
  BY <1>2, <1>3, <1>4 DEF Sees
<1>6. \A s \in c.pupils : pupil[s] = "visible" /\ course[x].status = "active"
  BY <1>1, <1>5 DEF CanStudy, SeesCourse, SeesPupil
<1>7. \A s \in c.pupils : ~Elsewhere(p, "student", s)
  BY <1>4, NotElsewhere DEF StudiesSound
<1>8. ~Elsewhere(p, "course", x)
  BY <1>4, NotElsewhere DEF StudiesSound
<1>9. StudyTyped /\ StudyRowsFit
  BY DEF StudiesSound, StudyRowsFit
<1>10. \A s \in Pupils, y \in StudyCourses :
           /\ enrolled'[s][y] \in EnrollmentRows
           /\ enrolled'[s][y] = enrolled[s][y]
              \/ /\ s \in c.pupils /\ y = x /\ was(s) # "active"
                 /\ enrolled'[s][y].roadmap = enrolled[s][y].roadmap
  <2> SUFFICES ASSUME NEW s \in Pupils, NEW y \in StudyCourses
               PROVE  /\ enrolled'[s][y] \in EnrollmentRows
                      /\ enrolled'[s][y] = enrolled[s][y]
                         \/ /\ s \in c.pupils /\ y = x /\ was(s) # "active"
                            /\ enrolled'[s][y].roadmap = enrolled[s][y].roadmap
    OBVIOUS
  <2>1. enrolled[s] \in [StudyCourses -> EnrollmentRows]
    BY <1>9 DEF StudyTyped
  <2>2. CASE s \in c.pupils /\ was(s) # "active" /\ y = x
    <3>1. enrolled'[s][y] = [enrolled[s][x] EXCEPT !.status = "active"]
      BY <1>1, <1>3, <2>1, <2>2
    <3>2. enrolled[s][x] \in EnrollmentRows
      BY <1>3, <2>1
    <3>3. [enrolled[s][x] EXCEPT !.status = "active"] \in EnrollmentRows
          /\ [enrolled[s][x] EXCEPT !.status = "active"].roadmap = enrolled[s][x].roadmap
      BY <3>2 DEF EnrollmentRows, EnrollmentStatuses, NotEnrolled
    <3> QED BY <2>2, <3>1, <3>3
  <2>3. CASE ~(s \in c.pupils /\ was(s) # "active" /\ y = x)
    <3>1. enrolled'[s][y] = enrolled[s][y]
      BY <1>1, <1>3, <2>1, <2>3
    <3> QED BY <2>1, <3>1
  <2> QED BY <2>2, <2>3
<1>11. enrolled' \in [Pupils -> [StudyCourses -> EnrollmentRows]]
  <2>1. \A s \in Pupils : DOMAIN enrolled'[s] = StudyCourses /\ enrolled'[s] = [y \in StudyCourses |-> enrolled'[s][y]]
    BY <1>1, <1>3, <1>9 DEF StudyTyped
  <2>2. \A s \in Pupils : enrolled'[s] \in [StudyCourses -> EnrollmentRows]
    BY <1>10, <2>1
  <2> QED BY <1>1, <2>2
<1>12. \A s \in Pupils, y \in StudyCourses : enrolled'[s][y] # enrolled[s][y] =>
           /\ enrolled'[s][y].roadmap = enrolled[s][y].roadmap
           /\ enrolled[s][y].status = "none" => course[y].status = "active"
           /\ enrolled'[s][y].status = "active" /\ <<s, y>> \notin revived' \cup resumed' =>
                enrolled'[s][y].roadmap = NoRoadmap
  <2> SUFFICES ASSUME NEW s \in Pupils, NEW y \in StudyCourses, enrolled'[s][y] # enrolled[s][y],
                      <<s, y>> \notin resumed'
               PROVE  enrolled[s][y].roadmap = NoRoadmap
    BY <1>6, <1>10
  <2>1. s \in c.pupils /\ y = x /\ was(s) # "active"
    BY <1>10
  <2>2. was(s) = "none"
    BY <1>1, <2>1
  <2>3. enrolled[s][x] = NotEnrolled
    BY <1>3, <1>5, <2>1, <2>2 DEF SeesCourse, SeesEnrollment
  <2> QED BY <2>1, <2>3 DEF NotEnrolled
<1>13. revived \subseteq revived' /\ resumed \subseteq resumed'
  BY <1>1
<1>14. /\ StudyTyped' /\ CoursesHaveSubjects' /\ RoadmapOrderIsDense' /\ OneSubjectPerName'
       /\ EnrollmentsRestOnWhatExists'
       /\ SpareSubjects(p) /\ SpareRoadmaps(p) /\ SpareNames(p)
  <2>1. pupil' \in [Pupils -> {"visible", "hidden", "removed"}]
    BY <1>1, <1>9 DEF StudyTyped
  <2> HIDE DEF c, x, was
  <2> QED BY <1>1, <1>11, <1>12, <1>13, <2>1, StatusesFit
<1>15. SparePupils(p) /\ SpareCourses(p)
  <2>1. \A s \in Pupils, y \in StudyCourses : s \notin c.pupils \/ y # x => Touched(s, y)
    BY <1>10 DEF Touched
  <2> QED BY <1>1, <1>7, <1>8, <2>1 DEF SparePupils, SpareCourses
<1>16. RemovedStudentsLeave'
  <2> SUFFICES ASSUME NEW s \in Pupils, NEW y \in StudyCourses, pupil[s] = "removed", enrolled'[s][y].status = "active"
               PROVE  <<s, y>> \in revived
    BY <1>1 DEF RemovedStudentsLeave
  <2>1. enrolled'[s][y] = enrolled[s][y]
    BY <1>6, <1>10
  <2> QED BY <1>9, <2>1 DEF StudyRowsFit, RemovedStudentsLeave
<1>17. CardRowsFit' /\ SpareCards(p)
  BY CardRowsStay DEF StudiesSound
<1>18. StudyRowsFit' /\ SpareStudies(p)
  BY <1>13, <1>14, <1>15, <1>16 DEF StudyRowsFit, SpareStudies
<1> QED BY <1>1, <1>17, <1>18, StudyStep

LEMMA WithStatus ==
    ASSUME NEW row \in EnrollmentRows, row.status # "none", NEW status \in EnrollmentStatuses
    PROVE  /\ [row EXCEPT !.status = status] \in EnrollmentRows
           /\ [row EXCEPT !.status = status].roadmap = row.roadmap
           /\ [row EXCEPT !.status = status].status = status
<1>1. row \in [status : EnrollmentStatuses, roadmap : Roadmaps \cup {NoRoadmap}, form : Forms \cup {NoForm}]
  BY DEF EnrollmentRows, NotEnrolled
<1> QED BY <1>1 DEF EnrollmentRows

LEMMA EditEnrollmentKeeps ==
    ASSUME StudiesSound, NEW p \in Instances, EditEnrollment(p), UNCHANGED counselVars
    PROVE  StudiesSound'
<1> DEFINE c == run[p].cmd
           s == c.s
           x == c.c
<1>1. /\ c.op = "editEnrollment" /\ End(p) /\ UNCHANGED <<pupil, subject, course, roadmap, resumed>>
      /\ enrolled[s][x].status # "none"
      /\ enrolled' = [enrolled EXCEPT ![s][x].status = c.status]
      /\ revived' = IF c.status = "active" THEN revived \cup {<<s, x>>} ELSE revived
  BY DEF EditEnrollment, Running
<1>2. s \in Pupils /\ x \in StudyCourses /\ c.status \in EnrollmentStatuses
  BY <1>1, StudyCommandHeld, StudyCommandsAssumption DEF StudyOps
<1>3. StudyTyped /\ StudyRowsFit
  BY DEF StudiesSound, StudyRowsFit
<1> DEFINE new == [enrolled[s][x] EXCEPT !.status = c.status]
<1>4. enrolled[s][x] \in EnrollmentRows
  BY <1>2, <1>3 DEF StudyTyped
<1>5. new \in EnrollmentRows /\ new.roadmap = enrolled[s][x].roadmap /\ new.status = c.status
  BY <1>1, <1>2, <1>4, WithStatus
<1>6. /\ enrolled' \in [Pupils -> [StudyCourses -> EnrollmentRows]] /\ enrolled'[s][x] = new
      /\ \A t \in Pupils, y \in StudyCourses : <<t, y>> # <<s, x>> => enrolled'[t][y] = enrolled[t][y]
  <2>1. enrolled' = [enrolled EXCEPT ![s][x] = new]
    BY <1>1, <1>2, <1>3 DEF StudyTyped
  <2> HIDE DEF new, c
  <2> QED BY <1>2, <1>3, <1>5, <2>1 DEF StudyTyped
<1>7. new.status # "none" /\ (new.status = "active" => <<s, x>> \in revived') /\ revived \subseteq revived'
  BY <1>1, <1>2, <1>5 DEF EnrollmentStatuses
<1> HIDE DEF new, c
<1>8. /\ StudyTyped' /\ CoursesHaveSubjects' /\ RoadmapOrderIsDense' /\ OneSubjectPerName'
      /\ EnrollmentsRestOnWhatExists'
      /\ SpareSubjects(p) /\ SpareRoadmaps(p) /\ SpareNames(p)
  <2>1. \A t \in Pupils, y \in StudyCourses : enrolled'[t][y] # enrolled[t][y] =>
           /\ enrolled'[t][y].roadmap = enrolled[t][y].roadmap
           /\ enrolled[t][y].status = "none" => course[y].status = "active"
           /\ enrolled'[t][y].status = "active" /\ <<t, y>> \notin revived' \cup resumed' =>
                enrolled'[t][y].roadmap = NoRoadmap
    <3> SUFFICES ASSUME NEW t \in Pupils, NEW y \in StudyCourses, enrolled'[t][y] # enrolled[t][y]
                 PROVE  /\ enrolled'[t][y].roadmap = enrolled[t][y].roadmap
                        /\ enrolled[t][y].status # "none"
                        /\ enrolled'[t][y].status = "active" => <<t, y>> \in revived'
      OBVIOUS
    <3>1. t = s /\ y = x
      BY <1>6
    <3> QED BY <1>1, <1>5, <1>6, <1>7, <3>1
  <2>2. pupil' \in [Pupils -> {"visible", "hidden", "removed"}] /\ resumed \subseteq resumed'
    BY <1>1, <1>3 DEF StudyTyped
  <2> HIDE DEF s, x
  <2> QED BY <1>1, <1>6, <1>7, <2>1, <2>2, StatusesFit
<1>9. SparePupils(p) /\ SpareCourses(p)
  <2>1. \A t \in Pupils, y \in StudyCourses : Touched(t, y)
    BY <1>1, <1>6, <1>7 DEF Touched
  <2> QED BY <1>1, <2>1 DEF SparePupils, SpareCourses
<1>10. RemovedStudentsLeave'
  <2> SUFFICES ASSUME NEW t \in Pupils, NEW y \in StudyCourses, pupil[t] = "removed", enrolled'[t][y].status = "active",
                      <<t, y>> \notin revived'
               PROVE  FALSE
    BY <1>1 DEF RemovedStudentsLeave
  <2>1. enrolled'[t][y] = enrolled[t][y] /\ <<t, y>> \notin revived
    BY <1>6, <1>7
  <2> QED BY <1>3, <2>1 DEF StudyRowsFit, RemovedStudentsLeave
<1>11. CardRowsFit' /\ SpareCards(p)
  BY CardRowsStay DEF StudiesSound
<1>12. StudyRowsFit' /\ SpareStudies(p)
  BY <1>1, <1>7, <1>8, <1>9, <1>10 DEF StudyRowsFit, SpareStudies
<1> QED BY <1>1, <1>11, <1>12, StudyStep

LEMMA EditStudentKeeps ==
    ASSUME StudiesSound, NEW p \in Instances, EditStudent(p), UNCHANGED counselVars
    PROVE  StudiesSound'
<1> DEFINE c == run[p].cmd
           s == c.s
<1>1. /\ c.op = "editStudent" /\ End(p) /\ UNCHANGED <<subject, course, roadmap, enrolled, revived, resumed>>
      /\ pupil' = [pupil EXCEPT ![s] = c.status]
  BY DEF EditStudent, Running
<1>2. /\ c \in StudyCommands /\ run[p].held = StudyKeys(c)
      /\ s \in Pupils /\ c.status \in {"visible", "hidden"}
  BY <1>1, StudyCommandHeld, StudyCommandsAssumption DEF StudyOps
<1>3. ~Elsewhere(p, "student", s)
  <2>1. <<"student", s>> \in run[p].held
    BY <1>1, <1>2 DEF StudyKeys, Lock
  <2> QED BY <2>1, NotElsewhere DEF StudiesSound
<1>4. StudyTyped /\ StudyRowsFit
  BY DEF StudiesSound, StudyRowsFit
<1> HIDE DEF c
<1>5. /\ pupil' \in [Pupils -> {"visible", "hidden", "removed"}] /\ pupil'[s] # "removed"
      /\ \A t \in Pupils \ {s} : pupil'[t] = pupil[t]
  BY <1>1, <1>2, <1>4 DEF StudyTyped
<1>6. /\ StudyTyped' /\ CoursesHaveSubjects' /\ RoadmapOrderIsDense' /\ OneSubjectPerName'
      /\ EnrollmentsRestOnWhatExists'
      /\ SpareSubjects(p) /\ SpareRoadmaps(p) /\ SpareNames(p)
  <2>1. enrolled' \in [Pupils -> [StudyCourses -> EnrollmentRows]]
    BY <1>1, <1>4 DEF StudyTyped
  <2> HIDE DEF s
  <2> QED BY <1>1, <1>5, <2>1, StatusesFit
<1>7. SparePupils(p) /\ SpareCourses(p)
  BY <1>1, <1>3, <1>5 DEF SparePupils, SpareCourses, Touched
<1>8. RemovedStudentsLeave'
  BY <1>1, <1>4, <1>5 DEF StudyRowsFit, RemovedStudentsLeave
<1>9. CardRowsFit' /\ SpareCards(p)
  BY CardRowsStay DEF StudiesSound
<1>10. StudyRowsFit' /\ SpareStudies(p)
  BY <1>1, <1>6, <1>7, <1>8 DEF StudyRowsFit, SpareStudies
<1> QED BY <1>1, <1>9, <1>10, StudyStep

LEMMA RemovePupilKeeps ==
    ASSUME StudiesSound, NEW p \in Instances, RemovePupil(p), UNCHANGED counselVars
    PROVE  StudiesSound'
<1> DEFINE c == run[p].cmd
           s == c.s
           was(x) == Read(p).enrolled[s][x].status
<1>1. /\ c.op = "removeStudent" /\ End(p) /\ UNCHANGED <<subject, course, roadmap, revived, resumed>>
      /\ pupil' = [pupil EXCEPT ![s] = "removed"]
      /\ enrolled' = [enrolled EXCEPT ![s] = [x \in StudyCourses |->
                        IF was(x) \notin {"none", "canceled"} THEN [@[x] EXCEPT !.status = "canceled"] ELSE @[x]]]
  BY DEF RemovePupil, Running
<1>2. c \in StudyCommands /\ run[p].held = StudyKeys(c) /\ s \in Pupils /\ Sees(p)
  BY <1>1, StudyCommandHeld, StudyCommandsAssumption DEF StudyOps
<1>3. <<"student", s>> \in run[p].held
  BY <1>1, <1>2 DEF StudyKeys, Lock
<1>4. SeesPupil(p, s) /\ ~Elsewhere(p, "student", s)
  BY <1>2, <1>3, NotElsewhere DEF Sees, StudiesSound
<1>5. StudyTyped /\ StudyRowsFit
  BY DEF StudiesSound, StudyRowsFit
<1>6. /\ pupil' \in [Pupils -> {"visible", "hidden", "removed"}]
      /\ \A t \in Pupils \ {s} : pupil'[t] = pupil[t]
  BY <1>1, <1>2, <1>5 DEF StudyTyped
<1> DEFINE new == [x \in StudyCourses |->
                     IF was(x) \notin {"none", "canceled"} THEN [enrolled[s][x] EXCEPT !.status = "canceled"]
                     ELSE enrolled[s][x]]
<1>7. enrolled' = [enrolled EXCEPT ![s] = new]
  BY <1>1, <1>2, <1>5 DEF StudyTyped
<1>8. \A x \in StudyCourses :
          /\ new[x] \in EnrollmentRows /\ new[x].roadmap = enrolled[s][x].roadmap
          /\ \/ new[x] = enrolled[s][x]
             \/ new[x].status = "canceled" /\ enrolled[s][x].status # "none"
          /\ new[x].status = "active" => <<s, x>> \in revived
  <2> SUFFICES ASSUME NEW x \in StudyCourses
               PROVE  /\ new[x] \in EnrollmentRows /\ new[x].roadmap = enrolled[s][x].roadmap
                      /\ \/ new[x] = enrolled[s][x]
                         \/ new[x].status = "canceled" /\ enrolled[s][x].status # "none"
                      /\ new[x].status = "active" => <<s, x>> \in revived
    OBVIOUS
  <2>1. enrolled[s][x] \in EnrollmentRows
    BY <1>2, <1>5 DEF StudyTyped
  <2>2. /\ was(x) # "none" => enrolled[s][x].status # "none"
        /\ enrolled[s][x].status = "active" /\ <<s, x>> \notin revived => was(x) = "active"
    BY <1>4 DEF SeesPupil, SeesEnrollment, NotEnrolled
  <2>3. CASE was(x) \notin {"none", "canceled"}
    <3>1. new[x] = [enrolled[s][x] EXCEPT !.status = "canceled"] /\ enrolled[s][x].status # "none"
      BY <2>2, <2>3
    <3>2. "canceled" \in EnrollmentStatuses
      BY DEF EnrollmentStatuses
    <3> HIDE DEF new, c, s, was
    <3> QED BY <2>1, <3>1, <3>2, WithStatus
  <2>4. CASE was(x) \in {"none", "canceled"}
    <3>1. new[x] = enrolled[s][x]
      BY <2>4
    <3> HIDE DEF new
    <3> QED BY <2>1, <2>2, <2>4, <3>1
  <2> QED BY <2>3, <2>4
<1>9. /\ enrolled' \in [Pupils -> [StudyCourses -> EnrollmentRows]] /\ enrolled'[s] = new
      /\ \A t \in Pupils \ {s} : enrolled'[t] = enrolled[t]
  <2>1. new \in [StudyCourses -> EnrollmentRows]
    BY <1>8
  <2> HIDE DEF new
  <2> QED BY <1>2, <1>5, <1>7, <2>1 DEF StudyTyped
<1> HIDE DEF new, c, was
<1>10. /\ StudyTyped' /\ CoursesHaveSubjects' /\ RoadmapOrderIsDense' /\ OneSubjectPerName'
       /\ EnrollmentsRestOnWhatExists'
       /\ SpareSubjects(p) /\ SpareRoadmaps(p) /\ SpareNames(p)
  <2>1. \A t \in Pupils, y \in StudyCourses : enrolled'[t][y] # enrolled[t][y] =>
           /\ enrolled'[t][y].roadmap = enrolled[t][y].roadmap
           /\ enrolled[t][y].status = "none" => course[y].status = "active"
           /\ enrolled'[t][y].status = "active" /\ <<t, y>> \notin revived' \cup resumed' =>
                enrolled'[t][y].roadmap = NoRoadmap
    BY <1>1, <1>8, <1>9
  <2> HIDE DEF s
  <2> QED BY <1>1, <1>6, <1>9, <2>1, StatusesFit
<1>11. SparePupils(p) /\ SpareCourses(p)
  <2>1. \A t \in Pupils, y \in StudyCourses : Touched(t, y)
    BY <1>8, <1>9 DEF Touched
  <2> QED BY <1>1, <1>4, <1>6, <2>1 DEF SparePupils, SpareCourses
<1>12. RemovedStudentsLeave'
  <2> SUFFICES ASSUME NEW t \in Pupils, NEW y \in StudyCourses, pupil'[t] = "removed", enrolled'[t][y].status = "active"
               PROVE  <<t, y>> \in revived
    BY <1>1 DEF RemovedStudentsLeave
  <2>1. CASE t = s
    BY <1>8, <1>9, <2>1
  <2>2. CASE t # s
    BY <1>5, <1>6, <1>9, <2>2 DEF StudyRowsFit, RemovedStudentsLeave
  <2> QED BY <2>1, <2>2
<1>13. CardRowsFit' /\ SpareCards(p)
  BY CardRowsStay DEF StudiesSound
<1>14. StudyRowsFit' /\ SpareStudies(p)
  BY <1>1, <1>10, <1>11, <1>12 DEF StudyRowsFit, SpareStudies
<1> QED BY <1>1, <1>13, <1>14, StudyStep

-----------------------------------------------------------------------------
(* Subjects and courses.                                                   *)
LEMMA SubjectsFit ==
    ASSUME StudiesSound, NEW p \in Instances, End(p), UNCHANGED counselVars,
           UNCHANGED <<pupil, roadmap, enrolled, revived, resumed>>,
           subject' \in [Subjects -> SubjectRows], course' \in [StudyCourses -> CourseRows],
           CoursesHaveSubjects', OneSubjectPerName',
           \A x \in StudyCourses, s \in Pupils :
               enrolled[s][x].status # "none" /\ course[x].status = "active" => course'[x].status = "active",
           \A x \in StudyCourses : course'[x] # course[x] => course[x].status = "absent" \/ ~Elsewhere(p, "course", x),
           SpareSubjects(p), SpareNames(p)
    PROVE  StudiesSound'
<1>1. StudyRowsFit
  BY DEF StudiesSound
<1>2. EnrollmentsRestOnWhatExists'
  <2> SUFFICES ASSUME NEW s \in Pupils, NEW x \in StudyCourses, enrolled[s][x].status # "none"
               PROVE  LET e == enrolled[s][x] IN
                      /\ course'[x].status = "active" /\ subject'[course'[x].subject].status = "active"
                      /\ e.roadmap # NoRoadmap =>
                           /\ roadmap[e.roadmap].status = "active" /\ roadmap[e.roadmap].order[x] > 0
                           /\ e.status = "active" /\ <<s, x>> \notin revived \cup resumed => roadmap[e.roadmap].open
    BY DEF EnrollmentsRestOnWhatExists, RowsRest, StudiesSnapshot
  <2> DEFINE e == enrolled[s][x]
  <2>1. /\ course[x].status = "active"
        /\ e.roadmap # NoRoadmap =>
             /\ roadmap[e.roadmap].status = "active" /\ roadmap[e.roadmap].order[x] > 0
             /\ e.status = "active" /\ <<s, x>> \notin revived \cup resumed => roadmap[e.roadmap].open
    BY <1>1, RestingRows DEF StudyRowsFit
  <2>2. course'[x].status = "active" /\ subject'[course'[x].subject].status = "active"
    BY <2>1 DEF CoursesHaveSubjects
  <2> QED BY <2>1, <2>2
<1>3. StudyTyped' /\ RoadmapOrderIsDense' /\ RemovedStudentsLeave'
  BY <1>1 DEF StudyRowsFit, StudyTyped, RoadmapOrderIsDense, RemovedStudentsLeave
<1>4. SparePupils(p) /\ SpareCourses(p) /\ SpareRoadmaps(p)
  BY DEF SparePupils, SpareCourses, SpareRoadmaps, Touched
<1>5. CardRowsFit' /\ SpareCards(p)
  BY CardRowsStay DEF StudiesSound
<1> QED BY <1>2, <1>3, <1>4, <1>5, StudyStep DEF StudyRowsFit, SpareStudies

(* One course changes, to a course of a subject there is or to one that is *)
(* gone.                                                                   *)
LEMMA CourseChanges ==
    ASSUME StudiesSound, NEW p \in Instances, End(p), UNCHANGED counselVars,
           UNCHANGED <<pupil, subject, roadmap, enrolled, revived, resumed>>,
           NEW x \in StudyCourses, NEW new \in CourseRows, course' = [course EXCEPT ![x] = new],
           course[x].status = "absent" \/ ~Elsewhere(p, "course", x),
           new.status = "active" => subject[new.subject].status = "active" /\ ~Elsewhere(p, "subject", new.subject),
           new.status = "active" \/ \A s \in Pupils : enrolled[s][x].status = "none"
    PROVE  StudiesSound'
<1>1. StudyTyped /\ StudyRowsFit
  BY DEF StudiesSound, StudyRowsFit
<1>2. /\ course' \in [StudyCourses -> CourseRows] /\ course'[x] = new
      /\ \A y \in StudyCourses \ {x} : course'[y] = course[y]
  BY <1>1 DEF StudyTyped
<1>3. CoursesHaveSubjects' /\ OneSubjectPerName'
  BY <1>1, <1>2 DEF StudyRowsFit, CoursesHaveSubjects, OneSubjectPerName
<1>4. SpareSubjects(p) /\ SpareNames(p)
  BY <1>2 DEF SpareSubjects, SpareNames, IsOf
<1>5. subject' \in [Subjects -> SubjectRows]
  BY <1>1 DEF StudyTyped
<1>6. /\ \A y \in StudyCourses, s \in Pupils :
             enrolled[s][y].status # "none" /\ course[y].status = "active" => course'[y].status = "active"
      /\ \A y \in StudyCourses : course'[y] # course[y] => course[y].status = "absent" \/ ~Elsewhere(p, "course", y)
  BY <1>2
<1> QED BY <1>2, <1>3, <1>4, <1>5, <1>6, SubjectsFit

LEMMA CourseKeeps ==
    ASSUME StudiesSound, NEW p \in Instances, CreateCourse(p) \/ MoveCourse(p) \/ RemoveCourse(p), UNCHANGED counselVars
    PROVE  StudiesSound'
<1> DEFINE c == run[p].cmd
           x == c.c
<1>1. /\ c.op \in {"createCourse", "moveCourse", "removeCourse"} /\ End(p)
      /\ UNCHANGED <<pupil, subject, roadmap, enrolled, revived, resumed>>
  BY DEF CreateCourse, MoveCourse, RemoveCourse, Running
<1>2. c \in StudyCommands /\ run[p].held = StudyKeys(c) /\ Sees(p)
  BY <1>1, StudyCommandHeld DEF StudyOps
<1>3. x \in StudyCourses /\ (c.op # "removeCourse" => c.subject \in Subjects)
  BY <1>1, <1>2, StudyCommandsAssumption
<1>4. StudyTyped /\ StudyRowsFit
  BY DEF StudiesSound, StudyRowsFit
<1>5. c.op # "createCourse" => SeesCourse(p, x) /\ ~Elsewhere(p, "course", x)
  <2>1. c.op # "createCourse" => <<"course", x>> \in run[p].held
    BY <1>1, <1>2 DEF StudyKeys, Lock
  <2> QED BY <1>2, <1>3, <2>1, NotElsewhere DEF Sees, StudiesSound
<1>6. c.op # "removeCourse" => subject[c.subject].status = "active" /\ ~Elsewhere(p, "subject", c.subject)
  <2>1. c.op # "removeCourse" => <<"subject", c.subject>> \in run[p].held
    BY <1>1, <1>2 DEF StudyKeys, Lock
  <2>2. c.op # "removeCourse" => Read(p).subject[c.subject].status = "active"
    BY DEF CreateCourse, MoveCourse, RemoveCourse, Running
  <2>3. c.op # "removeCourse" => SeesSubject(p, c.subject)
    BY <1>2, <1>3, <2>1 DEF Sees
  <2> QED BY <2>1, <2>2, <2>3, NotElsewhere DEF SeesSubject, StudiesSound
<1>7. course[x] \in CourseRows
  BY <1>3, <1>4 DEF StudyTyped
<1>8. CASE CreateCourse(p)
  <2> DEFINE new == [status |-> "active", subject |-> c.subject]
  <2>1. c.op = "createCourse" /\ course[x].status = "absent" /\ course' = [course EXCEPT ![x] = new]
    BY <1>8 DEF CreateCourse, Running
  <2>2. new \in CourseRows /\ new.status = "active" /\ new.subject = c.subject
    BY <1>3, <2>1 DEF CourseRows, Standing
  <2> HIDE DEF new, c, x
  <2> QED BY <1>1, <1>3, <1>6, <2>1, <2>2, CourseChanges
<1>9. CASE MoveCourse(p)
  <2> DEFINE new == [course[x] EXCEPT !.subject = c.subject]
  <2>1. c.op = "moveCourse" /\ Read(p).course[x].status = "active"
    BY <1>9 DEF MoveCourse, Running
  <2>2. course[x].status = "active"
    BY <1>5, <2>1 DEF SeesCourse
  <2>3. new \in CourseRows /\ new.status = "active" /\ new.subject = c.subject
    BY <1>3, <1>7, <2>1, <2>2 DEF CourseRows
  <2>4. course' = [course EXCEPT ![x] = new]
    BY <1>3, <1>4, <1>9 DEF MoveCourse, StudyTyped
  <2> HIDE DEF new, c, x
  <2> QED BY <1>1, <1>3, <1>5, <1>6, <2>1, <2>3, <2>4, CourseChanges
<1>10. CASE RemoveCourse(p)
  <2> DEFINE new == [course[x] EXCEPT !.status = "removed"]
  <2>1. c.op = "removeCourse" /\ \A s \in Pupils : Read(p).enrolled[s][x] = NotEnrolled
    BY <1>10 DEF RemoveCourse, Running
  <2>2. \A s \in Pupils : enrolled[s][x].status = "none"
    BY <1>5, <2>1 DEF SeesCourse, SeesEnrollment, NotEnrolled
  <2>3. new \in CourseRows /\ new.status # "active"
    BY <1>7 DEF CourseRows, Standing
  <2>4. course' = [course EXCEPT ![x] = new]
    BY <1>3, <1>4, <1>10 DEF RemoveCourse, StudyTyped
  <2> HIDE DEF new, c, x
  <2> QED BY <1>1, <1>3, <1>5, <2>1, <2>2, <2>3, <2>4, CourseChanges
<1> QED BY <1>8, <1>9, <1>10

LEMMA RemoveSubjectKeeps ==
    ASSUME StudiesSound, NEW p \in Instances, RemoveSubject(p), UNCHANGED counselVars
    PROVE  StudiesSound'
<1> DEFINE c == run[p].cmd
           z == c.subject
<1>1. /\ c.op = "removeSubject" /\ End(p) /\ UNCHANGED <<pupil, course, roadmap, enrolled, revived, resumed>>
      /\ \A x \in StudyCourses : ~IsOf(Read(p).course, x, z)
      /\ subject' = [subject EXCEPT ![z].status = "removed"]
  BY DEF RemoveSubject, Running, IsOf
<1>2. c \in StudyCommands /\ run[p].held = StudyKeys(c) /\ Sees(p) /\ z \in Subjects
  BY <1>1, StudyCommandHeld, StudyCommandsAssumption DEF StudyOps
<1>3. <<"subject", z>> \in run[p].held
  BY <1>1, <1>2 DEF StudyKeys, Lock
<1>4. SeesSubject(p, z) /\ ~Elsewhere(p, "subject", z)
  BY <1>2, <1>3, NotElsewhere DEF Sees, StudiesSound
<1>5. \A x \in StudyCourses : course[x].status = "active" => course[x].subject # z
  BY <1>1, <1>4 DEF SeesSubject, IsOf
<1>6. StudyTyped /\ StudyRowsFit
  BY DEF StudiesSound, StudyRowsFit
<1> DEFINE new == [subject[z] EXCEPT !.status = "removed"]
<1>7. new \in SubjectRows /\ new.status = "removed"
  BY <1>2, <1>6 DEF StudyTyped, SubjectRows, Standing
<1>8. subject' = [subject EXCEPT ![z] = new]
  BY <1>1, <1>2, <1>6 DEF StudyTyped
<1> HIDE DEF new, c
<1>9. /\ subject' \in [Subjects -> SubjectRows] /\ subject'[z] = new
      /\ \A y \in Subjects \ {z} : subject'[y] = subject[y]
  BY <1>2, <1>6, <1>7, <1>8 DEF StudyTyped
<1>10. CoursesHaveSubjects'
  <2>1. \A x \in StudyCourses : course[x].subject \in Subjects
    BY <1>6 DEF StudyTyped, CourseRows
  <2> QED BY <1>1, <1>5, <1>6, <1>9, <2>1 DEF StudyRowsFit, CoursesHaveSubjects
<1>11. OneSubjectPerName'
  BY <1>6, <1>7, <1>9 DEF StudyRowsFit, OneSubjectPerName, OneOfEach
<1>12. SpareSubjects(p) /\ SpareNames(p)
  BY <1>1, <1>4, <1>7, <1>9 DEF SpareSubjects, SpareNames, MadeAs, IsOf
<1>13. course' \in [StudyCourses -> CourseRows]
  BY <1>1, <1>6 DEF StudyTyped
<1> QED BY <1>1, <1>9, <1>10, <1>11, <1>12, <1>13, SubjectsFit

LEMMA RenameSubjectKeeps ==
    ASSUME StudiesSound, NEW p \in Instances, RenameSubject(p), UNCHANGED counselVars
    PROVE  StudiesSound'
<1> DEFINE c == run[p].cmd
           z == c.subject
<1>1. /\ c.op = "renameSubject" /\ End(p) /\ UNCHANGED <<pupil, course, roadmap, enrolled, revived, resumed>>
      /\ Read(p).subject[z].status = "active"
      /\ subject' = [subject EXCEPT ![z].name = c.name, ![z].auto = FALSE]
  BY DEF RenameSubject, Running
<1>2. c \in StudyCommands /\ run[p].held = StudyKeys(c) /\ Sees(p) /\ z \in Subjects
  BY <1>1, StudyCommandHeld, StudyCommandsAssumption DEF StudyOps
<1>3. <<"subject", z>> \in run[p].held
  BY <1>1, <1>2 DEF StudyKeys, Lock
<1>4. ~Elsewhere(p, "subject", z)
  BY <1>3, NotElsewhere DEF StudiesSound
<1>5. subject[z].status = "active"
  BY <1>1, <1>2, <1>3 DEF Sees, SeesSubject
<1>6. StudyTyped /\ StudyRowsFit
  BY DEF StudiesSound, StudyRowsFit
<1> DEFINE new == [subject[z] EXCEPT !.name = c.name, !.auto = FALSE]
<1>7. new \in SubjectRows /\ new.status = "active" /\ ~new.auto
  <2>1. c.name \in SubjectNames
    BY <1>2 DEF SubjectNames
  <2>2. subject[z] \in SubjectRows
    BY <1>2, <1>6 DEF StudyTyped
  <2> HIDE DEF c, z
  <2> QED BY <1>5, <2>1, <2>2 DEF SubjectRows
<1>8. subject' = [subject EXCEPT ![z] = new]
  BY <1>1, <1>2, <1>6 DEF StudyTyped, SubjectRows
<1> HIDE DEF new, c
<1>9. /\ subject' \in [Subjects -> SubjectRows] /\ subject'[z] = new
      /\ \A y \in Subjects \ {z} : subject'[y] = subject[y]
  BY <1>2, <1>6, <1>7, <1>8 DEF StudyTyped
<1>10. CoursesHaveSubjects'
  <2>1. \A x \in StudyCourses : course[x].subject \in Subjects
    BY <1>6 DEF StudyTyped, CourseRows
  <2> QED BY <1>1, <1>6, <1>7, <1>9, <2>1 DEF StudyRowsFit, CoursesHaveSubjects
<1>11. OneSubjectPerName'
  BY <1>6, <1>7, <1>9 DEF StudyRowsFit, OneSubjectPerName, OneOfEach
<1>12. SpareSubjects(p) /\ SpareNames(p)
  BY <1>1, <1>4, <1>7, <1>9 DEF SpareSubjects, SpareNames, MadeAs, IsOf
<1>13. course' \in [StudyCourses -> CourseRows]
  BY <1>1, <1>6 DEF StudyTyped
<1> QED BY <1>1, <1>9, <1>10, <1>11, <1>12, <1>13, SubjectsFit

LEMMA ResolveKeeps ==
    ASSUME StudiesSound, NEW p \in Instances, ResolveSubject(p), UNCHANGED counselVars
    PROVE  StudiesSound'
<1> DEFINE c == run[p].cmd
           found == {x \in Subjects : Read(p).subject[x].status = "active" /\ Read(p).subject[x].name = c.name}
           made == [status |-> "active", name |-> c.name, auto |-> TRUE]
<1>1. c.op = "resolve" /\ End(p) /\ UNCHANGED <<pupil, roadmap, enrolled, revived, resumed>>
  BY DEF ResolveSubject, Running
<1>2. PICK x \in Subjects, y \in StudyCourses :
          /\ Free(p, Lock("subject", {x}))
          /\ IF found = {}
               THEN subject[x].status = "absent" /\ subject' = [subject EXCEPT ![x] = made]
               ELSE x \in found /\ subject[x].status = "active" /\ UNCHANGED subject
          /\ course[y].status = "absent" \/ Free(p, Lock("course", {y}))
          /\ course' = [course EXCEPT ![y] = [status |-> "active", subject |-> x]]
  BY DEF ResolveSubject
<1>3. c \in StudyCommands /\ run[p].held = StudyKeys(c) /\ Sees(p)
  BY <1>1, StudyCommandHeld DEF StudyOps
<1>4. <<"subjectName", c.name>> \in run[p].held /\ c.name \in SubjectNames
  BY <1>1, <1>3 DEF StudyKeys, SubjectNames
<1>5. SeesName(p, c.name) /\ ~Elsewhere(p, "subjectName", c.name)
  BY <1>3, <1>4, NotElsewhere DEF Sees, StudiesSound
<1>6. ASSUME NEW kind, NEW k, Free(p, Lock(kind, {k})) PROVE ~Elsewhere(p, kind, k)
  BY <1>6 DEF Free, Lock, Elsewhere
<1>7. ~Elsewhere(p, "subject", x) /\ (course[y].status = "absent" \/ ~Elsewhere(p, "course", y))
  BY <1>2, <1>6
<1>8. StudyTyped /\ StudyRowsFit
  BY DEF StudiesSound, StudyRowsFit
<1>9. made \in SubjectRows
  BY <1>4 DEF SubjectRows, Standing
<1>10. found = {} => \A z \in Subjects : ~MadeAs(subject, z, c.name)
  BY <1>5 DEF SeesName
<1>11. /\ subject' \in [Subjects -> SubjectRows] /\ subject'[x].status = "active"
       /\ \A z \in Subjects \ {x} : subject'[z] = subject[z]
       /\ subject'[x] = subject[x] \/ (found = {} /\ subject'[x] = made)
  <2> HIDE DEF found, made
  <2>1. CASE found = {}
    <3>1. made.status = "active"
      BY DEF made
    <3> QED BY <1>2, <1>8, <1>9, <2>1, <3>1 DEF StudyTyped
  <2>2. CASE found # {}
    BY <1>2, <1>8, <2>2 DEF StudyTyped
  <2> QED BY <2>1, <2>2
<1>12. /\ course' \in [StudyCourses -> CourseRows] /\ course'[y].status = "active" /\ course'[y].subject = x
       /\ \A z \in StudyCourses \ {y} : course'[z] = course[z]
  <2> DEFINE new == [status |-> "active", subject |-> x]
  <2>1. new \in CourseRows /\ new.status = "active" /\ new.subject = x
    BY DEF CourseRows, Standing
  <2>2. course' = [course EXCEPT ![y] = new]
    BY <1>2
  <2> HIDE DEF new
  <2> QED BY <1>8, <2>1, <2>2 DEF StudyTyped
<1>13. CoursesHaveSubjects'
  <2> SUFFICES ASSUME NEW z \in StudyCourses, course'[z].status = "active"
               PROVE  subject'[course'[z].subject].status = "active"
    BY DEF CoursesHaveSubjects
  <2>1. CASE z = y
    BY <1>11, <1>12, <2>1
  <2>2. CASE z # y
    <3>1. course'[z] = course[z] /\ course[z].subject \in Subjects
      BY <1>8, <1>12, <2>2 DEF StudyTyped, CourseRows
    <3>2. subject[course[z].subject].status = "active"
      BY <1>8, <3>1 DEF StudyRowsFit, CoursesHaveSubjects
    <3> QED BY <1>11, <3>1, <3>2
  <2> QED BY <2>1, <2>2
<1>14. OneSubjectPerName'
  <2>1. CASE subject'[x] = subject[x]
    <3>1. \A z \in Subjects : subject'[z] = subject[z]
      BY <1>11, <2>1
    <3> QED BY <1>8, <3>1 DEF StudyRowsFit, OneSubjectPerName, OneOfEach
  <2>2. CASE found = {} /\ subject'[x] = made
    <3>1. \A z \in Subjects \ {x} : ~(subject[z].status = "active" /\ subject[z].auto /\ subject[z].name = c.name)
      BY <1>10, <2>2 DEF MadeAs
    <3>2. subject'[x].name = c.name
      BY <2>2
    <3> QED BY <1>8, <1>11, <3>1, <3>2 DEF StudyRowsFit, OneSubjectPerName, OneOfEach
  <2> QED BY <1>11, <2>1, <2>2
<1>15. SpareSubjects(p)
  BY <1>7, <1>11, <1>12 DEF SpareSubjects, IsOf
<1>16. SpareNames(p)
  <2> SUFFICES ASSUME NEW n \in SubjectNames, n # c.name, NEW z \in Subjects, MadeAs(subject', z, n)
               PROVE  MadeAs(subject, z, n)
    BY <1>5 DEF SpareNames
  <2>1. CASE subject'[z] = subject[z]
    BY <2>1 DEF MadeAs
  <2>2. CASE z = x /\ subject'[x] = made
    BY <2>2 DEF MadeAs
  <2> QED BY <1>11, <2>1, <2>2
<1>17. /\ \A w \in StudyCourses, s \in Pupils :
             enrolled[s][w].status # "none" /\ course[w].status = "active" => course'[w].status = "active"
       /\ \A w \in StudyCourses : course'[w] # course[w] => course[w].status = "absent" \/ ~Elsewhere(p, "course", w)
  BY <1>7, <1>12
<1> HIDE DEF c, found, made
<1> QED BY <1>1, <1>11, <1>12, <1>13, <1>14, <1>15, <1>16, <1>17, SubjectsFit

-----------------------------------------------------------------------------
(* Roadmaps.                                                               *)
LEMMA NamedRests ==
    ASSUME StudiesSound, NEW s \in Pupils, NEW x \in StudyCourses, NEW r \in Roadmaps, enrolled[s][x].roadmap = r
    PROVE  /\ roadmap[r].status = "active" /\ roadmap[r].order[x] > 0
           /\ enrolled[s][x].status = "active" /\ <<s, x>> \notin revived \cup resumed => roadmap[r].open
<1>1. enrolled[s][x].roadmap # NoRoadmap
  BY StudyCommandsAssumption
<1>2. enrolled[s][x].status # "none"
  BY <1>1, EnrollmentsFit DEF StudiesSound, NotEnrolled
<1> QED BY <1>1, <1>2, RestingRows DEF StudiesSound, StudyRowsFit

LEMMA RoadmapChanges ==
    ASSUME StudiesSound, NEW p \in Instances, End(p), UNCHANGED counselVars,
           UNCHANGED <<pupil, subject, course, enrolled, revived, resumed>>,
           NEW r \in Roadmaps, NEW new \in RoadmapRows, roadmap' = [roadmap EXCEPT ![r] = new],
           roadmap[r].status = "absent" \/ ~Elsewhere(p, "roadmap", r),
           OrderIsDense(new.order),
           \A s \in Pupils, x \in StudyCourses : enrolled[s][x].roadmap = r =>
               /\ new.status = "active" /\ new.order[x] > 0
               /\ enrolled[s][x].status = "active" /\ <<s, x>> \notin revived \cup resumed => new.open
    PROVE  StudiesSound'
<1>1. StudyTyped /\ StudyRowsFit
  BY DEF StudiesSound, StudyRowsFit
<1>2. /\ roadmap' \in [Roadmaps -> RoadmapRows] /\ roadmap'[r] = new
      /\ \A q \in Roadmaps \ {r} : roadmap'[q] = roadmap[q]
  BY <1>1 DEF StudyTyped
<1>3. EnrollmentsRestOnWhatExists'
  <2> SUFFICES ASSUME NEW s \in Pupils, NEW x \in StudyCourses, enrolled[s][x].status # "none"
               PROVE  LET e == enrolled[s][x] IN
                      /\ course[x].status = "active" /\ subject[course[x].subject].status = "active"
                      /\ e.roadmap # NoRoadmap =>
                           /\ roadmap'[e.roadmap].status = "active" /\ roadmap'[e.roadmap].order[x] > 0
                           /\ e.status = "active" /\ <<s, x>> \notin revived \cup resumed => roadmap'[e.roadmap].open
    BY DEF EnrollmentsRestOnWhatExists, RowsRest, StudiesSnapshot
  <2>1. course[x].status = "active" /\ subject[course[x].subject].status = "active"
    BY <1>1, RestingRows DEF StudyRowsFit
  <2>2. CASE enrolled[s][x].roadmap = r
    BY <1>2, <2>1, <2>2
  <2>3. CASE enrolled[s][x].roadmap \in Roadmaps \ {r}
    BY <1>2, <2>1, <2>3, NamedRests
  <2>4. CASE enrolled[s][x].roadmap = NoRoadmap
    BY <2>1, <2>4
  <2> QED BY <1>1, <2>2, <2>3, <2>4, EnrollmentsFit
<1>4. RoadmapOrderIsDense'
  BY <1>1, <1>2 DEF StudyRowsFit, RoadmapOrderIsDense
<1>5. StudyTyped' /\ CoursesHaveSubjects' /\ OneSubjectPerName' /\ RemovedStudentsLeave'
  BY <1>1, <1>2 DEF StudyRowsFit, StudyTyped, CoursesHaveSubjects, OneSubjectPerName, RemovedStudentsLeave
<1>6. SparePupils(p) /\ SpareCourses(p) /\ SpareSubjects(p) /\ SpareRoadmaps(p) /\ SpareNames(p)
  BY <1>2 DEF SparePupils, SpareCourses, SpareSubjects, SpareRoadmaps, SpareNames, Touched
<1>7. CardRowsFit' /\ SpareCards(p)
  BY CardRowsStay DEF StudiesSound
<1> QED BY <1>3, <1>4, <1>5, <1>6, <1>7, StudyStep DEF StudyRowsFit, SpareStudies

LEMMA DenseOrder ==
    ASSUME NEW order PROVE OrderIsDense(order) <=> Dense(StudyCourses, order)
BY DEF OrderIsDense, Linked, Dense, Placed

LEMMA CreateRoadmapKeeps ==
    ASSUME StudiesSound, NEW p \in Instances, CreateRoadmap(p), UNCHANGED counselVars
    PROVE  StudiesSound'
<1> DEFINE c == run[p].cmd
           new == [status |-> "active", open |-> TRUE, order |-> c.order]
<1>1. /\ c.op = "createRoadmap" /\ End(p) /\ UNCHANGED <<pupil, subject, course, enrolled, revived, resumed>>
      /\ roadmap[c.r].status = "absent" /\ OrderIsDense(c.order) /\ roadmap' = [roadmap EXCEPT ![c.r] = new]
  BY DEF CreateRoadmap, Running
<1>2. c.r \in Roadmaps /\ c.order \in [StudyCourses -> Nat]
  BY <1>1, StudyCommandHeld, StudyCommandsAssumption DEF StudyOps
<1>3. new \in RoadmapRows /\ OrderIsDense(new.order)
  BY <1>1, <1>2 DEF RoadmapRows, Standing
<1>4. \A s \in Pupils, x \in StudyCourses : enrolled[s][x].roadmap # c.r
  BY <1>1, <1>2, NamedRests
<1>5. \A s \in Pupils, x \in StudyCourses : enrolled[s][x].roadmap = c.r =>
          /\ new.status = "active" /\ new.order[x] > 0
          /\ enrolled[s][x].status = "active" /\ <<s, x>> \notin revived \cup resumed => new.open
  BY <1>4
<1> HIDE DEF new, c
<1> QED BY <1>1, <1>2, <1>3, <1>5, RoadmapChanges

LEMMA RoadmapLocked ==
    ASSUME StudiesSound, NEW p \in Instances, Read(p).roadmap[run[p].cmd.r].status = "active",
           run[p].cmd.op \in {"openRoadmap", "removeRoadmap", "linkCourse", "unlinkCourse", "reorder"}
    PROVE  LET r == run[p].cmd.r IN
           /\ run[p].cmd \in StudyCommands /\ r \in Roadmaps /\ ~Elsewhere(p, "roadmap", r) /\ SeesRoadmap(p, r)
           /\ Read(p).roadmap[r] = roadmap[r] /\ roadmap[r] \in RoadmapRows /\ OrderIsDense(roadmap[r].order)
<1> DEFINE c == run[p].cmd
<1>1. c \in StudyCommands /\ run[p].held = StudyKeys(c) /\ Sees(p)
  BY StudyCommandHeld DEF StudyOps
<1>2. c.r \in Roadmaps
  BY <1>1, StudyCommandsAssumption
<1>3. <<"roadmap", c.r>> \in run[p].held
  BY <1>1 DEF StudyKeys, Lock
<1>4. SeesRoadmap(p, c.r) /\ ~Elsewhere(p, "roadmap", c.r)
  BY <1>1, <1>2, <1>3, NotElsewhere DEF Sees, StudiesSound
<1>5. Read(p).roadmap[c.r] = roadmap[c.r]
  BY <1>4 DEF SeesRoadmap
<1>6. roadmap[c.r] \in RoadmapRows /\ OrderIsDense(roadmap[c.r].order)
  BY <1>2 DEF StudiesSound, StudyRowsFit, StudyTyped, RoadmapOrderIsDense
<1> QED BY <1>1, <1>2, <1>4, <1>5, <1>6

LEMMA OpenRoadmapKeeps ==
    ASSUME StudiesSound, NEW p \in Instances, SetRoadmapOpen(p), UNCHANGED counselVars
    PROVE  StudiesSound'
<1> DEFINE c == run[p].cmd
           r == c.r
           old == roadmap[r]
           new == [old EXCEPT !.open = c.open]
<1>1. /\ c.op = "openRoadmap" /\ End(p) /\ UNCHANGED <<pupil, subject, course, enrolled, revived, resumed>>
      /\ Read(p).roadmap[r].status = "active"
      /\ ~c.open /\ Read(p).roadmap[r].open => EnrolledBy(Read(p), r, StudyCourses, {"active"}) = {}
  BY DEF SetRoadmapOpen, Running
<1>2. /\ c \in StudyCommands /\ r \in Roadmaps /\ ~Elsewhere(p, "roadmap", r) /\ SeesRoadmap(p, r)
      /\ Read(p).roadmap[r] = old /\ old \in RoadmapRows /\ OrderIsDense(old.order)
  BY <1>1, RoadmapLocked
<1>3. c.open \in BOOLEAN
  BY <1>1, <1>2, StudyCommandsAssumption
<1>4. new \in RoadmapRows /\ new.status = old.status /\ new.order = old.order /\ new.open = c.open
  BY <1>2, <1>3 DEF RoadmapRows
<1>5. roadmap' = [roadmap EXCEPT ![r] = new]
  BY <1>2 DEF SetRoadmapOpen, StudiesSound, StudyRowsFit, StudyTyped
<1>6. ASSUME NEW s \in Pupils, NEW x \in StudyCourses, enrolled[s][x].roadmap = r
      PROVE  /\ new.status = "active" /\ new.order[x] > 0
             /\ enrolled[s][x].status = "active" /\ <<s, x>> \notin revived \cup resumed => new.open
  <2>1. /\ old.status = "active" /\ old.order[x] > 0
        /\ enrolled[s][x].status = "active" /\ <<s, x>> \notin revived \cup resumed => old.open
    BY <1>2, <1>6, NamedRests
  <2>2. ASSUME enrolled[s][x].status = "active", <<s, x>> \notin revived \cup resumed PROVE c.open
    <3>1. Read(p).enrolled[s][x].roadmap = r /\ Read(p).enrolled[s][x].status = "active"
      BY <1>2, <1>6, <2>2 DEF SeesRoadmap
    <3>2. <<s, x>> \in EnrolledBy(Read(p), r, StudyCourses, {"active"})
      BY <3>1 DEF EnrolledBy
    <3>3. Read(p).roadmap[r].open
      BY <1>2, <2>1, <2>2
    <3> HIDE DEF c
    <3> QED BY <1>1, <3>2, <3>3
  <2> QED BY <1>4, <2>1, <2>2
<1>7. OrderIsDense(new.order)
  BY <1>2, <1>4
<1> HIDE DEF new, old, r
<1> QED BY <1>1, <1>2, <1>4, <1>5, <1>6, <1>7, RoadmapChanges

LEMMA NobodyNames ==
    ASSUME StudiesSound, NEW p \in Instances, NEW r \in Roadmaps, SeesRoadmap(p, r), NEW courses \in SUBSET StudyCourses,
           EnrolledBy(Read(p), r, courses, EnrollmentStatuses) = {}
    PROVE  \A s \in Pupils, x \in courses : enrolled[s][x].roadmap # r
<1> SUFFICES ASSUME NEW s \in Pupils, NEW x \in courses, enrolled[s][x].roadmap = r
             PROVE  FALSE
  OBVIOUS
<1>1. Read(p).enrolled[s][x].roadmap = r /\ Read(p).enrolled[s][x].status \in EnrollmentStatuses
  BY DEF SeesRoadmap
<1>2. <<s, x>> \in EnrolledBy(Read(p), r, courses, EnrollmentStatuses)
  BY <1>1 DEF EnrolledBy
<1> QED BY <1>2

LEMMA EmptyOrder ==
    ASSUME NEW order, \A x \in StudyCourses : order[x] = 0
    PROVE  OrderIsDense(order)
<1>1. Linked(order) = {}
  BY DEF Linked
<1>2. Cardinality({}) = 0 /\ 1 .. 0 = {}
  BY FS_EmptySet
<1> QED BY <1>1, <1>2 DEF OrderIsDense

LEMMA RemoveRoadmapKeeps ==
    ASSUME StudiesSound, NEW p \in Instances, RemoveRoadmap(p), UNCHANGED counselVars
    PROVE  StudiesSound'
<1> DEFINE c == run[p].cmd
           r == c.r
           order == [x \in StudyCourses |-> IF Read(p).roadmap[r].order[x] > 0 THEN 0 ELSE roadmap[r].order[x]]
           new == [status |-> "removed", open |-> roadmap[r].open, order |-> order]
<1>1. /\ c.op = "removeRoadmap" /\ End(p) /\ UNCHANGED <<pupil, subject, course, enrolled, revived, resumed>>
      /\ Read(p).roadmap[r].status = "active"
      /\ EnrolledBy(Read(p), r, StudyCourses, EnrollmentStatuses) = {}
  BY DEF RemoveRoadmap, Running
<1>2. /\ r \in Roadmaps /\ ~Elsewhere(p, "roadmap", r) /\ SeesRoadmap(p, r)
      /\ Read(p).roadmap[r] = roadmap[r] /\ roadmap[r] \in RoadmapRows
  BY <1>1, RoadmapLocked
<1>3. \A x \in StudyCourses : order[x] = 0
  <2>1. roadmap[r].order \in [StudyCourses -> Nat]
    BY <1>2 DEF RoadmapRows
  <2> QED BY <1>2, <2>1
<1>4. order \in [StudyCourses -> Nat]
  BY <1>3
<1>5. new \in RoadmapRows /\ new.order = order
  BY <1>2, <1>4 DEF RoadmapRows, Standing
<1>6. roadmap' = [roadmap EXCEPT ![r] = new]
  BY <1>2 DEF RemoveRoadmap, StudiesSound, StudyRowsFit, StudyTyped
<1> HIDE DEF new, order, r, c
<1>7. \A s \in Pupils, x \in StudyCourses : enrolled[s][x].roadmap # r
  BY <1>1, <1>2, NobodyNames
<1>8. OrderIsDense(new.order)
  BY <1>3, <1>5, EmptyOrder
<1>9. \A s \in Pupils, x \in StudyCourses : enrolled[s][x].roadmap = r =>
          /\ new.status = "active" /\ new.order[x] > 0
          /\ enrolled[s][x].status = "active" /\ <<s, x>> \notin revived \cup resumed => new.open
  BY <1>7
<1> QED BY <1>1, <1>2, <1>5, <1>6, <1>8, <1>9, RoadmapChanges

LEMMA OrderCounts ==
    ASSUME NEW order
    PROVE  IsFiniteSet(Linked(order)) /\ Cardinality(Linked(order)) \in Nat
<1>1. Linked(order) \in SUBSET StudyCourses
  BY DEF Linked
<1> QED BY <1>1, FS_Subset, FS_CardinalityType, StudyCommandsAssumption

(* A course goes to the end of a dense order.                              *)
LEMMA Appended ==
    ASSUME NEW order \in [StudyCourses -> Nat], OrderIsDense(order), NEW x \in StudyCourses, order[x] = 0,
           NEW last \in Nat, \A y \in StudyCourses : order[y] <= last,
           last # 0 => \E y \in StudyCourses : order[y] = last
    PROVE  OrderIsDense([order EXCEPT ![x] = last + 1])
<1> DEFINE L == Linked(order)
           n == Cardinality(L)
           new == [order EXCEPT ![x] = last + 1]
<1>1. IsFiniteSet(L) /\ n \in Nat
  BY OrderCounts
<1>2. {order[y] : y \in L} = 1 .. n
  BY DEF OrderIsDense
<1>3. last = n
  <2>1. last # 0 => last \in 1 .. n
    <3>1. last # 0 => \E y \in L : order[y] = last
      BY DEF Linked
    <3> HIDE DEF L, n
    <3> QED BY <1>2, <3>1
  <2>2. n # 0 => n <= last
    <3>1. n # 0 => n \in {order[y] : y \in L}
      <4> HIDE DEF L
      <4>1. n # 0 => n \in 1 .. n
        BY <1>1
      <4> QED BY <1>2, <4>1
    <3>2. \A y \in L : order[y] <= last
      BY DEF Linked
    <3> HIDE DEF L, n
    <3> QED BY <3>1, <3>2
  <2> HIDE DEF n
  <2> QED BY <1>1, <2>1, <2>2
<1>4. Linked(new) = L \cup {x} /\ x \notin L
  <2>1. \A y \in StudyCourses : new[y] > 0 <=> (order[y] > 0 \/ y = x)
    OBVIOUS
  <2> HIDE DEF new
  <2> QED BY <2>1 DEF Linked
<1>5. Cardinality(Linked(new)) = n + 1
  BY <1>1, <1>4, FS_AddElement
<1>6. {new[y] : y \in L \cup {x}} = 1 .. n + 1
  <2>1. \A y \in L : new[y] = order[y] /\ new[y] \in 1 .. n
    <3>1. \A y \in L : new[y] = order[y]
      BY <1>4 DEF Linked
    <3>2. \A y \in L : order[y] \in 1 .. n
      <4> HIDE DEF L, n
      <4> QED BY <1>2
    <3> HIDE DEF L, n, new
    <3> QED BY <3>1, <3>2
  <2>2. new[x] = n + 1
    BY <1>3
  <2>3. \A m \in 1 .. n : \E y \in L : new[y] = m
    <3> HIDE DEF L, n, new
    <3> QED BY <1>2, <2>1
  <2> HIDE DEF L, n, new
  <2>4. \A y \in L \cup {x} : new[y] \in 1 .. n + 1
    BY <1>1, <2>1, <2>2
  <2>5. \A m \in 1 .. n + 1 : \E y \in L \cup {x} : new[y] = m
    BY <1>1, <2>2, <2>3
  <2> QED BY <2>4, <2>5
<1> HIDE DEF new, n, L
<1>7. {new[y] : y \in Linked(new)} = 1 .. Cardinality(Linked(new))
  BY <1>4, <1>5, <1>6
<1> QED BY <1>7 DEF OrderIsDense, new

LEMMA LinkCourseKeeps ==
    ASSUME StudiesSound, NEW p \in Instances, LinkCourse(p), UNCHANGED counselVars
    PROVE  StudiesSound'
<1> DEFINE c == run[p].cmd
           r == c.r
           old == roadmap[r]
<1>1. /\ c.op = "linkCourse" /\ End(p) /\ UNCHANGED <<pupil, subject, course, enrolled, revived, resumed>>
      /\ Read(p).roadmap[r].status = "active" /\ roadmap[r].order[c.c] = 0
  BY DEF LinkCourse, Running
<1>2. /\ c \in StudyCommands /\ r \in Roadmaps /\ ~Elsewhere(p, "roadmap", r)
      /\ Read(p).roadmap[r] = old /\ old \in RoadmapRows /\ OrderIsDense(old.order)
  BY <1>1, RoadmapLocked
<1>3. c.c \in StudyCourses /\ old.order \in [StudyCourses -> Nat]
  BY <1>1, <1>2, StudyCommandsAssumption DEF RoadmapRows
<1>4. PICK last \in Nat :
          /\ \A x \in StudyCourses : old.order[x] <= last
          /\ last # 0 => \E x \in StudyCourses : old.order[x] = last
          /\ roadmap' = [roadmap EXCEPT ![r].order[c.c] = last + 1]
  <2>1. Cardinality(StudyCourses) \in Nat
    BY FS_CardinalityType, StudyCommandsAssumption
  <2>2. PICK last \in 0 .. Cardinality(StudyCourses) :
            /\ \A x \in StudyCourses : old.order[x] <= last
            /\ last # 0 => \E x \in StudyCourses : old.order[x] = last
            /\ roadmap' = [roadmap EXCEPT ![r].order[c.c] = last + 1]
    BY <1>2 DEF LinkCourse
  <2>3. last \in Nat
    BY <2>1
  <2> HIDE DEF old, r, c
  <2> QED BY <2>2, <2>3
<1> DEFINE order == [old.order EXCEPT ![c.c] = last + 1]
           new == [old EXCEPT !.order = order]
<1>5. order \in [StudyCourses -> Nat] /\ OrderIsDense(order)
  <2>1. order \in [StudyCourses -> Nat]
    BY <1>3
  <2> HIDE DEF old, c
  <2> QED BY <1>1, <1>2, <1>3, <1>4, <2>1, Appended DEF old
<1>6. new \in RoadmapRows /\ new.status = old.status /\ new.open = old.open /\ new.order = order
  <2> HIDE DEF order, old
  <2> QED BY <1>2, <1>5 DEF RoadmapRows
<1>7. roadmap' = [roadmap EXCEPT ![r] = new]
  BY <1>2, <1>4 DEF StudiesSound, StudyRowsFit, StudyTyped
<1>8. \A s \in Pupils, x \in StudyCourses : enrolled[s][x].roadmap = r =>
          /\ new.status = "active" /\ new.order[x] > 0
          /\ enrolled[s][x].status = "active" /\ <<s, x>> \notin revived \cup resumed => new.open
  <2>1. \A x \in StudyCourses : old.order[x] > 0 => order[x] > 0
    BY <1>3
  <2> HIDE DEF order, new
  <2> QED BY <1>2, <1>6, <2>1, NamedRests
<1>9. OrderIsDense(new.order)
  BY <1>5, <1>6
<1> HIDE DEF new, old, r, order
<1> QED BY <1>1, <1>2, <1>6, <1>7, <1>8, <1>9, RoadmapChanges

LEMMA UnlinkCourseKeeps ==
    ASSUME StudiesSound, NEW p \in Instances, UnlinkCourse(p), UNCHANGED counselVars
    PROVE  StudiesSound'
<1> DEFINE c == run[p].cmd
           r == c.r
           old == roadmap[r]
           f == old.order
           kept == [f EXCEPT ![c.c] = 0]
           order == [x \in StudyCourses |->
                       IF kept[x] > 0 THEN Cardinality({y \in Linked(kept) : kept[y] <= kept[x]})
                       ELSE IF x = c.c THEN 0 ELSE f[x]]
           new == [old EXCEPT !.order = order]
<1>1. /\ c.op = "unlinkCourse" /\ End(p) /\ UNCHANGED <<pupil, subject, course, enrolled, revived, resumed>>
      /\ Read(p).roadmap[r].status = "active"
      /\ EnrolledBy(Read(p), r, {c.c}, EnrollmentStatuses) = {}
  BY DEF UnlinkCourse, Running
<1>2. /\ c \in StudyCommands /\ r \in Roadmaps /\ ~Elsewhere(p, "roadmap", r) /\ SeesRoadmap(p, r)
      /\ Read(p).roadmap[r] = old /\ old \in RoadmapRows /\ OrderIsDense(f)
  BY <1>1, RoadmapLocked
<1>3. c.c \in StudyCourses /\ f \in [StudyCourses -> Nat]
  BY <1>1, <1>2, StudyCommandsAssumption DEF RoadmapRows
<1>4. new.status = old.status /\ new.open = old.open /\ new.order = order
      /\ roadmap' = [roadmap EXCEPT ![r] = new]
  <2>1. roadmap' = [roadmap EXCEPT ![r].order = [x \in StudyCourses |->
                       IF kept[x] > 0 THEN Cardinality({y \in Linked(kept) : kept[y] <= kept[x]})
                       ELSE IF x = c.c THEN 0 ELSE @[x]]]
    BY <1>2 DEF UnlinkCourse
  <2>2. roadmap' = [roadmap EXCEPT ![r] = new]
    BY <1>2, <2>1 DEF StudiesSound, StudyRowsFit, StudyTyped
  <2>3. DOMAIN old = {"status", "open", "order"}
    BY <1>2 DEF RoadmapRows
  <2> HIDE DEF old, order
  <2> QED BY <2>2, <2>3
<1> DEFINE W == Placed(StudyCourses, f) \ {c.c}
<1>5. order[c.c] = 0 /\ \A x \in StudyCourses \ {c.c} : order[x] = IF f[x] > 0 THEN Cardinality(Upto(W, f, x)) ELSE 0
  <2>1. \A x \in StudyCourses : kept[x] = IF x = c.c THEN 0 ELSE f[x]
    BY <1>3
  <2> HIDE DEF kept
  <2>2. Linked(kept) = W
    BY <2>1 DEF Linked, Placed
  <2>3. \A x \in StudyCourses \ {c.c} : {y \in Linked(kept) : kept[y] <= kept[x]} = Upto(W, f, x)
    BY <2>1, <2>2 DEF Upto, Placed
  <2> HIDE DEF f, W, c
  <2>4. order[c.c] = 0
    BY <1>3, <2>1
  <2>5. ASSUME NEW x \in StudyCourses \ {c.c}
        PROVE  order[x] = IF f[x] > 0 THEN Cardinality(Upto(W, f, x)) ELSE 0
    <3>1. f[x] \in Nat /\ kept[x] = f[x]
      BY <1>3, <2>1
    <3>2. order[x] = IF kept[x] > 0 THEN Cardinality({y \in Linked(kept) : kept[y] <= kept[x]}) ELSE f[x]
      OBVIOUS
    <3>3. order[x] = IF kept[x] > 0 THEN Cardinality(Upto(W, f, x)) ELSE f[x]
      BY <2>3, <3>2
    <3> HIDE DEF order
    <3> QED BY <3>1, <3>3
  <2> QED BY <2>4, <2>5
<1>6. order \in [StudyCourses -> Nat]
  <2>1. \A x \in StudyCourses : Cardinality(Upto(W, f, x)) \in Nat
    <3> TAKE x \in StudyCourses
    <3>1. Upto(W, f, x) \in SUBSET StudyCourses
      BY DEF Upto, Placed
    <3> QED BY <3>1, FS_Subset, FS_CardinalityType, StudyCommandsAssumption
  <2>2. \A x \in StudyCourses : order[x] \in Nat
    <3> HIDE DEF order, W, f
    <3> QED BY <1>5, <2>1
  <2>3. DOMAIN order = StudyCourses /\ order = [x \in StudyCourses |-> order[x]]
    OBVIOUS
  <2> HIDE DEF order
  <2> QED BY <2>2, <2>3
<1>7. OrderIsDense(order) /\ Placed(StudyCourses, order) = W
  <2>1. IsFiniteSet(StudyCourses)
    BY StudyCommandsAssumption
  <2> HIDE DEF order, f, c
  <2>2. Dense(StudyCourses, f)
    BY <1>2, DenseOrder
  <2>3. Dense(StudyCourses, order) /\ Placed(StudyCourses, order) = W
    BY <1>3, <1>5, <1>6, <2>1, <2>2, MovedUp
  <2> QED BY <2>3, DenseOrder
<1>8. new \in RoadmapRows
  <2> HIDE DEF order
  <2> QED BY <1>2, <1>6 DEF RoadmapRows
<1>9. \A s \in Pupils : enrolled[s][c.c].roadmap # r
  <2> HIDE DEF r, c
  <2>1. {c.c} \in SUBSET StudyCourses
    BY <1>3
  <2> QED BY <1>1, <1>2, <2>1, NobodyNames
<1>10. ASSUME NEW s \in Pupils, NEW x \in StudyCourses, enrolled[s][x].roadmap = r
       PROVE  /\ new.status = "active" /\ new.order[x] > 0
              /\ enrolled[s][x].status = "active" /\ <<s, x>> \notin revived \cup resumed => new.open
  <2>1. /\ old.status = "active" /\ f[x] > 0
        /\ enrolled[s][x].status = "active" /\ <<s, x>> \notin revived \cup resumed => old.open
    BY <1>2, <1>10, NamedRests
  <2>2. x # c.c
    BY <1>9, <1>10
  <2>3. x \in W
    BY <2>1, <2>2 DEF Placed
  <2>4. order[x] > 0
    <3> HIDE DEF order, W
    <3> QED BY <1>7, <2>3 DEF Placed
  <2> HIDE DEF order, new
  <2> QED BY <1>4, <2>1, <2>4
<1>11. OrderIsDense(new.order)
  BY <1>4, <1>7
<1> HIDE DEF new, old, r, order
<1> QED BY <1>1, <1>2, <1>4, <1>8, <1>10, <1>11, RoadmapChanges

LEMMA ReorderKeeps ==
    ASSUME StudiesSound, NEW p \in Instances, ReorderCourses(p), UNCHANGED counselVars
    PROVE  StudiesSound'
<1> DEFINE c == run[p].cmd
           r == c.r
           old == roadmap[r]
           new == [old EXCEPT !.order = c.order]
<1>1. /\ c.op = "reorder" /\ End(p) /\ UNCHANGED <<pupil, subject, course, enrolled, revived, resumed>>
      /\ Read(p).roadmap[r].status = "active" /\ OrderIsDense(c.order)
  BY DEF ReorderCourses, Running
<1>2. /\ c \in StudyCommands /\ r \in Roadmaps /\ ~Elsewhere(p, "roadmap", r)
      /\ Read(p).roadmap[r] = old /\ old \in RoadmapRows
  BY <1>1, RoadmapLocked
<1>3. c.order \in [StudyCourses -> Nat] /\ old.order \in [StudyCourses -> Nat]
  BY <1>1, <1>2, StudyCommandsAssumption DEF RoadmapRows
<1>4. Linked(old.order) = Linked(c.order)
  BY <1>2 DEF ReorderCourses
<1>5. [x \in StudyCourses |-> IF x \in Linked(c.order) THEN c.order[x] ELSE old.order[x]] = c.order
  <2>1. \A x \in StudyCourses : x \notin Linked(c.order) => c.order[x] = 0 /\ old.order[x] = 0
    BY <1>3, <1>4 DEF Linked
  <2>2. \A x \in StudyCourses : (IF x \in Linked(c.order) THEN c.order[x] ELSE old.order[x]) = c.order[x]
    BY <2>1
  <2> HIDE DEF old, c
  <2> QED BY <1>3, <2>2
<1>6. roadmap' = [roadmap EXCEPT ![r] = new]
  <2>1. roadmap' = [roadmap EXCEPT ![r].order =
                      [x \in StudyCourses |-> IF x \in Linked(c.order) THEN c.order[x] ELSE @[x]]]
    BY DEF ReorderCourses
  <2>2. roadmap \in [Roadmaps -> RoadmapRows]
    BY DEF StudiesSound, StudyRowsFit, StudyTyped
  <2> HIDE DEF c
  <2> QED BY <1>2, <1>5, <2>1, <2>2
<1>7. new \in RoadmapRows /\ new.status = old.status /\ new.open = old.open /\ new.order = c.order
  BY <1>2, <1>3 DEF RoadmapRows
<1>8. \A x \in StudyCourses : old.order[x] > 0 => c.order[x] > 0
  BY <1>4 DEF Linked
<1>9. \A s \in Pupils, x \in StudyCourses : enrolled[s][x].roadmap = r =>
          /\ new.status = "active" /\ new.order[x] > 0
          /\ enrolled[s][x].status = "active" /\ <<s, x>> \notin revived \cup resumed => new.open
  <2> HIDE DEF new
  <2> QED BY <1>2, <1>7, <1>8, NamedRests
<1>10. OrderIsDense(new.order)
  BY <1>1, <1>7
<1> HIDE DEF new, old, r
<1> QED BY <1>1, <1>2, <1>6, <1>7, <1>9, <1>10, RoadmapChanges

-----------------------------------------------------------------------------
(* Cards and their rounds.                                                 *)
CounselOps == {"openCard", "editCard", "convert", "enrollCard", "addRound", "editRound", "dropRound", "removeCard"}

LEMMA CounselCommandHeld ==
    ASSUME StudiesSound, NEW p \in Instances, run[p].cmd.op \in CounselOps
    PROVE  /\ run[p].cmd \in CounselCommands /\ run[p].cmd.f \in Forms /\ HoldsItsKeys(p)
           /\ run[p].cmd.op # "openCard" => ~Elsewhere(p, "counselForm", run[p].cmd.f) /\ SeesCard(p, run[p].cmd.f)
<1> DEFINE c == run[p].cmd
<1>1. c.op # "none" /\ c \notin StudyCommands
  BY StudyCommandsAssumption DEF CounselOps
<1>2. HoldsItsKeys(p) /\ Sees(p)
  BY DEF StudiesSound
<1>3. c \in CounselCommands /\ (c.op # "openCard" => <<"counselForm", c.f>> \in run[p].held)
  BY <1>1, <1>2 DEF HoldsItsKeys
<1>4. c.f \in Forms
  BY <1>3, CounselCommandsAssumption
<1>5. <<"counselForm", c.f>> \in run[p].held => ~Elsewhere(p, "counselForm", c.f)
  BY NotElsewhere DEF StudiesSound
<1> QED BY <1>2, <1>3, <1>4, <1>5 DEF Sees

LEMMA CardLocked ==
    ASSUME StudiesSound, NEW p \in Instances, run[p].cmd.op \in CounselOps \ {"openCard"}, HasCard(p, run[p].cmd.f)
    PROVE  LET f == run[p].cmd.f IN
           /\ run[p].cmd \in CounselCommands /\ f \in Forms /\ ~Elsewhere(p, "counselForm", f)
           /\ Read(p).card[f] = card[f] /\ Read(p).round[f] = round[f]
           /\ card[f] \in CardRows /\ card[f].status \notin {"absent", "removed"}
           /\ round[f] \in [RoundSlots -> RoundRows] /\ RoundsApart(round[f])
<1>1. SeesCard(p, run[p].cmd.f) /\ run[p].cmd.f \in Forms
  BY CounselCommandHeld
<1>2. Read(p).card[run[p].cmd.f] = card[run[p].cmd.f]
  BY <1>1 DEF SeesCard, HasCard
<1> QED BY <1>1, <1>2, CounselCommandHeld DEF SeesCard, HasCard, StudiesSound, CardRowsFit

(* One card changes, and its rounds.                                       *)
CardTyped ==
    /\ card \in [Forms -> CardRows] /\ round \in [Forms -> [RoundSlots -> RoundRows]]
    /\ converted \in [Forms -> Nat] /\ reopened \in [Forms -> Nat]

CardFits(f) ==
    /\ RoundsApart(round[f])
    /\ card[f].status = "absent" => Rounds(round[f]) = {}
    /\ \/ converted[f] <= reopened[f]
       \/ converted[f] = reopened[f] + 1 /\ card[f].status \in {"registered", "removed"}
    /\ card[f].status \notin {"absent", "removed"} /\ f \notin retouched =>
         \A i \in Latest(round[f]) : card[f].next = round[f][i].next

OtherCardsStay(f) ==
    \A g \in Forms \ {f} : /\ card'[g] = card[g] /\ round'[g] = round[g]
                           /\ converted'[g] = converted[g] /\ reopened'[g] = reopened[g]
                           /\ g \in retouched => g \in retouched'

CardOpen(p, f) == ~Elsewhere(p, "counselForm", f) \/ (card[f].status = "absent" /\ round'[f] = round[f])

LEMMA CardByCard == CardRowsFit <=> CardTyped /\ \A f \in Forms : CardFits(f)
BY DEF CardRowsFit, CardTyped, CardFits, ConvertedOnce, CardFollowsLatestRound, Follows

LEMMA CardChanges ==
    ASSUME StudiesSound, NEW p \in Instances, End(p), StudyRowsFit', SpareStudies(p),
           NEW f \in Forms, CardTyped', CardFits(f)', OtherCardsStay(f), CardOpen(p, f)
    PROVE  StudiesSound'
<1>1. CardTyped /\ \A g \in Forms : CardFits(g)
  BY CardByCard DEF StudiesSound
<1>2. ASSUME NEW g \in Forms \ {f} PROVE CardFits(g)'
  <2>1. CardFits(g) /\ card'[g] = card[g] /\ round'[g] = round[g] /\ converted'[g] = converted[g]
        /\ reopened'[g] = reopened[g] /\ (g \in retouched => g \in retouched')
    BY <1>1 DEF OtherCardsStay
  <2> QED BY <2>1 DEF CardFits, RoundsApart, Rounds, Latest
<1>3. \A g \in Forms : CardFits(g)'
  BY <1>2
<1>4. CardRowsFit'
  BY <1>3 DEF CardRowsFit, CardTyped, CardFits, ConvertedOnce, CardFollowsLatestRound, Follows, RoundsApart,
             Rounds, Latest
<1>5. SpareCards(p)
  BY DEF SpareCards, OtherCardsStay, CardOpen
<1> QED BY <1>4, <1>5, StudyStep

LEMMA CardsOnly ==
    ASSUME StudiesSound, NEW p, UNCHANGED studyVars
    PROVE  StudyRowsFit' /\ (p \in Instances => SpareStudies(p))
<1>1. UNCHANGED <<studyRows, revived, resumed>>
  BY DEF studyVars
<1> QED BY <1>1, StudyRowsStay DEF StudiesSound

LEMMA CardNow ==
    ASSUME StudiesSound
    PROVE  CardTyped /\ \A f \in Forms : CardFits(f)
BY CardByCard DEF StudiesSound

LEMMA OpenCardKeeps ==
    ASSUME StudiesSound, NEW p \in Instances, OpenCard(p)
    PROVE  StudiesSound'
<1>1. PICK c : c = run[p].cmd
  OBVIOUS
<1>2. PICK f : f = c.f
  OBVIOUS
<1> DEFINE new == [status |-> "requested", student |-> c.s, next |-> c.next]
<1>3. /\ c.op = "openCard" /\ End(p) /\ UNCHANGED <<studyVars, round, converted, reopened, retouched>>
      /\ card[f].status = "absent" /\ card' = [card EXCEPT ![f] = new]
  BY <1>1, <1>2 DEF OpenCard, Running
<1>4. c \in CounselCommands /\ f \in Forms
  BY <1>1, <1>2, <1>3, CounselCommandHeld DEF CounselOps
<1>5. new \in CardRows /\ new.status = "requested"
  BY <1>3, <1>4, CounselCommandsAssumption DEF CardRows, CounselStatuses
<1>6. CardTyped /\ CardFits(f)
  BY <1>4, CardNow
<1> HIDE DEF new
<1>7. CardTyped' /\ card'[f] = new /\ OtherCardsStay(f)
  BY <1>3, <1>4, <1>5, <1>6 DEF CardTyped, OtherCardsStay
<1>8. Rounds(round[f]) = {}
  BY <1>3, <1>6 DEF CardFits
<1>9. CardFits(f)'
  BY <1>3, <1>5, <1>6, <1>7, <1>8 DEF CardFits, RoundsApart, Rounds, Latest
<1>10. StudyRowsFit' /\ SpareStudies(p) /\ CardOpen(p, f)
  BY <1>3, CardsOnly DEF CardOpen
<1> QED BY <1>3, <1>4, <1>7, <1>9, <1>10, CardChanges

LEMMA EditCardKeeps ==
    ASSUME StudiesSound, NEW p \in Instances, EditCard(p)
    PROVE  StudiesSound'
<1>1. PICK c : c = run[p].cmd
  OBVIOUS
<1>2. PICK f : f = c.f
  OBVIOUS
<1> DEFINE new == [card[f] EXCEPT ![c.what] = c.value]
<1>3. /\ c.op = "editCard" /\ End(p) /\ UNCHANGED <<studyVars, round, converted>> /\ HasCard(p, f)
      /\ card' = [card EXCEPT ![f][c.what] = c.value]
      /\ retouched' = IF c.what = "next" THEN retouched \cup {f} ELSE retouched
      /\ reopened' = IF card[f].status = "registered" /\ card'[f].status # "registered"
                       THEN [reopened EXCEPT ![f] = @ + 1] ELSE reopened
  BY <1>1, <1>2 DEF EditCard, Running
<1>4. /\ c \in CounselCommands /\ f \in Forms /\ ~Elsewhere(p, "counselForm", f)
      /\ card[f] \in CardRows /\ card[f].status \notin {"absent", "removed"}
  BY <1>1, <1>2, <1>3, CardLocked DEF CounselOps
<1>5. /\ new \in CardRows /\ new.status \notin {"absent", "removed"}
      /\ c.what = "status" \/ new.status = card[f].status
      /\ c.what = "next" \/ new.next = card[f].next
  <2>1. CASE c.what = "status" /\ c.value \in CounselStatuses
    <3>1. new = [card[f] EXCEPT !.status = c.value]
      BY <2>1
    <3> HIDE DEF new
    <3> QED BY <1>4, <2>1, <3>1 DEF CardRows, CounselStatuses
  <2>2. CASE c.what = "student" /\ c.value \in Pupils
    <3>1. new = [card[f] EXCEPT !.student = c.value]
      BY <2>2
    <3> HIDE DEF new
    <3> QED BY <1>4, <2>2, <3>1 DEF CardRows
  <2>3. CASE c.what = "next" /\ c.value \in Contacts \cup {Unset}
    <3>1. new = [card[f] EXCEPT !.next = c.value]
      BY <2>3
    <3> HIDE DEF new
    <3> QED BY <1>4, <2>3, <3>1 DEF CardRows
  <2> HIDE DEF new
  <2> QED BY <1>3, <1>4, <2>1, <2>2, <2>3, CounselCommandsAssumption
<1>6. CardTyped /\ CardFits(f)
  BY <1>4, CardNow
<1>7. card' = [card EXCEPT ![f] = new]
  BY <1>3, <1>4, <1>6 DEF CardTyped
<1> HIDE DEF new
<1>8. card' \in [Forms -> CardRows] /\ card'[f] = new /\ \A g \in Forms \ {f} : card'[g] = card[g]
  BY <1>4, <1>5, <1>6, <1>7 DEF CardTyped
<1>9. /\ reopened' \in [Forms -> Nat] /\ \A g \in Forms \ {f} : reopened'[g] = reopened[g]
      /\ IF card[f].status = "registered" /\ new.status # "registered"
           THEN reopened'[f] = reopened[f] + 1 ELSE reopened'[f] = reopened[f]
  <2>1. CASE card[f].status = "registered" /\ new.status # "registered"
    <3>1. reopened' = [reopened EXCEPT ![f] = @ + 1]
      BY <1>3, <1>8, <2>1
    <3> QED BY <1>4, <1>6, <2>1, <3>1 DEF CardTyped
  <2>2. CASE ~(card[f].status = "registered" /\ new.status # "registered")
    <3>1. reopened' = reopened
      BY <1>3, <1>8, <2>2
    <3> QED BY <1>4, <1>6, <2>2, <3>1 DEF CardTyped
  <2> QED BY <2>1, <2>2
<1>10. CardTyped' /\ OtherCardsStay(f)
  <2>1. \A g \in Forms \ {f} : g \in retouched => g \in retouched'
    BY <1>3
  <2>2. round' \in [Forms -> [RoundSlots -> RoundRows]] /\ converted' \in [Forms -> Nat]
    BY <1>3, <1>6 DEF CardTyped
  <2> QED BY <1>3, <1>8, <1>9, <2>1, <2>2 DEF CardTyped, OtherCardsStay
<1>11. CardFits(f)'
  <2>1. RoundsApart(round'[f]) /\ card'[f].status # "absent"
    BY <1>3, <1>5, <1>6, <1>8 DEF CardFits
  <2>2. \/ converted'[f] <= reopened'[f]
        \/ converted'[f] = reopened'[f] + 1 /\ card'[f].status \in {"registered", "removed"}
    <3>1. converted[f] \in Nat /\ reopened[f] \in Nat /\ converted'[f] = converted[f]
      BY <1>3, <1>4, <1>6 DEF CardTyped
    <3>2. \/ converted[f] <= reopened[f]
          \/ converted[f] = reopened[f] + 1 /\ card[f].status \in {"registered", "removed"}
      BY <1>6 DEF CardFits
    <3> QED BY <1>4, <1>8, <1>9, <3>1, <3>2
  <2>3. f \notin retouched' => \A i \in Latest(round'[f]) : card'[f].next = round'[f][i].next
    <3> SUFFICES ASSUME f \notin retouched' PROVE \A i \in Latest(round'[f]) : card'[f].next = round'[f][i].next
      OBVIOUS
    <3>1. c.what # "next" /\ f \notin retouched
      BY <1>3
    <3>2. \A i \in Latest(round[f]) : card[f].next = round[f][i].next
      BY <1>4, <1>6, <3>1 DEF CardFits
    <3> QED BY <1>3, <1>5, <1>8, <3>1, <3>2
  <2> QED BY <2>1, <2>2, <2>3 DEF CardFits, RoundsApart, Rounds, Latest
<1>12. StudyRowsFit' /\ SpareStudies(p) /\ CardOpen(p, f)
  BY <1>3, <1>4, CardsOnly DEF CardOpen
<1> QED BY <1>3, <1>4, <1>10, <1>11, <1>12, CardChanges

LEMMA ConvertKeeps ==
    ASSUME StudiesSound, NEW p \in Instances, Convert(p)
    PROVE  StudiesSound'
<1>1. PICK c : c = run[p].cmd
  OBVIOUS
<1>2. PICK f : f = c.f
  OBVIOUS
<1>3. /\ c.op = "convert" /\ End(p) /\ HasCard(p, f) /\ Convertible(Read(p).card[f].status)
      /\ EnrollAs(Read(p), Read(p).card[f].student, c.c, c.r, f)
      /\ card' = [card EXCEPT ![f].status = "registered"] /\ converted' = [converted EXCEPT ![f] = @ + 1]
      /\ UNCHANGED <<pupil, subject, course, roadmap, revived, resumed, round, reopened, retouched>>
  BY <1>1, <1>2 DEF Convert, Running
<1>4. /\ c \in CounselCommands /\ f \in Forms /\ ~Elsewhere(p, "counselForm", f)
      /\ Read(p).card[f] = card[f] /\ card[f] \in CardRows /\ card[f].status \notin {"absent", "removed"}
  BY <1>1, <1>2, <1>3, CardLocked DEF CounselOps
<1>5. StudyRowsFit' /\ SpareStudies(p) /\ CardOpen(p, f)
  <2>1. HoldsItsKeys(p) /\ c \notin StudyCommands
    BY <1>1, <1>3, CounselCommandHeld, StudyCommandsAssumption DEF CounselOps
  <2>2. EnrollKeys(Read(p).card[f].student, c.c, c.r) \subseteq run[p].held
    BY <1>1, <1>2, <1>3, <2>1 DEF HoldsItsKeys
  <2>3. Read(p).card[f].student \in Pupils
    BY <1>4 DEF CardRows
  <2>4. c.c \in StudyCourses /\ c.r \in Roadmaps \cup {NoRoadmap} /\ f \in Forms \cup {NoForm}
    BY <1>3, <1>4, CounselCommandsAssumption
  <2>5. StudyRowsFit' /\ SpareStudies(p)
    BY <1>3, <2>2, <2>3, <2>4, EnrolledFits
  <2> QED BY <1>4, <2>5 DEF CardOpen
<1>6. CardTyped /\ CardFits(f)
  BY <1>4, CardNow
<1>7. /\ card' \in [Forms -> CardRows] /\ \A g \in Forms \ {f} : card'[g] = card[g]
      /\ card'[f].status = "registered" /\ card'[f].next = card[f].next
  BY <1>3, <1>4, <1>6 DEF CardTyped, CardRows, CounselStatuses
<1>8. /\ converted' \in [Forms -> Nat] /\ \A g \in Forms \ {f} : converted'[g] = converted[g]
      /\ converted'[f] = converted[f] + 1
  BY <1>3, <1>4, <1>6 DEF CardTyped
<1>9. CardTyped' /\ OtherCardsStay(f)
  BY <1>3, <1>6, <1>7, <1>8 DEF CardTyped, OtherCardsStay
<1>10. CardFits(f)'
  <2>1. RoundsApart(round'[f])
    BY <1>3, <1>6 DEF CardFits
  <2>2. converted'[f] <= reopened'[f] \/ converted'[f] = reopened'[f] + 1
    <3>1. converted[f] \in Nat /\ reopened[f] \in Nat
      BY <1>4, <1>6 DEF CardTyped
    <3>2. converted[f] <= reopened[f]
      BY <1>3, <1>4, <1>6 DEF CardFits, Convertible
    <3> QED BY <1>3, <1>8, <3>1, <3>2
  <2>3. f \notin retouched' => \A i \in Latest(round'[f]) : card'[f].next = round'[f][i].next
    BY <1>3, <1>4, <1>6, <1>7 DEF CardFits
  <2> QED BY <1>7, <2>1, <2>2, <2>3 DEF CardFits, RoundsApart, Rounds, Latest
<1> QED BY <1>3, <1>4, <1>5, <1>9, <1>10, CardChanges

LEMMA EnrollCardKeeps ==
    ASSUME StudiesSound, NEW p \in Instances, EnrollWithCard(p)
    PROVE  StudiesSound'
<1> DEFINE c == run[p].cmd
<1>1. /\ c.op = "enrollCard" /\ End(p) /\ EnrollAs(Read(p), c.s, c.c, c.r, c.f)
      /\ UNCHANGED <<pupil, subject, course, roadmap, revived, resumed>> /\ UNCHANGED counselVars
  BY DEF EnrollWithCard, Running
<1>2. c \in CounselCommands /\ c.f \in Forms /\ HoldsItsKeys(p) /\ c \notin StudyCommands
  BY <1>1, CounselCommandHeld, StudyCommandsAssumption DEF CounselOps
<1>3. EnrollKeys(c.s, c.c, c.r) \subseteq run[p].held
  BY <1>1, <1>2 DEF HoldsItsKeys
<1>4. c.s \in Pupils /\ c.c \in StudyCourses /\ c.r \in Roadmaps \cup {NoRoadmap}
  BY <1>1, <1>2, CounselCommandsAssumption
<1> HIDE DEF c
<1>5. StudyRowsFit' /\ SpareStudies(p)
  BY <1>1, <1>2, <1>3, <1>4, EnrolledFits
<1>6. CardRowsFit' /\ SpareCards(p)
  BY <1>1, CardRowsStay DEF StudiesSound
<1> QED BY <1>1, <1>5, <1>6, StudyStep

LEMMA SomeLatest ==
    ASSUME NEW rows \in [RoundSlots -> RoundRows], RoundsApart(rows), Rounds(rows) # {}
    PROVE  Latest(rows) # {}
<1> DEFINE W == Rounds(rows)
           f == [i \in W |-> rows[i].no]
<1>1. W \subseteq RoundSlots /\ IsFiniteSet(W)
  <2>1. W \subseteq RoundSlots
    BY DEF Rounds
  <2> QED BY <2>1, CounselCommandsAssumption, FS_Subset
<1>2. f \in [W -> Nat] /\ \A i \in W : f[i] = rows[i].no /\ rows[i].no \in Nat
  BY DEF Rounds, RoundRows
<1>3. \A i, j \in W : f[i] = f[j] => i = j
  BY <1>2 DEF RoundsApart
<1> HIDE DEF f, W
<1>4. Cardinality(W) \in 1 .. Cardinality(W)
  <2>1. W # {}
    BY DEF W
  <2> QED BY <1>1, <2>1, FS_EmptySet, FS_CardinalityType
<1>5. PICK i \in W : Cardinality(W) = Cardinality(Upto(W, f, i))
  BY <1>1, <1>2, <1>3, <1>4, NumberedAnew
<1>6. Upto(W, f, i) = W
  <2>1. Upto(W, f, i) \in SUBSET W
    BY DEF Upto
  <2> QED BY <1>1, <1>5, <2>1, FS_Subset
<1>7. \A j \in W : rows[j].no <= rows[i].no
  BY <1>2, <1>6 DEF Upto
<1>8. i \in Latest(rows)
  BY <1>7 DEF Latest, W
<1> QED BY <1>8

LEMMA OneLatest ==
    ASSUME NEW rows \in [RoundSlots -> RoundRows], RoundsApart(rows), NEW i \in Latest(rows), NEW j \in Latest(rows)
    PROVE  i = j
<1>1. rows[i].no <= rows[j].no /\ rows[j].no <= rows[i].no /\ i \in Rounds(rows) /\ j \in Rounds(rows)
  BY DEF Latest
<1>2. rows[i].no \in Nat /\ rows[j].no \in Nat
  BY <1>1 DEF Rounds, RoundRows
<1> QED BY <1>1, <1>2 DEF RoundsApart

(* A round later than all others is the latest.                            *)
LEMMA RoundAdded ==
    ASSUME NEW rows \in [RoundSlots -> RoundRows], RoundsApart(rows), NEW i \in RoundSlots, rows[i] = NoRound,
           NEW new \in RoundRows, new.no \in 0 .. 98, \A j \in Rounds(rows) : rows[j].no < new.no,
           NEW more, more = [rows EXCEPT ![i] = new]
    PROVE  more \in [RoundSlots -> RoundRows] /\ RoundsApart(more) /\ Latest(more) = {i} /\ more[i] = new
<1>1. /\ more \in [RoundSlots -> RoundRows] /\ more[i] = new /\ new # NoRound
      /\ \A j \in RoundSlots \ {i} : more[j] = rows[j]
  BY DEF NoRound
<1>2. i \notin Rounds(rows) /\ Rounds(more) = Rounds(rows) \cup {i}
  BY <1>1 DEF Rounds
<1>3. \A j \in Rounds(rows) : more[j].no < more[i].no /\ more[j].no \in Nat /\ more[i].no \in Nat
  BY <1>1, <1>2 DEF Rounds, RoundRows
<1>4. RoundsApart(more)
  BY <1>1, <1>2, <1>3 DEF RoundsApart, Rounds
<1>5. Latest(more) = {i}
  <2>1. i \in Latest(more)
    <3>1. more[i].no <= more[i].no
      BY <1>1
    <3>2. \A j \in Rounds(rows) : more[j].no <= more[i].no
      BY <1>3
    <3> QED BY <1>2, <3>1, <3>2 DEF Latest
  <2>2. ASSUME NEW j \in Rounds(rows), j \in Latest(more) PROVE FALSE
    <3>1. more[i].no <= more[j].no
      BY <1>2, <2>2 DEF Latest
    <3>2. more[j].no < more[i].no /\ more[j].no \in Nat /\ more[i].no \in Nat
      BY <1>3
    <3> QED BY <3>1, <3>2
  <2>3. Latest(more) \subseteq Rounds(more)
    BY DEF Latest
  <2> QED BY <1>2, <2>1, <2>2, <2>3
<1> QED BY <1>1, <1>4, <1>5

EditedRound(rows, i, next) == [rows EXCEPT ![i].next = next]
RoundGone(rows, i) == [rows EXCEPT ![i] = NoRound]

LEMMA RoundEdited ==
    ASSUME NEW rows \in [RoundSlots -> RoundRows], RoundsApart(rows), NEW i \in Rounds(rows),
           NEW next \in Contacts \cup {Unset}
    PROVE  LET more == EditedRound(rows, i, next) IN
           /\ more \in [RoundSlots -> RoundRows] /\ RoundsApart(more) /\ Latest(more) = Latest(rows)
           /\ more[i].next = next /\ \A j \in RoundSlots \ {i} : more[j] = rows[j]
<1> DEFINE more == EditedRound(rows, i, next)
<1>1. rows[i] \in [no : 0 .. 98, next : Contacts \cup {Unset}] /\ i \in RoundSlots
  BY DEF Rounds, RoundRows
<1>2. /\ more[i].next = next /\ more[i].no = rows[i].no /\ more[i] \in [no : 0 .. 98, next : Contacts \cup {Unset}]
      /\ \A j \in RoundSlots \ {i} : more[j] = rows[j]
      /\ DOMAIN more = RoundSlots /\ more = [j \in RoundSlots |-> more[j]]
  BY <1>1 DEF EditedRound
<1> HIDE DEF more
<1>3. more \in [RoundSlots -> RoundRows]
  BY <1>1, <1>2 DEF RoundRows
<1>4. more[i] # NoRound
  BY <1>2 DEF NoRound
<1>5. Rounds(more) = Rounds(rows) /\ \A j \in Rounds(rows) : more[j].no = rows[j].no
  BY <1>1, <1>2, <1>4 DEF Rounds
<1>6. RoundsApart(more) /\ Latest(more) = Latest(rows)
  BY <1>5 DEF RoundsApart, Latest
<1> QED BY <1>2, <1>3, <1>6 DEF more

LEMMA RoundDropped ==
    ASSUME NEW rows \in [RoundSlots -> RoundRows], RoundsApart(rows), NEW i \in Rounds(rows)
    PROVE  LET left == RoundGone(rows, i) IN
           /\ left \in [RoundSlots -> RoundRows] /\ RoundsApart(left) /\ Rounds(left) = Rounds(rows) \ {i}
           /\ \A j \in Rounds(left) : left[j] = rows[j]
           /\ i \notin Latest(rows) => Latest(left) \subseteq Latest(rows)
<1> DEFINE left == RoundGone(rows, i)
<1>1. /\ i \in RoundSlots /\ left \in [RoundSlots -> RoundRows] /\ left[i] = NoRound
      /\ \A j \in RoundSlots \ {i} : left[j] = rows[j]
  BY DEF Rounds, RoundRows, RoundGone
<1> HIDE DEF left
<1>2. Rounds(left) = Rounds(rows) \ {i} /\ \A j \in Rounds(left) : left[j] = rows[j]
  BY <1>1 DEF Rounds
<1>3. RoundsApart(left)
  BY <1>2 DEF RoundsApart
<1>4. ASSUME i \notin Latest(rows), NEW j \in Latest(left) PROVE j \in Latest(rows)
  <2>1. j \in Rounds(rows) /\ \A k \in Rounds(rows) \ {i} : rows[k].no <= rows[j].no
    BY <1>2 DEF Latest
  <2>2. PICK k \in Rounds(rows) : ~(rows[k].no <= rows[i].no)
    BY <1>4 DEF Latest
  <2>3. rows[i].no \in Nat /\ rows[k].no \in Nat /\ rows[j].no \in Nat
    BY <2>1 DEF Rounds, RoundRows
  <2>4. rows[i].no <= rows[j].no
    BY <2>1, <2>2, <2>3
  <2> QED BY <2>1, <2>4 DEF Latest
<1> QED BY <1>1, <1>2, <1>3, <1>4 DEF left

(* removeRound leaves on the card what the latest round that is left says. *)
LEMMA NextAfterFollows ==
    ASSUME NEW f \in Forms, NEW rows \in [RoundSlots -> RoundRows], RoundsApart(rows), NEW i \in Rounds(rows),
           i \in Latest(rows)
    PROVE  /\ NextAfter(f, rows, i) \in Contacts \cup {Unset}
           /\ \A j \in Latest(RoundGone(rows, i)) : NextAfter(f, rows, i) = RoundGone(rows, i)[j].next
<1>1. PICK left : left = RoundGone(rows, i)
  OBVIOUS
<1>2. left \in [RoundSlots -> RoundRows] /\ RoundsApart(left)
  BY <1>1, RoundDropped
<1>3. NextAfter(f, rows, i) = IF Rounds(left) = {} THEN Unset ELSE left[CHOOSE k \in Latest(left) : TRUE].next
  BY <1>1 DEF NextAfter, RoundGone
<1>4. CASE Rounds(left) = {}
  BY <1>1, <1>3, <1>4 DEF Latest
<1>5. CASE Rounds(left) # {}
  <2>1. PICK k : k = CHOOSE z \in Latest(left) : TRUE
    OBVIOUS
  <2>2. k \in Latest(left)
    BY <1>2, <1>5, <2>1, SomeLatest
  <2>3. NextAfter(f, rows, i) = left[k].next
    BY <1>3, <1>5, <2>1
  <2>4. left[k].next \in Contacts \cup {Unset}
    BY <1>2, <2>2 DEF Latest, Rounds, RoundRows
  <2>5. \A j \in Latest(left) : j = k
    BY <1>2, <2>2, OneLatest
  <2> QED BY <1>1, <2>3, <2>4, <2>5
<1> QED BY <1>4, <1>5

LEMMA AddRoundKeeps ==
    ASSUME StudiesSound, NEW p \in Instances, AddRound(p)
    PROVE  StudiesSound'
<1>1. PICK c : c = run[p].cmd
  OBVIOUS
<1>2. PICK f : f = c.f
  OBVIOUS
<1>3. PICK next : next = IF c.given THEN c.next ELSE Read(p).card[f].next
  OBVIOUS
<1>4. /\ c.op = "addRound" /\ End(p) /\ UNCHANGED <<studyVars, converted, reopened>> /\ HasCard(p, f)
      /\ card' = IF c.given THEN [card EXCEPT ![f].next = next] ELSE card
      /\ retouched' = retouched \ {f}
  BY <1>1, <1>2, <1>3 DEF AddRound, Running
<1>5. PICK i \in RoundSlots, n \in 0 .. Cardinality(RoundSlots) :
        /\ round[f][i] = NoRound
        /\ \A j \in Rounds(Read(p).round[f]) : Read(p).round[f][j].no < n
        /\ round' = [round EXCEPT ![f][i] = [no |-> n, next |-> next]]
  BY <1>1, <1>2, <1>3 DEF AddRound
<1>6. /\ c \in CounselCommands /\ f \in Forms /\ ~Elsewhere(p, "counselForm", f)
      /\ Read(p).card[f] = card[f] /\ Read(p).round[f] = round[f]
      /\ card[f] \in CardRows /\ card[f].status \notin {"absent", "removed"}
      /\ round[f] \in [RoundSlots -> RoundRows] /\ RoundsApart(round[f])
  BY <1>1, <1>2, <1>4, CardLocked DEF CounselOps
<1>7. next \in Contacts \cup {Unset} /\ (~c.given => next = card[f].next)
  BY <1>3, <1>4, <1>6, CounselCommandsAssumption DEF CardRows
<1>8. CardTyped /\ CardFits(f)
  BY <1>6, CardNow
<1>9. /\ card' \in [Forms -> CardRows] /\ \A g \in Forms \ {f} : card'[g] = card[g]
      /\ card'[f].status = card[f].status /\ card'[f].next = next
  <2>1. CASE c.given
    <3>1. card' = [card EXCEPT ![f].next = next]
      BY <1>4, <2>1
    <3> QED BY <1>6, <1>7, <1>8, <3>1 DEF CardTyped, CardRows
  <2>2. CASE ~c.given
    BY <1>4, <1>7, <1>8, <2>2 DEF CardTyped
  <2> QED BY <2>1, <2>2
<1> DEFINE new == [no |-> n, next |-> next]
<1>10. new \in RoundRows /\ new.no = n /\ new.no \in 0 .. 98 /\ new.next = next
  <2>1. Cardinality(RoundSlots) \in Nat /\ Cardinality(RoundSlots) < 99
    BY CounselCommandsAssumption, FS_CardinalityType
  <2>2. n \in 0 .. 98
    BY <2>1
  <2> QED BY <1>7, <2>2 DEF RoundRows
<1> HIDE DEF new
<1>11. /\ round' = [round EXCEPT ![f] = [round[f] EXCEPT ![i] = new]]
       /\ \A j \in Rounds(round[f]) : round[f][j].no < new.no
  BY <1>5, <1>6, <1>8, <1>10 DEF CardTyped, new
<1>12. PICK more : more = [round[f] EXCEPT ![i] = new]
  OBVIOUS
<1>13. more \in [RoundSlots -> RoundRows] /\ RoundsApart(more) /\ Latest(more) = {i} /\ more[i] = new
  BY <1>5, <1>6, <1>10, <1>11, <1>12, RoundAdded
<1>14. /\ round' \in [Forms -> [RoundSlots -> RoundRows]] /\ round'[f] = more
       /\ \A g \in Forms \ {f} : round'[g] = round[g]
  BY <1>6, <1>8, <1>11, <1>12, <1>13 DEF CardTyped
<1>15. CardTyped' /\ OtherCardsStay(f)
  BY <1>4, <1>8, <1>9, <1>14 DEF CardTyped, OtherCardsStay
<1>16. CardFits(f)'
  <2>1. RoundsApart(round'[f]) /\ \A k \in Latest(round'[f]) : card'[f].next = round'[f][k].next
    BY <1>9, <1>10, <1>13, <1>14
  <2>2. \/ converted'[f] <= reopened'[f]
        \/ converted'[f] = reopened'[f] + 1 /\ card'[f].status \in {"registered", "removed"}
    BY <1>4, <1>8, <1>9 DEF CardFits
  <2> QED BY <1>6, <1>9, <2>1, <2>2 DEF CardFits, RoundsApart, Rounds, Latest
<1>17. StudyRowsFit' /\ SpareStudies(p) /\ CardOpen(p, f)
  BY <1>4, <1>6, CardsOnly DEF CardOpen
<1> QED BY <1>4, <1>6, <1>15, <1>16, <1>17, CardChanges

LEMMA EditRoundKeeps ==
    ASSUME StudiesSound, NEW p \in Instances, EditRound(p)
    PROVE  StudiesSound'
<1>1. PICK c : c = run[p].cmd
  OBVIOUS
<1>2. PICK f : f = c.f
  OBVIOUS
<1>3. /\ c.op = "editRound" /\ End(p) /\ UNCHANGED <<studyVars, converted, reopened>> /\ HasCard(p, f)
      /\ c.row \in Rounds(Read(p).round[f]) /\ round' = [round EXCEPT ![f][c.row].next = c.next]
      /\ IF c.row \in Latest(round'[f])
           THEN card' = [card EXCEPT ![f].next = c.next] /\ retouched' = retouched \ {f}
           ELSE UNCHANGED <<card, retouched>>
  BY <1>1, <1>2 DEF EditRound, Running
<1>4. /\ c \in CounselCommands /\ f \in Forms /\ ~Elsewhere(p, "counselForm", f) /\ Read(p).round[f] = round[f]
      /\ card[f] \in CardRows /\ card[f].status \notin {"absent", "removed"}
      /\ round[f] \in [RoundSlots -> RoundRows] /\ RoundsApart(round[f])
  BY <1>1, <1>2, <1>3, CardLocked DEF CounselOps
<1>5. c.next \in Contacts \cup {Unset} /\ c.row \in Rounds(round[f])
  BY <1>3, <1>4, CounselCommandsAssumption
<1>6. CardTyped /\ CardFits(f)
  BY <1>4, CardNow
<1>7. PICK more : more = EditedRound(round[f], c.row, c.next)
  OBVIOUS
<1>8. /\ more \in [RoundSlots -> RoundRows] /\ RoundsApart(more) /\ Latest(more) = Latest(round[f])
      /\ more[c.row].next = c.next /\ \A j \in RoundSlots \ {c.row} : more[j] = round[f][j]
  BY <1>4, <1>5, <1>7, RoundEdited
<1>9. /\ round' \in [Forms -> [RoundSlots -> RoundRows]] /\ round'[f] = more
      /\ \A g \in Forms \ {f} : round'[g] = round[g]
  <2>1. round' = [round EXCEPT ![f] = more]
    BY <1>3, <1>4, <1>6, <1>7 DEF CardTyped, EditedRound
  <2> QED BY <1>4, <1>6, <1>8, <2>1 DEF CardTyped
<1>10. /\ card' \in [Forms -> CardRows] /\ \A g \in Forms \ {f} : card'[g] = card[g]
       /\ card'[f].status = card[f].status
       /\ card'[f].next = IF c.row \in Latest(more) THEN c.next ELSE card[f].next
       /\ retouched' = IF c.row \in Latest(more) THEN retouched \ {f} ELSE retouched
  <2>1. CASE c.row \in Latest(more)
    <3>1. card' = [card EXCEPT ![f].next = c.next] /\ retouched' = retouched \ {f}
      BY <1>3, <1>9, <2>1
    <3> QED BY <1>4, <1>5, <1>6, <2>1, <3>1 DEF CardTyped, CardRows
  <2>2. CASE c.row \notin Latest(more)
    <3>1. card' = card /\ retouched' = retouched
      BY <1>3, <1>9, <2>2
    <3> QED BY <1>4, <1>6, <2>2, <3>1 DEF CardTyped
  <2> QED BY <2>1, <2>2
<1>11. CardTyped' /\ OtherCardsStay(f)
  <2>1. \A g \in Forms \ {f} : g \in retouched => g \in retouched'
    BY <1>10
  <2> QED BY <1>3, <1>6, <1>9, <1>10, <2>1 DEF CardTyped, OtherCardsStay
<1>12. f \notin retouched' => \A i \in Latest(more) : card'[f].next = more[i].next
  <2>1. CASE c.row \in Latest(more)
    <3>1. \A i \in Latest(more) : i = c.row
      BY <1>8, <2>1, OneLatest
    <3> QED BY <1>8, <1>10, <2>1, <3>1
  <2>2. CASE c.row \notin Latest(more)
    <3>1. f \notin retouched => \A i \in Latest(round[f]) : card[f].next = round[f][i].next
      BY <1>4, <1>6 DEF CardFits
    <3>2. \A i \in Latest(more) : i \in RoundSlots \ {c.row}
      BY <2>2 DEF Latest, Rounds
    <3> QED BY <1>8, <1>10, <2>2, <3>1, <3>2
  <2> QED BY <2>1, <2>2
<1>13. CardFits(f)'
  <2>1. RoundsApart(round'[f]) /\ (f \notin retouched' => \A i \in Latest(round'[f]) : card'[f].next = round'[f][i].next)
    BY <1>8, <1>9, <1>12
  <2>2. \/ converted'[f] <= reopened'[f]
        \/ converted'[f] = reopened'[f] + 1 /\ card'[f].status \in {"registered", "removed"}
    BY <1>3, <1>6, <1>10 DEF CardFits
  <2> QED BY <1>4, <1>10, <2>1, <2>2 DEF CardFits, RoundsApart, Rounds, Latest
<1>14. StudyRowsFit' /\ SpareStudies(p) /\ CardOpen(p, f)
  BY <1>3, <1>4, CardsOnly DEF CardOpen
<1> QED BY <1>3, <1>4, <1>11, <1>13, <1>14, CardChanges

LEMMA DropRoundKeeps ==
    ASSUME StudiesSound, NEW p \in Instances, DropRound(p)
    PROVE  StudiesSound'
<1>1. PICK c : c = run[p].cmd
  OBVIOUS
<1>2. PICK f : f = c.f
  OBVIOUS
<1>3. PICK next : next = NextAfter(f, Read(p).round[f], c.row)
  OBVIOUS
<1>4. /\ c.op = "dropRound" /\ End(p) /\ UNCHANGED <<studyVars, converted, reopened>> /\ HasCard(p, f)
      /\ c.row \in Rounds(Read(p).round[f]) /\ round' = [round EXCEPT ![f][c.row] = NoRound]
      /\ card' = [card EXCEPT ![f].next = next]
      /\ retouched' = IF c.row \in Latest(Read(p).round[f]) THEN retouched \ {f} ELSE retouched
  BY <1>1, <1>2, <1>3 DEF DropRound, Running, NextOfCard
<1>5. /\ f \in Forms /\ ~Elsewhere(p, "counselForm", f) /\ Read(p).round[f] = round[f]
      /\ card[f] \in CardRows /\ card[f].status \notin {"absent", "removed"}
      /\ round[f] \in [RoundSlots -> RoundRows] /\ RoundsApart(round[f])
  BY <1>1, <1>2, <1>4, CardLocked DEF CounselOps
<1>6. CardTyped /\ CardFits(f)
  BY <1>5, CardNow
<1>7. PICK left : left = RoundGone(round[f], c.row)
  OBVIOUS
<1>8. /\ left \in [RoundSlots -> RoundRows] /\ RoundsApart(left)
      /\ \A j \in Rounds(left) : left[j] = round[f][j]
      /\ c.row \notin Latest(round[f]) => Latest(left) \subseteq Latest(round[f])
  BY <1>4, <1>5, <1>7, RoundDropped
<1>9. /\ next \in Contacts \cup {Unset}
      /\ IF c.row \in Latest(round[f]) THEN \A j \in Latest(left) : next = left[j].next ELSE next = card[f].next
  <2>1. CASE c.row \in Latest(round[f])
    <3>1. c.row \in Rounds(round[f]) /\ next = NextAfter(f, round[f], c.row)
      BY <1>3, <1>4, <1>5
    <3> QED BY <1>5, <1>7, <2>1, <3>1, NextAfterFollows
  <2>2. CASE c.row \notin Latest(round[f])
    BY <1>3, <1>5, <2>2 DEF NextAfter, CardRows
  <2> QED BY <2>1, <2>2
<1>10. /\ round' \in [Forms -> [RoundSlots -> RoundRows]] /\ round'[f] = left
       /\ \A g \in Forms \ {f} : round'[g] = round[g]
  BY <1>4, <1>5, <1>6, <1>7, <1>8 DEF CardTyped, RoundGone
<1>11. /\ card' \in [Forms -> CardRows] /\ \A g \in Forms \ {f} : card'[g] = card[g]
       /\ card'[f].status = card[f].status /\ card'[f].next = next
  BY <1>4, <1>5, <1>6, <1>9 DEF CardTyped, CardRows
<1>12. CardTyped' /\ OtherCardsStay(f)
  <2>1. \A g \in Forms \ {f} : g \in retouched => g \in retouched'
    BY <1>4
  <2> QED BY <1>4, <1>6, <1>10, <1>11, <2>1 DEF CardTyped, OtherCardsStay
<1>13. f \notin retouched' => \A i \in Latest(left) : card'[f].next = left[i].next
  <2>1. CASE c.row \in Latest(round[f])
    BY <1>9, <1>11, <2>1
  <2>2. CASE c.row \notin Latest(round[f])
    <3>1. f \notin retouched => \A i \in Latest(round[f]) : card[f].next = round[f][i].next
      BY <1>5, <1>6 DEF CardFits
    <3>2. \A i \in Latest(left) : left[i] = round[f][i] /\ i \in Latest(round[f])
      BY <1>8, <2>2 DEF Latest
    <3> QED BY <1>4, <1>5, <1>9, <1>11, <2>2, <3>1, <3>2
  <2> QED BY <2>1, <2>2
<1>14. CardFits(f)'
  <2>1. RoundsApart(round'[f]) /\ (f \notin retouched' => \A i \in Latest(round'[f]) : card'[f].next = round'[f][i].next)
    BY <1>8, <1>10, <1>13
  <2>2. \/ converted'[f] <= reopened'[f]
        \/ converted'[f] = reopened'[f] + 1 /\ card'[f].status \in {"registered", "removed"}
    BY <1>4, <1>6, <1>11 DEF CardFits
  <2> QED BY <1>5, <1>11, <2>1, <2>2 DEF CardFits, RoundsApart, Rounds, Latest
<1>15. StudyRowsFit' /\ SpareStudies(p) /\ CardOpen(p, f)
  BY <1>4, <1>5, CardsOnly DEF CardOpen
<1> QED BY <1>4, <1>5, <1>12, <1>14, <1>15, CardChanges

LEMMA RemoveCardKeeps ==
    ASSUME StudiesSound, NEW p \in Instances, RemoveCard(p)
    PROVE  StudiesSound'
<1>1. PICK c : c = run[p].cmd
  OBVIOUS
<1>2. PICK f : f = c.f
  OBVIOUS
<1>3. /\ c.op = "removeCard" /\ End(p) /\ UNCHANGED <<studyVars, converted, reopened, retouched>> /\ HasCard(p, f)
      /\ card' = [card EXCEPT ![f].status = "removed"]
      /\ round' = [round EXCEPT ![f] = [i \in RoundSlots |->
                     IF i \in Rounds(Read(p).round[f]) THEN NoRound ELSE round[f][i]]]
  BY <1>1, <1>2 DEF RemoveCard, Running
<1>4. f \in Forms /\ ~Elsewhere(p, "counselForm", f) /\ Read(p).round[f] = round[f]
  BY <1>1, <1>2, <1>3, CardLocked DEF CounselOps
<1>5. CardTyped /\ CardFits(f)
  BY <1>4, CardNow
<1>6. PICK none : none = [i \in RoundSlots |-> IF i \in Rounds(round[f]) THEN NoRound ELSE round[f][i]]
  OBVIOUS
<1>7. \A i \in RoundSlots : none[i] = NoRound
  BY <1>6 DEF Rounds
<1>8. none \in [RoundSlots -> RoundRows] /\ Rounds(none) = {} /\ RoundsApart(none)
  BY <1>6, <1>7 DEF Rounds, RoundRows, RoundsApart
<1>9. /\ round' \in [Forms -> [RoundSlots -> RoundRows]] /\ round'[f] = none
      /\ \A g \in Forms \ {f} : round'[g] = round[g]
  <2>1. round' = [round EXCEPT ![f] = none]
    BY <1>3, <1>4, <1>6
  <2> QED BY <1>4, <1>5, <1>8, <2>1 DEF CardTyped
<1>10. /\ card' \in [Forms -> CardRows] /\ \A g \in Forms \ {f} : card'[g] = card[g]
       /\ card'[f].status = "removed"
  BY <1>3, <1>4, <1>5 DEF CardTyped, CardRows
<1>11. CardTyped' /\ OtherCardsStay(f)
  BY <1>3, <1>5, <1>9, <1>10 DEF CardTyped, OtherCardsStay
<1>12. CardFits(f)'
  <2>1. \/ converted'[f] <= reopened'[f]
        \/ converted'[f] = reopened'[f] + 1
    BY <1>3, <1>5 DEF CardFits
  <2> QED BY <1>8, <1>9, <1>10, <2>1 DEF CardFits, RoundsApart, Rounds, Latest
<1>13. StudyRowsFit' /\ SpareStudies(p) /\ CardOpen(p, f)
  BY <1>3, <1>4, CardsOnly DEF CardOpen
<1> QED BY <1>3, <1>4, <1>11, <1>12, <1>13, CardChanges

LEMMA StudiesInitSound == NothingRuns /\ StudiesInit /\ CounselInit => StudiesSound
<1> SUFFICES ASSUME NothingRuns, StudiesInit, CounselInit PROVE StudiesSound
  OBVIOUS
<1>1. \A p \in Instances : run[p] = Idle
  BY DEF NothingRuns
<1>2. DOMAIN run = Instances /\ LocksExclude /\ \A p \in Instances : HoldsItsKeys(p) /\ Sees(p)
  BY <1>1 DEF NothingRuns, LocksExclude, HoldsItsKeys, Sees, Idle, NoCommand
<1>3. StudyRowsFit
  <2>1. PICK seed \in StudySeeds :
          /\ pupil = seed.pupil /\ subject = seed.subject /\ course = seed.course
          /\ roadmap = seed.roadmap /\ enrolled = seed.enrolled
    BY DEF StudiesInit
  <2>2. revived = {} /\ resumed = {}
    BY DEF StudiesInit
  <2>3. subject \in [Subjects -> SubjectRows]
    <3> DEFINE names == {seed.subject[x].name : x \in Subjects}
    <3>1. seed.subject \in [Subjects -> [status : {"absent", "active", "removed"}, auto : BOOLEAN, name : names]]
      BY <2>1, StudySeedsAssumption
    <3>2. names \subseteq SubjectNames
      BY <2>1 DEF SubjectNames
    <3> HIDE DEF names
    <3> QED BY <2>1, <3>1, <3>2 DEF SubjectRows, Standing
  <2>4. pupil \in [Pupils -> {"visible", "hidden", "removed"}] /\ course \in [StudyCourses -> CourseRows]
    BY <2>1, StudySeedsAssumption DEF CourseRows, Standing
  <2>5. roadmap \in [Roadmaps -> RoadmapRows]
    BY <2>1, StudySeedsAssumption DEF RoadmapRows, Standing
  <2>6. enrolled \in [Pupils -> [StudyCourses -> EnrollmentRows]]
    <3> DEFINE rows == [status : EnrollmentStatuses, form : {NoForm}, roadmap : Roadmaps \cup {NoRoadmap}]
                         \cup {NotEnrolled}
    <3>1. enrolled \in [Pupils -> [StudyCourses -> rows]]
      BY <2>1, StudySeedsAssumption
    <3>2. rows \subseteq EnrollmentRows
      BY DEF EnrollmentRows
    <3> HIDE DEF rows
    <3> QED BY <3>1, <3>2
  <2>7. CoursesHaveSubjects /\ RemovedStudentsLeave
    BY <2>1, StudySeedsAssumption DEF CoursesHaveSubjects, RemovedStudentsLeave
  <2>8. RoadmapOrderIsDense
    BY <2>1, StudySeedsAssumption DEF RoadmapOrderIsDense
  <2>9. OneSubjectPerName
    BY <2>1, StudySeedsAssumption DEF OneSubjectPerName
  <2>10. EnrollmentsRestOnWhatExists
    <3>1. RowsRest(seed, {})
      BY <2>1, StudySeedsAssumption
    <3> QED BY <2>1, <2>2, <3>1 DEF EnrollmentsRestOnWhatExists, RowsRest, StudiesSnapshot
  <2> QED BY <2>3, <2>4, <2>5, <2>6, <2>7, <2>8, <2>9, <2>10 DEF StudyRowsFit, StudyTyped
<1>4. CardRowsFit
  <2>1. PICK seed \in CardSeeds : card = seed.card /\ round = seed.round
    BY DEF CounselInit
  <2>2. converted = [f \in Forms |-> 0] /\ reopened = [f \in Forms |-> 0] /\ retouched = {}
    BY DEF CounselInit
  <2>3. card \in [Forms -> CardRows] /\ round \in [Forms -> [RoundSlots -> RoundRows]]
    BY <2>1, CardSeedsAssumption DEF CardRows, RoundRows
  <2>4. \A f \in Forms : RoundsApart(round[f]) /\ (card[f].status = "absent" => Rounds(round[f]) = {})
    <3>1. \A f \in Forms : /\ seed.card[f].status = "absent" => Rounds(seed.round[f]) = {}
                           /\ \A i, j \in Rounds(seed.round[f]) :
                                seed.round[f][i].no = seed.round[f][j].no => i = j
      <4>1. seed \in CardSeeds
        BY <2>1
      <4> QED BY <4>1, CardSeedsAssumption, Zenon
    <3> QED BY <2>1, <3>1 DEF RoundsApart, Rounds
  <2>5. CardFollowsLatestRound
    BY <2>1, <2>2, CardSeedsAssumption DEF CardFollowsLatestRound
  <2>6. ConvertedOnce
    BY <2>2 DEF ConvertedOnce
  <2> QED BY <2>2, <2>3, <2>4, <2>5, <2>6 DEF CardRowsFit
<1> QED BY <1>2, <1>3, <1>4 DEF StudiesSound

LEMMA StudiesNextKeeps ==
    ASSUME StudiesSound, StudiesNext, UNCHANGED counselVars
    PROVE  StudiesSound'
<1>1. ASSUME NEW p \in Instances, RefuseStudyCommand(p) PROVE StudiesSound'
  BY <1>1, RefusedKeeps DEF RefuseStudyCommand
<1>2. ASSUME NEW p \in Instances, BeginStudyCommand(p) PROVE StudiesSound'
  BY <1>2, BeginStudyKeeps
<1>3. ASSUME NEW p \in Instances,
             Enroll(p) \/ EnsureActive(p) \/ EditEnrollment(p) \/ EditStudent(p) \/ RemovePupil(p)
      PROVE  StudiesSound'
  BY <1>3, EnrollKeeps, EnsureKeeps, EditEnrollmentKeeps, EditStudentKeeps, RemovePupilKeeps
<1>4. ASSUME NEW p \in Instances,
             CreateCourse(p) \/ ResolveSubject(p) \/ MoveCourse(p) \/ RemoveCourse(p)
             \/ RenameSubject(p) \/ RemoveSubject(p)
      PROVE  StudiesSound'
  BY <1>4, CourseKeeps, ResolveKeeps, RenameSubjectKeeps, RemoveSubjectKeeps
<1>5. ASSUME NEW p \in Instances,
             \/ CreateRoadmap(p) \/ SetRoadmapOpen(p) \/ RemoveRoadmap(p)
             \/ LinkCourse(p) \/ UnlinkCourse(p) \/ ReorderCourses(p)
      PROVE  StudiesSound'
  BY <1>5, CreateRoadmapKeeps, OpenRoadmapKeeps, RemoveRoadmapKeeps, LinkCourseKeeps, UnlinkCourseKeeps, ReorderKeeps
<1> QED BY <1>1, <1>2, <1>3, <1>4, <1>5 DEF StudiesNext

LEMMA CounselNextKeeps ==
    ASSUME StudiesSound, CounselNext
    PROVE  StudiesSound'
<1>1. ASSUME NEW p \in Instances, RefuseCounselCommand(p) PROVE StudiesSound'
  BY <1>1, RefusedKeeps DEF RefuseCounselCommand
<1>2. ASSUME NEW p \in Instances, BeginCounselCommand(p) PROVE StudiesSound'
  BY <1>2, BeginCounselKeeps
<1>3. ASSUME NEW p \in Instances, OpenCard(p) \/ EditCard(p) \/ Convert(p) \/ EnrollWithCard(p)
      PROVE  StudiesSound'
  BY <1>3, OpenCardKeeps, EditCardKeeps, ConvertKeeps, EnrollCardKeeps
<1>4. ASSUME NEW p \in Instances, AddRound(p) \/ EditRound(p) \/ DropRound(p) \/ RemoveCard(p)
      PROVE  StudiesSound'
  BY <1>4, AddRoundKeeps, EditRoundKeeps, DropRoundKeeps, RemoveCardKeeps
<1> QED BY <1>1, <1>2, <1>3, <1>4 DEF CounselNext
=============================================================================
