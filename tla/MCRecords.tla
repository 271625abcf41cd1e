----------------------------- MODULE MCRecords -----------------------------
(* Two instances of the backend.  Families: two siblings, a guardian, and  *)
(* two intakes with the same guardian.  Studies: a course on a roadmap, a  *)
(* card.  Staff: one teacher.  A table of two rows.  An invoice, an        *)
(* expense.  Two operators: every script alone, and the groups of scripts *)
(* whose SQL meets in some object.                                         *)
EXTENDS Records

CONSTANTS i1, i2, amy, bob, kid, zoe, mum, dad, pop, art, mus, r1, r2, d1

MCSymmetry == Permutations({i1, i2})

At(a, m) == (art :> a @@ mus :> m)
Period(a, b) == [from |-> a, to |-> b]

MCFamilySeeds ==
    {[student  |-> (amy :> "active" @@ bob :> "active" @@ kid :> "absent" @@ zoe :> "absent"),
      parent   |-> (mum :> [status |-> "active", key |-> "mum", how |-> "direct"]
                    @@ dad :> NoParent @@ pop :> NoParent),
      guardian |-> [s \in Students |-> [g \in Parents |-> IF s = amy /\ g = mum THEN "primary" ELSE "none"]],
      kin      |-> {},
      past     |-> [s \in Students |-> [i \in Slots |-> IF s = amy /\ i = 1 THEN Period(1, Forever) ELSE NoPeriod]],
      wish     |-> [s \in Students |-> IF s = amy THEN At(1, 0) ELSE At(0, 0)]]}

Intake(s, k, related) ==
    [op |-> "register", s |-> s, key |-> k, kin |-> related, wishes |-> At(1, 0), shared |-> related # {}]

MCFamilyCommands ==
    {Intake(kid, k, related) : k \in {"blank", "dad", "none"}, related \in {{}, {amy}}}
    \cup {Intake(zoe, "dad", {})}
    \cup {[op |-> "link", s |-> bob, g |-> mum, primary |-> b] : b \in BOOLEAN}
    \cup {[op |-> "newParent", s |-> amy, g |-> dad, key |-> "dad", primary |-> TRUE]}
    \cup {[op |-> o, s |-> s, g |-> mum] : o \in {"makePrimary", "unlink", "removeGuardian"}, s \in {amy, bob}}
    \cup {[op |-> "removeParent", g |-> mum], [op |-> "editParent", g |-> mum, key |-> "dad"]}
    \cup {[op |-> "relate", kin |-> {amy, bob}, shared |-> TRUE], [op |-> "part", kin |-> {amy, bob}]}
    \cup {[op |-> "addPast", s |-> amy, period |-> Period(a, 3)] : a \in {2, 3}}
    \cup {[op |-> "editPast", s |-> amy, row |-> 1, period |-> Period(1, 2)],
          [op |-> "dropPast", s |-> amy, row |-> 1], [op |-> "newGrade", s |-> amy]}
    \cup {[op |-> "setWishes", s |-> amy, wishes |-> At(2, 1)]}
    \cup {[op |-> "addWish", s |-> amy, t |-> mus, rank |-> n] : n \in {1, 2}}
    \cup {[op |-> "dropWish", s |-> amy, t |-> t] : t \in Targets}
    \cup {[op |-> "removeStudent", s |-> s] : s \in {amy, bob}}

-----------------------------------------------------------------------------
SubjectRow(status, name) == [status |-> status, name |-> name, auto |-> status = "active"]

MCStudySeeds ==
    {[pupil    |-> (amy :> "visible" @@ bob :> "visible"),
      subject  |-> ("arts" :> SubjectRow("active", "arts") @@ "music" :> SubjectRow("active", "music")
                    @@ "new" :> SubjectRow("absent", "") @@ "newer" :> SubjectRow("absent", "")),
      course   |-> (art :> [status |-> "active", subject |-> "arts"] @@ mus :> [status |-> "active", subject |-> "music"]
                    @@ "third" :> [status |-> "absent", subject |-> "arts"]),
      roadmap  |-> (r1 :> [status |-> "active", open |-> TRUE, order |-> At(1, 0) @@ "third" :> 0]
                    @@ r2 :> [status |-> "absent", open |-> FALSE, order |-> At(0, 0) @@ "third" :> 0]),
      enrolled |-> [s \in Pupils |-> [x \in StudyCourses |->
                      IF s = bob /\ x = did.c THEN [NotEnrolled EXCEPT !.status = "completed", !.roadmap = did.r] ELSE NotEnrolled]]]
     : did \in {[c |-> mus, r |-> NoRoadmap], [c |-> art, r |-> r1]}}

MCStudyCommands ==
    [op : {"enroll"}, s : {amy}, c : {art}, r : {r1, NoRoadmap}]
    \cup [op : {"ensureActive"}, c : {art, mus}, pupils : {{amy, bob}}]
    \cup [op : {"editEnrollment"}, s : {amy}, c : {art}, status : {"active", "canceled"}]
    \cup [op : {"editEnrollment"}, s : {bob}, c : {mus}, status : {"active"}]
    \cup [op : {"editStudent"}, s : {amy}, status : {"hidden"}]
    \cup [op : {"removeStudent"}, s : {amy, bob}]
    \cup [op : {"removeCourse"}, c : {art, mus}]
    \cup [op : {"createCourse"}, c : {"third"}, subject : {"music"}]
    \cup [op : {"moveCourse"}, c : {art}, subject : {"music"}]
    \cup [op : {"resolve"}, name : {"new", "arts"}]
    \cup [op : {"removeSubject"}, subject : {"arts", "music"}]
    \cup {[op |-> "renameSubject", subject |-> "arts", name |-> "new"],
          [op |-> "renameSubject", subject |-> "new", name |-> "music"]}
    \cup [op : {"createRoadmap"}, r : {r2}, order : {At(2, 1) @@ "third" :> 0}]
    \cup [op : {"openRoadmap"}, r : {r1}, open : BOOLEAN]
    \cup [op : {"removeRoadmap"}, r : {r1}]
    \cup [op : {"linkCourse"}, r : {r1}, c : {mus, "third"}]
    \cup [op : {"unlinkCourse"}, r : {r1}, c : {art, mus}]
    \cup [op : {"reorder"}, r : {r1}, order : {At(2, 1) @@ "third" :> 0}]

MCCardSeeds ==
    {[card  |-> ("first" :> [status |-> "pending", student |-> amy, next |-> Unset]
                 @@ "second" :> [status |-> "absent", student |-> amy, next |-> Unset]),
      round |-> [f \in Forms |-> [i \in RoundSlots |->
                    IF f = "first" /\ i = 1 THEN [no |-> 0, next |-> Unset] ELSE NoRound]]]}

Edit(what, value) == [op |-> "editCard", f |-> "first", what |-> what, value |-> value]

MCCounselCommands ==
    [op : {"openCard"}, f : {"second"}, s : {amy}, next : {Unset}]
    \cup {Edit("status", v) : v \in {"pending", "dropped", "registered"}}
    \cup {Edit("next", 2), Edit("student", bob)}
    \cup [op : {"convert"}, f : {"first"}, c : {art, mus}, r : {NoRoadmap, r1}]
    \cup [op : {"enrollCard"}, f : {"first"}, s : {amy}, c : {art}, r : {NoRoadmap}]
    \cup [op : {"addRound"}, f : {"first"}, given : BOOLEAN, next : {1}]
    \cup [op : {"editRound"}, f : {"first"}, row : {1, 2}, next : {2}]
    \cup [op : {"dropRound"}, f : {"first"}, row : {1, 2}]
    \cup [op : {"removeCard"}, f : {"first"}]

-----------------------------------------------------------------------------
MCStaffCommands ==
    [op : {"contract"}, t : Teachers, period : {Period(1, Open), Period(2, 3)}]
    \cup [op : {"amend"}, t : Teachers, row : {1}, period : {Period(1, 1), Period(1, Open)}, active : BOOLEAN]
    \cup [op : {"attend"}, t : Teachers, status : {"present", "absent"}]
    \cup [op : {"unattend", "dismiss"}, t : Teachers]

-----------------------------------------------------------------------------
MCMeeting ==
    <<<<migrate_schedule_request_batch, migrate_schedule_request_batch_strict>>,
      <<migrate_schedule_request_integrity, migrate_schedule_request_integrity_v2,
        migrate_schedule_request_attendance_correction>>,
      <<migrate_user_capability_overrides, migrate_session_attendance_capability>>,
      <<migrate_counsel_persistence, migrate_counsel_student_ssot_contract>>,
      <<migrate_staff_pay_calendar, migrate_student_required_contract>>,
      <<migrate_profile_verification_challenges, migrate_webid_approval>>,
      <<prepare_staff_english_name, migrate_staff_english_name>>,
      <<migrate_payments_money_constraints, migrate_transaction_source_integrity>>,
      <<migrate_report_template_owner, migrate_report_template_scope>>,
      <<migrate_enrollment_payout_integrity, migrate_schedule_request_integrity_v2>>,
      <<migrate_auth_event_domain, migrate_schema_shape_integrity>>>>

(* All scripts together are there for ScriptsAssumption, which looks at    *)
(* one unit at a time; their interleavings are too many to run.            *)
OneByOneAndTogether(scripts) == [k \in DOMAIN scripts |-> <<scripts[k]>>] \o <<scripts>>
MCCampaigns == MCMeeting \o OneByOneAndTogether(Scripts)

FewScripts == campaign # Len(MCCampaigns)
=============================================================================
