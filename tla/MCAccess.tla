------------------------------ MODULE MCAccess ------------------------------
(* A representative, an admin on a temporary password and an old sign-up   *)
(* whose address was never verified; one course.                           *)
EXTENDS Access

CONSTANTS i1, i2, boss, amy, tom, art, r1, r2

MCSymmetry == Permutations({i1, i2}) \cup Permutations({r1, r2})

SeedRow(status, role, verified) ==
    [NoAccount EXCEPT !.status = status, !.role = role, !.version = 1, !.verified = verified,
                      !.link = ~verified]

MCSeed == [u \in Staff |->
              CASE u = boss -> SeedRow("active", "super_admin", TRUE)
                [] u = amy  -> [SeedRow("active", "admin", TRUE) EXCEPT !.mustChange = TRUE]
                [] u = tom  -> SeedRow("pending", "instructor", FALSE)]

Order(op, u, by) == [op |-> op, id |-> u, by |-> by]

MCRequested ==
    {Order(op, tom, amy) : op \in {"verify", "resend", "approve", "reject", "discard"}}
    \cup {Order(op, u, boss) : op \in {"terminate", "restore"}, u \in {amy, tom}}
    \cup {Order(op, amy, amy) : op \in {"credentials", "forget", "resetByCode", "renameLogin"}}
    \cup {Order("resetByLink", amy, amy) @@ [link |-> 1]}
    \cup {Order("edit", u, boss) @@ [what |-> w, keep |-> k] :
            u \in {amy, tom}, w \in {"instructor", "manager", "email"}, k \in BOOLEAN}
    \cup {Order("edit", tom, boss) @@ [what |-> "name", keep |-> FALSE]}
    \cup {Order("teach", amy, boss) @@ [grant |-> g] : g \in BOOLEAN}
    \cup {Order("updateInstructor", tom, boss) @@ [what |-> w] : w \in {"email", "name"}}
    \cup {Order("removeInstructor", tom, boss)}
    \cup {Order("permit", tom, amy) @@ [mode |-> m, version |-> 2] : m \in {"none", "deny"}}
    \cup {Order(op, u, boss) @@ [course |-> art] : op \in {"staffCourse", "closeCourse"}, u \in {amy, tom}}
    \cup {Order(op, tom, boss) : op \in {"contract", "endContract"}}
    \cup {Order(op, tom, boss) @@ [role |-> "instructor"] : op \in {"signup", "provision"}}

MCProfileCommands ==
    [op : {"create"}, family : {"signup", "profile"}]
    \cup [op : {"confirm"}, id : Challenges, right : BOOLEAN]
    \cup [op : {"resend"}, id : Challenges]
    \cup [op : {"signUp"}, id : Challenges, purpose : {"s1", "s2"}]
    \cup [op : {"changePassword"}, id : Challenges, purpose : {"pw1"}]
    \cup [op : {"ask"}, id : Challenges, request : ProfileRequestIds, value : {1, 2}]
    \cup [op : {"ask"}, id : {NoProof}, request : {"p2"}, value : {1, 2}]
    \cup [op : {"approve", "reject", "withdraw"}, request : ProfileRequestIds]
    \cup [op : {"editProfile"}, value : {2}]
=============================================================================
