----------------------------- MODULE Accounts -----------------------------
(***************************************************************************)
(* Staff accounts from sign-up to termination: who may do what, and how    *)
(* that changes (users.service.ts, signup-approval.service.ts,             *)
(* user-role-transition.service.ts, instructor-hr.service.ts,              *)
(* access-control.service.ts), with the courses and contracts that refer   *)
(* to a teaching account.                                                  *)
(*                                                                         *)
(* A command validates the rows it read under its locks and writes the     *)
(* rows as they are when it writes, the version computed from what it      *)
(* read.  Names, contact data and their uniqueness (UNIQUE columns) are    *)
(* left out; a command refused for them is Refuse.                         *)
(***************************************************************************)
EXTENDS UnitOfWork

CONSTANTS Staff, Courses,
          Seed,            \* the rows at the start
          Requested,       \* the commands that are sent
          NoTeacher,
          ExecutiveOnly,   \* whether only a representative delegates the capability
          GrantableTo,     \* whom it may be set for: those who have it anyway, or all
          MaxCommits       \* bound: commands that commit

Statuses   == {"none", "pending", "active", "rejected"}
Roles      == {"instructor", "manager", "admin", "super_admin"}
Assignable == Roles \ {"super_admin"}   \* what a sign-up or an edit may ask for
Profiles   == {"none", "active", "inactive", "deleted"}
Modes      == {"none", "allow", "deny"}

AccountRows == [status : Statuses, role : Roles, deleted : BOOLEAN, version : Nat,
                verified : BOOLEAN, link : BOOLEAN, reset : Nat, mustChange : BOOLEAN]

ASSUME AccountsConstants ==
    /\ ExecutiveOnly \in BOOLEAN /\ GrantableTo \subseteq Roles
    /\ NoTeacher \notin Staff
    /\ Seed \in [Staff -> AccountRows]
    /\ \A u \in Staff : /\ ~Seed[u].deleted /\ Seed[u].reset = 0
                        /\ Seed[u].version = IF Seed[u].status = "none" THEN 0 ELSE 1
    /\ \A c \in Requested :
           /\ c.op # "none" /\ c.id \in Staff /\ c.by \in Staff
           /\ c.op \in {"signup", "provision"} => c.role \in Assignable
           /\ c.op = "edit" => c.what \in Assignable \cup {"email", "name"}
           /\ c.op = "permit" => c.mode \in Modes
           /\ c.op \in {"staffCourse", "closeCourse"} => c.course \in Courses

VARIABLES acct,            \* users
          profile,         \* instructor_profiles: "none", "active", "inactive", "deleted"
          exception,       \* user_capability_overrides of one capability: "none", "allow", "deny"
          teacher,         \* courses.instructor_id; NoTeacher also when there is no course
          contracted,      \* who has an active instructor contract
          resets,          \* reset links issued so far: the next one's number
          accountCommits   \* counts up to MaxCommits

accountVars == <<acct, profile, exception, teacher, contracted, resets, accountCommits>>

NoAccount == [status |-> "none", role |-> "instructor", deleted |-> FALSE, version |-> 0,
              verified |-> FALSE, link |-> FALSE, reset |-> 0, mustChange |-> FALSE]

AccountsInit ==
    /\ acct = Seed
    /\ profile = [u \in Staff |-> IF Seed[u].status = "active" /\ Seed[u].role = "instructor"
                                  THEN "active" ELSE "none"]
    /\ exception = [u \in Staff |-> "none"]
    /\ teacher = [c \in Courses |-> NoTeacher]
    /\ contracted = {}
    /\ resets = 1
    /\ accountCommits = 0

-----------------------------------------------------------------------------
(* What the code asks of an account.                                       *)
Active(a) == a.status = "active" /\ ~a.deleted

(* isTeachingAccount: an instructor, or a manager or admin who also        *)
(* teaches.                                                                *)
Teaches(a, pr) == Active(a) /\ (a.role = "instructor" \/ (a.role \in {"manager", "admin"} /\ pr = "active"))

(* canDecideSignupRole.                                                    *)
MayDecide(role, requested) ==
    \/ role = "super_admin" /\ requested # "super_admin"
    \/ role = "admin" /\ requested \in {"instructor", "manager"}
    \/ role = "manager" /\ requested = "instructor"

(* assertDelegation, for a configurable capability; what the catalogue of  *)
(* the contracts package says of it are constants.                         *)
MayDelegate(c, actor, target) ==
    /\ actor.role \in {"super_admin", "admin"}
    /\ c.by # c.id
    /\ target.role # "super_admin"
    /\ ~(actor.role = "admin" /\ target.role = "admin")
    /\ target.role \in GrantableTo
    /\ ExecutiveOnly => actor.role = "super_admin"

-----------------------------------------------------------------------------
(* Locks and reads.  verifyEmail, resend and beginPasswordReset take none. *)
UserKey(u) == {<<"user", u>> : v \in {u} \ {NoTeacher}}

AccountKeys(c) ==
    CASE c.op \in {"signup", "verify", "resend", "forget"} -> {}
      [] c.op \in {"approve", "reject", "discard", "terminate", "restore"} ->
             UserKey(c.id) \cup UserKey(c.by)
      [] c.op = "provision" -> {<<"loginIdentity", c.id>>} \cup UserKey(c.by)
      [] c.op = "permit" -> UserKey(c.id) \cup UserKey(c.by) \cup {<<"permission", c.id>>}
      [] c.op = "staffCourse" -> {<<"course", c.course>>} \cup UserKey(c.id)
      [] c.op = "closeCourse" -> {<<"course", c.course>>}
      [] c.op \in {"contract", "endContract"} -> {<<"instructor", c.id>>}
      [] OTHER -> UserKey(c.id)

(* Mutant: create and update lock the instructor and not the account.      *)
InstructorLockedForCourse(c) ==
    IF c.op = "staffCourse" THEN {<<"course", c.course>>, <<"instructor", c.id>>} ELSE AccountKeys(c)

(* Mutant: the actor is not locked.                                        *)
TargetOnlyLocked(c) ==
    IF c.op \in {"approve", "reject", "permit"} THEN UserKey(c.id) ELSE AccountKeys(c)

(* Mutant: setTeaching locks the profile and not the account.              *)
ProfileLockedForTeaching(c) == IF c.op = "teach" THEN {<<"instructor", c.id>>} ELSE AccountKeys(c)

KeysOfAccountCommand(c) == AccountKeys(c)

BeginAccountCommand(p) ==
    \E c \in Requested :
        /\ accountCommits < MaxCommits
        /\ Begin(p, c, KeysOfAccountCommand(c),
                 [row |-> acct[c.id], actor |-> acct[c.by], profile |-> profile[c.id],
                  exception |-> exception[c.id]])
        /\ UNCHANGED accountVars

RefuseAccountCommand(p) == Abort(p) /\ UNCHANGED accountVars

(* The command and what it read.                                           *)
Cmd(p) == run[p].cmd
Read(p) == run[p].saw.row
ReadActor(p) == run[p].saw.actor
ReadProfile(p) == run[p].saw.profile

(* store.update and updateIf touch no row that is deleted.                 *)
Patch(u, new) ==
    acct' = [acct EXCEPT ![u] =
                IF acct[u].status = "none" \/ acct[u].deleted THEN acct[u]
                ELSE [f \in DOMAIN acct[u] |-> IF f \in DOMAIN new THEN new[f] ELSE acct[u][f]]]

NextVersion(p) == Read(p).version + 1

Commit(p) == End(p) /\ accountCommits' = accountCommits + 1

-----------------------------------------------------------------------------
(* Sign-up, its verification link and its decision.                        *)
Signup(p) ==
    LET c == Cmd(p) IN
    /\ Running(p, "signup")
    /\ acct[c.id].status = "none"
    /\ acct' = [acct EXCEPT ![c.id] = [NoAccount EXCEPT !.status = "pending", !.role = c.role,
                                                        !.version = 1, !.verified = TRUE]]
    /\ Commit(p)
    /\ UNCHANGED <<profile, exception, teacher, contracted, resets>>

(* The account is found by its link before the transaction.                *)
VerifyEmail(p) ==
    /\ Running(p, "verify")
    /\ Read(p).link /\ ~Read(p).deleted
    /\ Patch(Cmd(p).id, [verified |-> TRUE, link |-> FALSE])
    /\ Commit(p)
    /\ UNCHANGED <<profile, exception, teacher, contracted, resets>>

ResendVerification(p) ==
    /\ Running(p, "resend")
    /\ Read(p).status = "pending" /\ ~Read(p).deleted /\ ~Read(p).verified
    /\ Patch(Cmd(p).id, [link |-> TRUE])
    /\ Commit(p)
    /\ UNCHANGED <<profile, exception, teacher, contracted, resets>>

(* assertSignupDecisionScope, on the actor as read under the actor's lock. *)
InScope(p) == Active(ReadActor(p)) /\ MayDecide(ReadActor(p).role, Read(p).role)

Approve(p) ==
    LET u == Cmd(p).id IN
    /\ Running(p, "approve")
    /\ Read(p).status # "none" /\ ~Read(p).deleted
    /\ InScope(p)
    /\ acct[u].status = "pending" /\ acct[u].verified /\ ~acct[u].deleted
    /\ Patch(u, [status |-> "active", version |-> NextVersion(p)])
    /\ profile' = IF acct[u].role = "instructor" THEN [profile EXCEPT ![u] = "active"] ELSE profile
    /\ Commit(p)
    /\ UNCHANGED <<exception, teacher, contracted, resets>>

Reject(p) ==
    LET u == Cmd(p).id IN
    /\ Running(p, "reject")
    /\ Read(p).status # "none" /\ ~Read(p).deleted
    /\ InScope(p)
    /\ acct[u].status = "pending" /\ ~acct[u].deleted
    /\ Patch(u, [status |-> "rejected", version |-> NextVersion(p)])
    /\ Commit(p)
    /\ UNCHANGED <<profile, exception, teacher, contracted, resets>>

(* deletePendingAccount: the identifiers are freed and the row deleted.    *)
Discard(p) ==
    LET u == Cmd(p).id IN
    /\ Running(p, "discard")
    /\ Read(p).status \in {"pending", "rejected"} /\ ~Read(p).deleted
    /\ acct[u].status = Read(p).status /\ ~acct[u].deleted
    /\ Patch(u, [link |-> FALSE, reset |-> 0, version |-> NextVersion(p), deleted |-> TRUE])
    /\ Commit(p)
    /\ UNCHANGED <<profile, exception, teacher, contracted, resets>>

(* provisionInstructor: an active account, with the profile of its role.   *)
Provision(p) ==
    LET c == Cmd(p) IN
    /\ Running(p, "provision")
    /\ Read(p).status = "none"
    /\ acct[c.id].status = "none"
    /\ acct' = [acct EXCEPT ![c.id] = [NoAccount EXCEPT !.status = "active", !.role = c.role,
                                                        !.version = 1, !.verified = TRUE]]
    /\ profile' = IF c.role = "instructor" THEN [profile EXCEPT ![c.id] = "active"] ELSE profile
    /\ Commit(p)
    /\ UNCHANGED <<exception, teacher, contracted, resets>>

-----------------------------------------------------------------------------
(* Credentials.                                                            *)
ChangeCredentials(p) ==
    LET u == Cmd(p).id IN
    /\ Running(p, "credentials")
    /\ Read(p).status # "none" /\ ~Read(p).deleted
    /\ acct[u].version = Read(p).version /\ ~acct[u].deleted
    /\ Patch(u, [version |-> NextVersion(p), mustChange |-> FALSE])
    /\ Commit(p)
    /\ UNCHANGED <<profile, exception, teacher, contracted, resets>>

(* beginPasswordReset: the last link replaces the one before.              *)
ForgetPassword(p) ==
    /\ Running(p, "forget")
    /\ Active(Read(p))
    /\ Patch(Cmd(p).id, [reset |-> resets])
    /\ resets' = resets + 1
    /\ Commit(p)
    /\ UNCHANGED <<profile, exception, teacher, contracted>>

(* resetPasswordWithToken: the command carries a link issued earlier.      *)
ResetByLink(p) ==
    LET c == Cmd(p) IN
    /\ Running(p, "resetByLink")
    /\ Read(p).status # "none" /\ Read(p).reset = c.link /\ ~Read(p).deleted
    /\ acct[c.id].reset = c.link /\ ~acct[c.id].deleted
    /\ Patch(c.id, [reset |-> 0, version |-> NextVersion(p), mustChange |-> FALSE])
    /\ Commit(p)
    /\ UNCHANGED <<profile, exception, teacher, contracted, resets>>

(* resetPasswordWithOtp; the challenge it consumes is in Challenges.       *)
ResetByCode(p) ==
    /\ Running(p, "resetByCode")
    /\ Active(Read(p))
    /\ Patch(Cmd(p).id, [reset |-> 0, version |-> NextVersion(p), mustChange |-> FALSE])
    /\ Commit(p)
    /\ UNCHANGED <<profile, exception, teacher, contracted, resets>>

(* applyApprovedInTx, of a request for another webId (the request itself   *)
(* is in ProfileRequests).                                                 *)
RenameLogin(p) ==
    /\ Running(p, "renameLogin")
    /\ Active(Read(p))
    /\ Patch(Cmd(p).id, [version |-> NextVersion(p)])
    /\ Commit(p)
    /\ UNCHANGED <<profile, exception, teacher, contracted, resets>>

-----------------------------------------------------------------------------
(* Roles and teaching.  What a course or a contract refers to may not be   *)
(* taken away; both are looked up while the command runs.                  *)
CanStopTeaching(u) == u \notin contracted /\ \A c \in Courses : teacher[c] # u

Deactivated(u) == [profile EXCEPT ![u] = IF @ = "active" THEN "inactive" ELSE @]
Activated(u)   == [profile EXCEPT ![u] = "active"]

(* apply: the profile follows the role, but for an instructor promoted     *)
(* who goes on teaching.                                                   *)
Transition(u, before, role, keep) ==
    LET active == before.status = "active"
        stops  == active /\ before.role = "instructor" /\ role # "instructor" /\ ~keep
        starts == active /\ before.role # "instructor" /\ role = "instructor"
    IN  /\ stops => CanStopTeaching(u)
        /\ profile' = IF stops THEN Deactivated(u) ELSE IF starts THEN Activated(u) ELSE profile

(* adminUpdateUser: a new role, a new address, or another field.           *)
EditUser(p) ==
    LET c == Cmd(p)
        b == Read(p)
        role == IF c.what \in {"email", "name"} THEN b.role ELSE c.what
    IN  /\ Running(p, "edit")
        /\ b.status # "none" /\ ~b.deleted /\ b.role # "super_admin"
        /\ c.what \in {"email", "name"} \/ role # b.role
        /\ Transition(c.id, b, role, c.keep)
        /\ Patch(c.id, IF c.what = "name" THEN [role |-> b.role]
                       ELSE [role |-> role, version |-> NextVersion(p)])
        /\ Commit(p)
        /\ UNCHANGED <<exception, teacher, contracted, resets>>

(* setTeaching: managers and admins who also teach.                        *)
SetTeaching(p) ==
    LET c == Cmd(p) IN
    /\ Running(p, "teach")
    /\ ~Read(p).deleted /\ Read(p).status # "none"
    /\ Read(p).role \in {"manager", "admin"}
    /\ IF c.grant THEN /\ Read(p).status = "active" /\ ReadProfile(p) # "active"
                       /\ profile' = Activated(c.id)
                  ELSE /\ ReadProfile(p) = "active" /\ CanStopTeaching(c.id)
                       /\ profile' = Deactivated(c.id)
    /\ Patch(c.id, [version |-> NextVersion(p)])
    /\ Commit(p)
    /\ UNCHANGED <<exception, teacher, contracted, resets>>

Terminate(p) ==
    LET u == Cmd(p).id IN
    /\ Running(p, "terminate")
    /\ Active(Read(p)) /\ u # Cmd(p).by /\ Read(p).role # "super_admin"
    /\ IF ReadProfile(p) = "active" THEN CanStopTeaching(u) /\ profile' = Deactivated(u)
                                    ELSE profile' = profile
    /\ acct[u].status = "active" /\ acct[u].version = Read(p).version /\ ~acct[u].deleted
    /\ Patch(u, [version |-> NextVersion(p), deleted |-> TRUE])
    /\ Commit(p)
    /\ UNCHANGED <<exception, teacher, contracted, resets>>

Restore(p) ==
    LET u == Cmd(p).id IN
    /\ Running(p, "restore")
    /\ Read(p).deleted /\ Read(p).status = "active" /\ Read(p).role # "super_admin"
    /\ acct[u].deleted
    /\ acct' = [acct EXCEPT ![u].deleted = FALSE, ![u].version = NextVersion(p)]
    /\ profile' = IF Read(p).role = "instructor" THEN Activated(u) ELSE profile
    /\ Commit(p)
    /\ UNCHANGED <<exception, teacher, contracted, resets>>

(* updateInstructor: a new address ends the sessions.                      *)
UpdateInstructor(p) ==
    LET c == Cmd(p) IN
    /\ Running(p, "updateInstructor")
    /\ Active(Read(p)) /\ Read(p).role = "instructor" /\ ReadProfile(p) = "active"
    /\ Patch(c.id, IF c.what = "email" THEN [version |-> NextVersion(p)] ELSE [role |-> Read(p).role])
    /\ Commit(p)
    /\ UNCHANGED <<profile, exception, teacher, contracted, resets>>

(* removeInstructor; the sessions it looks for are in Timetable.           *)
RemoveInstructor(p) ==
    LET u == Cmd(p).id IN
    /\ Running(p, "removeInstructor")
    /\ Active(Read(p)) /\ Read(p).role = "instructor" /\ ReadProfile(p) = "active"
    /\ CanStopTeaching(u)
    /\ Patch(u, [status |-> "rejected", version |-> NextVersion(p), deleted |-> TRUE])
    /\ profile' = [profile EXCEPT ![u] = "deleted"]
    /\ Commit(p)
    /\ UNCHANGED <<exception, teacher, contracted, resets>>

-----------------------------------------------------------------------------
(* Capability exceptions.                                                  *)
SetPermission(p) ==
    LET c == Cmd(p) IN
    /\ Running(p, "permit")
    /\ Active(Read(p)) /\ Active(ReadActor(p))
    /\ MayDelegate(c, ReadActor(p), Read(p))
    /\ Read(p).version = c.version                      \* expectedAccessVersion
    /\ ~(c.mode = "none" /\ exception[c.id] = "none")
    /\ acct[c.id].version = Read(p).version /\ ~acct[c.id].deleted
    /\ Patch(c.id, [version |-> NextVersion(p)])
    /\ exception' = [exception EXCEPT ![c.id] = c.mode]
    /\ Commit(p)
    /\ UNCHANGED <<profile, teacher, contracted, resets>>

-----------------------------------------------------------------------------
(* What refers to teaching accounts: courses.create, update and remove,    *)
(* instructor-contracts.create and update.                                 *)
StaffCourse(p) ==
    LET c == Cmd(p) IN
    /\ Running(p, "staffCourse")
    /\ Teaches(Read(p), ReadProfile(p)) /\ ReadProfile(p) = "active"
    /\ teacher' = [teacher EXCEPT ![c.course] = c.id]
    /\ Commit(p)
    /\ UNCHANGED <<acct, profile, exception, contracted, resets>>

CloseCourse(p) ==
    LET c == Cmd(p) IN
    /\ Running(p, "closeCourse")
    /\ teacher' = [teacher EXCEPT ![c.course] = NoTeacher]
    /\ Commit(p)
    /\ UNCHANGED <<acct, profile, exception, contracted, resets>>

SignContract(p) ==
    LET c == Cmd(p) IN
    /\ Running(p, "contract")
    /\ Active(Read(p)) /\ Read(p).role = "instructor"
    /\ contracted' = contracted \cup {c.id}
    /\ Commit(p)
    /\ UNCHANGED <<acct, profile, exception, teacher, resets>>

EndContract(p) ==
    LET c == Cmd(p) IN
    /\ Running(p, "endContract")
    /\ c.id \in contracted
    /\ contracted' = contracted \ {c.id}
    /\ Commit(p)
    /\ UNCHANGED <<acct, profile, exception, teacher, resets>>

-----------------------------------------------------------------------------
Decision(p)    == Approve(p) \/ Reject(p) \/ SetPermission(p)
SignupStep(p)  == Signup(p) \/ VerifyEmail(p) \/ ResendVerification(p) \/ Discard(p) \/ Provision(p)
CredentialStep(p) == \/ ChangeCredentials(p) \/ ForgetPassword(p) \/ ResetByLink(p)
                     \/ ResetByCode(p) \/ RenameLogin(p)
EmploymentStep(p) == \/ EditUser(p) \/ SetTeaching(p) \/ Terminate(p) \/ Restore(p)
                     \/ UpdateInstructor(p) \/ RemoveInstructor(p)
TeachingStep(p)   == StaffCourse(p) \/ CloseCourse(p) \/ SignContract(p) \/ EndContract(p)

AccountsNext ==
    \E p \in Instances :
        \/ BeginAccountCommand(p) \/ RefuseAccountCommand(p)
        \/ Decision(p) \/ SignupStep(p) \/ CredentialStep(p) \/ EmploymentStep(p) \/ TeachingStep(p)

AccountsSpec == NothingRuns /\ AccountsInit /\ [][AccountsNext]_<<accountVars, run>>

-----------------------------------------------------------------------------
AccountsTypeOK ==
    /\ acct \in [Staff -> AccountRows]
    /\ \A u \in Staff : acct[u].reset < resets
    /\ profile \in [Staff -> Profiles]
    /\ exception \in [Staff -> Modes]
    /\ teacher \in [Courses -> Staff \cup {NoTeacher}]
    /\ contracted \subseteq Staff
    /\ accountCommits \in Nat

(* What an access token tells of an account (JwtClaims, verifyClaims).     *)
claims == [u \in Staff |->
    [status |-> acct[u].status, deleted |-> acct[u].deleted, role |-> acct[u].role,
     teaching |-> Teaches(acct[u], profile[u]), exception |-> exception[u],
     mustChange |-> acct[u].mustChange]]

authorities == [u \in Staff |-> [version |-> acct[u].version, claims |-> claims[u]]]

Granted == INSTANCE Authority
    WITH Users <- Staff,
         Claims <- [status : Statuses, deleted : BOOLEAN, role : Roles, teaching : BOOLEAN,
                    exception : Modes, mustChange : BOOLEAN],
         authority <- authorities

(* signup-approval.service.ts:66, roles.guard: authority never changes     *)
(* under the same version, whichever commands run at the same time, so no  *)
(* token outlives the authority it was issued for.                         *)
AuthorityIsVersioned == Granted!AuthoritySpec

(* signup-approval.service.ts:92: an active instructor has an active       *)
(* profile, and an active profile belongs to an active account, through    *)
(* approvals, role changes, terminations and restorations.                 *)
ProfileFollowsAccount ==
    \A u \in Staff :
        /\ Active(acct[u]) /\ acct[u].role = "instructor" => profile[u] = "active"
        /\ profile[u] = "active" => Active(acct[u]) /\ acct[u].role # "super_admin"

(* courses.assertRefs and deactivateInstructor exclude each other through  *)
(* the account's lock: no course is left with a teacher who does not teach.*)
CoursesHaveTeachers ==
    \A c \in Courses : teacher[c] # NoTeacher => Teaches(acct[teacher[c]], profile[teacher[c]])

(* approve, role changes, terminateUser, restoreUser, courses.assertRefs:  *)
(* who teaches has a profile in force, and what is taught has a teacher.   *)
RolesHaveTheirRecords == ProfileFollowsAccount /\ CoursesHaveTeachers

(* The lock on the actor: whoever decides a sign-up or a permission is, at *)
(* the moment the decision commits, an active account entitled to it.      *)
DecidersAreEntitled ==
    [][\A p \in Instances :
          LET c == Cmd(p) IN
          c.op \in {"approve", "reject", "permit"} /\ acct' # acct /\ run'[p] = Idle =>
              /\ Active(acct[c.by])
              /\ c.op # "permit" => MayDecide(acct[c.by].role, acct[c.id].role)
              /\ c.op = "permit" => MayDelegate(c, acct[c.by], acct[c.id])]_<<accountVars, run>>
=============================================================================
