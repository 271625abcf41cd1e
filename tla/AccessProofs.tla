---------------------------- MODULE AccessProofs ----------------------------
(* The proofs about accounts, browser sessions, challenges and profile     *)
(* changes, for any number of instances, accounts, requests, tokens,       *)
(* courses, challenges and commands.                                       *)
EXTENDS Access, FiniteSetTheorems, TLAPS

-----------------------------------------------------------------------------
(* Accounts: authority changes with its version only, who decides is       *)
(* entitled to, and who teaches has the records of a teacher.              *)

Fields == {"status", "role", "deleted", "version", "verified", "link", "reset", "mustChange"}

(* What a token tells of an account, and its version.                      *)
Same(a, b) ==
    /\ a.status = b.status /\ a.role = b.role /\ a.deleted = b.deleted
    /\ a.version = b.version /\ a.mustChange = b.mustChange

Typed ==
    /\ AccountsTypeOK /\ resets \in Nat \ {0}
    /\ \A u \in Staff : acct[u].status = "none" => acct[u].version = 0

Holds(p, u) == <<"user", u>> \in run[p].held

(* An account that a command has locked is as the command read it, but for *)
(* a sign-up: the key of an account that does not exist keeps nobody out.  *)
Sees(p) ==
    Cmd(p).op # "none" =>
        /\ Cmd(p) \in Requested /\ run[p].held = KeysOfAccountCommand(Cmd(p))
        /\ Read(p) \in AccountRows
        /\ Holds(p, Cmd(p).id) /\ Read(p).status # "none" =>
               Same(Read(p), acct[Cmd(p).id]) /\ ReadProfile(p) = profile[Cmd(p).id]
        /\ Holds(p, Cmd(p).by) /\ ReadActor(p).status # "none" => Same(ReadActor(p), acct[Cmd(p).by])

RecordsFit == RolesHaveTheirRecords

Sound ==
    /\ DOMAIN run = Instances /\ LocksExclude /\ Typed /\ RecordsFit
    /\ \A p \in Instances : Sees(p)

(* What a command does when it ends: it touches its account only, and then *)
(* under the account's key, or before there is an account; and it steps    *)
(* the version or changes nothing that a token tells.                      *)
Effect(p) ==
    LET u == Cmd(p).id IN
        /\ End(p)
        /\ Typed' /\ RecordsFit'
        /\ \A v \in Staff \ {u} :
               acct'[v] = acct[v] /\ profile'[v] = profile[v] /\ exception'[v] = exception[v]
        /\ \/ Same(acct[u], acct'[u]) /\ profile'[u] = profile[u] /\ exception'[u] = exception[u]
           \/ /\ Holds(p, u) \/ acct[u].status = "none"
              /\ acct'[u].version = acct[u].version + 1

-----------------------------------------------------------------------------
(* The locks.                                                              *)
LEMMA Keys ==
    ASSUME NEW c \in Requested
    PROVE  /\ c.id \in Staff /\ c.by \in Staff /\ c.op # "none"
           /\ c.op \notin {"signup", "verify", "resend", "forget", "provision", "closeCourse",
                           "contract", "endContract"} =>
                  <<"user", c.id>> \in KeysOfAccountCommand(c)
           /\ c.op \in {"approve", "reject", "permit"} => <<"user", c.by>> \in KeysOfAccountCommand(c)
<1>1. c.id \in Staff /\ c.by \in Staff /\ c.op # "none" /\ NoTeacher \notin Staff
  BY AccountsConstants
<1>2. UserKey(c.id) = {<<"user", c.id>>} /\ UserKey(c.by) = {<<"user", c.by>>}
  BY <1>1 DEF UserKey
<1>3. CASE c.op \in {"approve", "reject", "discard", "terminate", "restore"}
  BY <1>1, <1>2, <1>3 DEF KeysOfAccountCommand, AccountKeys
<1>4. CASE c.op = "permit"
  BY <1>1, <1>2, <1>4 DEF KeysOfAccountCommand, AccountKeys
<1>5. CASE c.op = "staffCourse"
  BY <1>1, <1>2, <1>5 DEF KeysOfAccountCommand, AccountKeys
<1>6. CASE c.op \notin {"signup", "verify", "resend", "forget", "approve", "reject", "discard",
                        "terminate", "restore", "provision", "permit", "staffCourse", "closeCourse",
                        "contract", "endContract"}
  BY <1>1, <1>2, <1>6 DEF KeysOfAccountCommand, AccountKeys
<1> QED BY <1>1, <1>3, <1>4, <1>5, <1>6

(* A command that has the key of its account knows the account.            *)
LEMMA Known ==
    ASSUME Sound, NEW p \in Instances, Cmd(p).op # "none",
           Cmd(p).op \notin {"signup", "verify", "resend", "forget", "provision", "closeCourse",
                             "contract", "endContract"},
           Read(p).status # "none"
    PROVE  /\ Cmd(p) \in Requested /\ Cmd(p).id \in Staff /\ Holds(p, Cmd(p).id)
           /\ Same(Read(p), acct[Cmd(p).id]) /\ ReadProfile(p) = profile[Cmd(p).id]
           /\ NextVersion(p) = acct[Cmd(p).id].version + 1 /\ acct[Cmd(p).id] \in AccountRows
BY Keys DEF Sound, Sees, Holds, Same, NextVersion, Typed, AccountsTypeOK

LEMMA ActorKnown ==
    ASSUME Sound, NEW p \in Instances, Cmd(p).op \in {"approve", "reject", "permit"},
           ReadActor(p).status # "none"
    PROVE  Same(ReadActor(p), acct[Cmd(p).by])
BY Keys DEF Sound, Sees, Holds

-----------------------------------------------------------------------------
(* Rows.                                                                   *)
LEMMA RowOf ==
    ASSUME NEW r, r = [f \in Fields |-> r[f]], r.status \in Statuses, r.role \in Roles,
           r.deleted \in BOOLEAN, r.version \in Nat, r.verified \in BOOLEAN, r.link \in BOOLEAN,
           r.reset \in Nat, r.mustChange \in BOOLEAN
    PROVE  r \in AccountRows
BY DEF Fields, AccountRows

(* A patch gives a row the fields it has and leaves the others.            *)
Patches(row, old, new) ==
    /\ row.status = IF "status" \in DOMAIN new THEN new.status ELSE old.status
    /\ row.role = IF "role" \in DOMAIN new THEN new.role ELSE old.role
    /\ row.deleted = IF "deleted" \in DOMAIN new THEN new.deleted ELSE old.deleted
    /\ row.version = IF "version" \in DOMAIN new THEN new.version ELSE old.version
    /\ row.verified = IF "verified" \in DOMAIN new THEN new.verified ELSE old.verified
    /\ row.link = IF "link" \in DOMAIN new THEN new.link ELSE old.link
    /\ row.reset = IF "reset" \in DOMAIN new THEN new.reset ELSE old.reset
    /\ row.mustChange = IF "mustChange" \in DOMAIN new THEN new.mustChange ELSE old.mustChange

Patchable(new) ==
    /\ "status" \in DOMAIN new => new.status \in Statuses
    /\ "role" \in DOMAIN new => new.role \in Roles
    /\ "deleted" \in DOMAIN new => new.deleted \in BOOLEAN
    /\ "version" \in DOMAIN new => new.version \in Nat
    /\ "verified" \in DOMAIN new => new.verified \in BOOLEAN
    /\ "link" \in DOMAIN new => new.link \in BOOLEAN
    /\ "reset" \in DOMAIN new => new.reset \in Nat
    /\ "mustChange" \in DOMAIN new => new.mustChange \in BOOLEAN

LEMMA Patched ==
    ASSUME Typed, NEW u \in Staff, acct[u].status # "none", ~acct[u].deleted, NEW new, Patch(u, new),
           Patchable(new)
    PROVE  /\ acct'[u] \in AccountRows /\ Patches(acct'[u], acct[u], new)
           /\ acct' = [acct EXCEPT ![u] = acct'[u]]
<1>1. DOMAIN acct = Staff /\ acct[u] \in AccountRows
  BY DEF Typed, AccountsTypeOK
<1>2. DOMAIN acct[u] = Fields
  BY <1>1 DEF AccountRows, Fields
<1> DEFINE row == [f \in Fields |-> IF f \in DOMAIN new THEN new[f] ELSE acct[u][f]]
<1>3. acct' = [acct EXCEPT ![u] = row]
  BY <1>1, <1>2 DEF Patch
<1>4. acct'[u] = row
  BY <1>1, <1>3
<1>5. Patches(row, acct[u], new)
  BY DEF Patches, Fields
<1>6. row \in AccountRows
  <2>1. row = [f \in Fields |-> row[f]]
    OBVIOUS
  <2> HIDE DEF row
  <2>2. /\ acct[u].status \in Statuses /\ acct[u].role \in Roles /\ acct[u].deleted \in BOOLEAN
        /\ acct[u].version \in Nat /\ acct[u].verified \in BOOLEAN /\ acct[u].link \in BOOLEAN
        /\ acct[u].reset \in Nat /\ acct[u].mustChange \in BOOLEAN
    BY <1>1 DEF AccountRows
  <2> QED BY <1>5, <2>1, <2>2, RowOf DEF Patches, Patchable
<1> QED BY <1>3, <1>4, <1>5, <1>6

-----------------------------------------------------------------------------
LEMMA InitSound == NothingRuns /\ AccountsInit => Sound
<1> SUFFICES ASSUME NothingRuns, AccountsInit PROVE Sound
  OBVIOUS
<1> USE DEF AccountsInit, NothingRuns
<1>1. DOMAIN run = Instances /\ LocksExclude /\ \A p \in Instances : Sees(p)
  BY DEF LocksExclude, Sees, Idle, NoCommand, Cmd
<1>2. Typed
  BY AccountsConstants DEF Typed, AccountsTypeOK, Statuses, Modes, Profiles
<1>3. RecordsFit
  BY AccountsConstants DEF RecordsFit, RolesHaveTheirRecords, ProfileFollowsAccount, CoursesHaveTeachers, Active
<1> QED BY <1>1, <1>2, <1>3 DEF Sound

(* The steps that touch no account.                                        *)
LEMMA Quiet ==
    ASSUME Sound, UNCHANGED accountVars, DOMAIN run' = Instances, LocksExclude',
           NEW p \in Instances, Sees(p)', \A q \in Instances \ {p} : run'[q] = run[q]
    PROVE  Sound'
<1>1. Typed' /\ RecordsFit'
  BY DEF Sound, accountVars, Typed, AccountsTypeOK, RecordsFit, RolesHaveTheirRecords,
         ProfileFollowsAccount, CoursesHaveTeachers
<1>2. ASSUME NEW q \in Instances \ {p} PROVE Sees(q)'
  BY <1>2 DEF Sound, accountVars, Sees, Cmd, Read, ReadActor, ReadProfile, Holds
<1> QED BY <1>1, <1>2 DEF Sound

LEMMA BeginKeeps == ASSUME Sound, NEW p \in Instances, BeginAccountCommand(p) PROVE Sound'
<1> USE DEF BeginAccountCommand, Begin
<1>1. PICK c \in Requested :
        /\ Free(p, KeysOfAccountCommand(c)) /\ UNCHANGED accountVars
        /\ run' = [run EXCEPT ![p] = [cmd |-> c, held |-> KeysOfAccountCommand(c),
                      saw |-> [row |-> acct[c.id], actor |-> acct[c.by], profile |-> profile[c.id],
                               exception |-> exception[c.id]]]]
  OBVIOUS
<1>2. /\ DOMAIN run' = Instances /\ \A q \in Instances \ {p} : run'[q] = run[q]
      /\ run'[p] = [cmd |-> c, held |-> KeysOfAccountCommand(c),
                    saw |-> [row |-> acct[c.id], actor |-> acct[c.by], profile |-> profile[c.id],
                             exception |-> exception[c.id]]]
  BY <1>1 DEF Sound
<1>3. LocksExclude'
  BY <1>1, <1>2 DEF Sound, LocksExclude, Free
<1>4. Sees(p)'
  BY <1>1, <1>2, Keys DEF Sound, Sees, Cmd, Read, ReadActor, ReadProfile, Holds, Same, accountVars,
     Typed, AccountsTypeOK
<1> QED BY <1>1, <1>2, <1>3, <1>4, Quiet

LEMMA RefuseKeeps == ASSUME Sound, NEW p \in Instances, RefuseAccountCommand(p) PROVE Sound'
<1> USE DEF RefuseAccountCommand, Abort, End
<1>1. DOMAIN run' = Instances /\ run'[p] = Idle /\ \A q \in Instances \ {p} : run'[q] = run[q]
  BY DEF Sound
<1>2. LocksExclude' /\ Sees(p)'
  BY <1>1 DEF Sound, LocksExclude, Idle, NoCommand, Sees, Cmd
<1> QED BY <1>1, <1>2, Quiet

(* A command that ends disturbs nobody's view.                             *)
LEMMA EffectKeeps == ASSUME Sound, NEW p \in Instances, Cmd(p).op # "none", Effect(p) PROVE Sound'
<1>1. DOMAIN run' = Instances /\ run'[p] = Idle /\ \A q \in Instances \ {p} : run'[q] = run[q]
  BY DEF Sound, Effect, End
<1>2. LocksExclude' /\ Sees(p)'
  BY <1>1 DEF Sound, LocksExclude, Idle, NoCommand, Sees, Cmd
<1>3. ASSUME NEW q \in Instances \ {p} PROVE Sees(q)'
  <2> SUFFICES ASSUME Cmd(q).op # "none" PROVE Sees(q)'
    BY <1>1, <1>3 DEF Sees, Cmd
  <2> DEFINE u == Cmd(p).id
  <2>1. /\ Sees(q) /\ Cmd(q) \in Requested /\ Cmd(q).id \in Staff /\ Cmd(q).by \in Staff
        /\ Cmd(p) \in Requested /\ u \in Staff
    BY Keys DEF Sound, Sees
  <2>2. ~(Holds(q, u) /\ Holds(p, u))
    BY <1>3 DEF Sound, LocksExclude, Holds
  <2>3. \/ Same(acct[u], acct'[u]) /\ profile'[u] = profile[u]
        \/ ~Holds(q, u) \/ acct[u].status = "none"
    BY <2>2 DEF Effect
  <2>4. \A v \in Staff : \/ Same(acct[v], acct'[v]) /\ profile'[v] = profile[v]
                         \/ v = u /\ (~Holds(q, u) \/ acct[u].status = "none")
    BY <2>3 DEF Effect, Same
  <2>5. run'[q] = run[q]
    BY <1>1, <1>3
  <2>6. \A a, b, d : Same(a, b) /\ Same(b, d) => Same(a, d) /\ a.status = b.status
    BY DEF Same
  <2>7. Holds(q, Cmd(q).id) /\ Read(q).status # "none" =>
            Same(Read(q), acct'[Cmd(q).id]) /\ ReadProfile(q) = profile'[Cmd(q).id]
    <3> SUFFICES ASSUME Holds(q, Cmd(q).id), Read(q).status # "none"
                 PROVE  Same(Read(q), acct'[Cmd(q).id]) /\ ReadProfile(q) = profile'[Cmd(q).id]
      OBVIOUS
    <3>1. Same(Read(q), acct[Cmd(q).id]) /\ ReadProfile(q) = profile[Cmd(q).id]
      BY <2>1 DEF Sees
    <3>2. acct[Cmd(q).id].status # "none"
      BY <3>1 DEF Same
    <3>3. Same(acct[Cmd(q).id], acct'[Cmd(q).id]) /\ profile'[Cmd(q).id] = profile[Cmd(q).id]
      BY <2>1, <2>4, <3>2
    <3> QED BY <2>6, <3>1, <3>3
  <2>8. Holds(q, Cmd(q).by) /\ ReadActor(q).status # "none" => Same(ReadActor(q), acct'[Cmd(q).by])
    <3> SUFFICES ASSUME Holds(q, Cmd(q).by), ReadActor(q).status # "none"
                 PROVE  Same(ReadActor(q), acct'[Cmd(q).by])
      OBVIOUS
    <3>1. Same(ReadActor(q), acct[Cmd(q).by])
      BY <2>1 DEF Sees
    <3>2. acct[Cmd(q).by].status # "none"
      BY <3>1 DEF Same
    <3>3. Same(acct[Cmd(q).by], acct'[Cmd(q).by])
      BY <2>1, <2>4, <3>2
    <3> QED BY <2>6, <3>1, <3>3
  <2>9. /\ Cmd(q)' = Cmd(q) /\ Read(q)' = Read(q) /\ ReadActor(q)' = ReadActor(q)
        /\ ReadProfile(q)' = ReadProfile(q) /\ \A v : Holds(q, v)' = Holds(q, v)
    BY <2>5 DEF Cmd, Read, ReadActor, ReadProfile, Holds
  <2> QED BY <2>1, <2>5, <2>7, <2>8, <2>9 DEF Sees
<1> QED BY <1>1, <1>2, <1>3 DEF Sound, Effect

-----------------------------------------------------------------------------
(* The records that the state of an account calls for.                     *)
Fits(u, a, pr) ==
    /\ Active(a) /\ a.role = "instructor" => pr = "active"
    /\ pr = "active" => Active(a) /\ a.role # "super_admin"
    /\ (\E c \in Courses : teacher[c] = u) => Teaches(a, pr)

LEMMA FitNow == ASSUME Sound, NEW u \in Staff PROVE Fits(u, acct[u], profile[u])
BY AccountsConstants DEF Sound, RecordsFit, RolesHaveTheirRecords, ProfileFollowsAccount, CoursesHaveTeachers, Fits

(* A new row of the command's account, and its records.                    *)
LEMMA Framed ==
    ASSUME Sound, NEW p \in Instances, Cmd(p) \in Requested, Commit(p),
           NEW u, u = Cmd(p).id, NEW row \in AccountRows, NEW pr \in Profiles, NEW m \in Modes,
           acct' = [acct EXCEPT ![u] = row], profile' = [profile EXCEPT ![u] = pr],
           exception' = [exception EXCEPT ![u] = m], teacher' = teacher, contracted' = contracted,
           resets' \in Nat, resets' >= resets, row.reset < resets',
           row.status = "none" => row.version = 0,
           Fits(u, row, pr),
           \/ Same(acct[u], row) /\ pr = profile[u] /\ m = exception[u]
           \/ (Holds(p, u) \/ acct[u].status = "none") /\ row.version = acct[u].version + 1
    PROVE  Effect(p)
<1>1. u \in Staff /\ NoTeacher \notin Staff
  BY AccountsConstants
<1>2. /\ DOMAIN acct = Staff /\ DOMAIN profile = Staff /\ DOMAIN exception = Staff
      /\ acct \in [Staff -> AccountRows] /\ profile \in [Staff -> Profiles] /\ exception \in [Staff -> Modes]
      /\ resets \in Nat /\ resets >= 1 /\ \A v \in Staff : acct[v].reset < resets
  BY DEF Sound, Typed, AccountsTypeOK
<1>3. /\ acct'[u] = row /\ profile'[u] = pr /\ exception'[u] = m
      /\ \A v \in Staff \ {u} :
             acct'[v] = acct[v] /\ profile'[v] = profile[v] /\ exception'[v] = exception[v]
  BY <1>1, <1>2
<1>4. Typed'
  <2>1. acct' \in [Staff -> AccountRows] /\ profile' \in [Staff -> Profiles]
        /\ exception' \in [Staff -> Modes]
    BY <1>2
  <2>2. \A v \in Staff : acct'[v].reset < resets' /\ (acct'[v].status = "none" => acct'[v].version = 0)
    <3>1. ASSUME NEW v \in Staff \ {u} PROVE acct'[v].reset < resets'
      <4>1. acct[v].reset \in Nat
        BY <1>2 DEF AccountRows
      <4> QED BY <1>2, <1>3, <4>1
    <3> QED BY <1>2, <1>3, <3>1 DEF Sound, Typed
  <2>3. accountCommits' \in Nat
    BY DEF Commit, Sound, Typed, AccountsTypeOK
  <2>4. teacher' \in [Courses -> Staff \cup {NoTeacher}] /\ contracted' \subseteq Staff /\ resets' >= 1
    BY <1>2 DEF Sound, Typed, AccountsTypeOK
  <2> QED BY <2>1, <2>2, <2>3, <2>4 DEF Typed, AccountsTypeOK
<1>5. \A v \in Staff : Fits(v, acct'[v], profile'[v])
  BY <1>3, FitNow
<1>6. RecordsFit'
  <2>1. ProfileFollowsAccount'
    BY <1>5 DEF ProfileFollowsAccount, Fits
  <2>2. ASSUME NEW c \in Courses, teacher[c] # NoTeacher
        PROVE  Teaches(acct'[teacher[c]], profile'[teacher[c]])
    BY <1>5, <2>2 DEF Fits, Sound, Typed, AccountsTypeOK
  <2>3. CoursesHaveTeachers'
    BY <2>2 DEF CoursesHaveTeachers, Teaches, Active
  <2> QED BY <2>1, <2>3 DEF RecordsFit, RolesHaveTheirRecords
<1> QED BY <1>3, <1>4, <1>6 DEF Effect, Commit

(* The same, for a command that issues no link and sets no exception.      *)
LEMMA Edited ==
    ASSUME Sound, NEW p \in Instances, Cmd(p) \in Requested, Commit(p),
           NEW u, u = Cmd(p).id, NEW row \in AccountRows, NEW pr \in Profiles,
           acct' = [acct EXCEPT ![u] = row], profile' = [profile EXCEPT ![u] = pr],
           UNCHANGED <<exception, teacher, contracted, resets>>,
           row.reset \in {0, acct[u].reset}, row.status = "none" => row.version = 0,
           Fits(u, row, pr),
           \/ Same(acct[u], row) /\ pr = profile[u]
           \/ (Holds(p, u) \/ acct[u].status = "none") /\ row.version = acct[u].version + 1
    PROVE  Effect(p)
<1>1. u \in Staff
  BY AccountsConstants
<1>2. exception' = [exception EXCEPT ![u] = exception[u]] /\ exception[u] \in Modes
  BY <1>1 DEF Sound, Typed, AccountsTypeOK
<1>3. resets' \in Nat /\ resets' >= resets /\ row.reset < resets'
  BY <1>1 DEF Sound, Typed, AccountsTypeOK
<1> QED BY <1>2, <1>3, Framed

(* A patch of an account that the command has locked and read.             *)
LEMMA PatchDoes ==
    ASSUME Sound, NEW p \in Instances, Cmd(p).op # "none",
           Cmd(p).op \notin {"signup", "verify", "resend", "forget", "provision", "closeCourse",
                             "contract", "endContract"},
           Read(p).status # "none", ~Read(p).deleted,
           NEW u, u = Cmd(p).id, NEW new, Patch(u, new), Patchable(new), Commit(p),
           UNCHANGED <<exception, teacher, contracted, resets>>,
           NEW pr \in Profiles, profile' = [profile EXCEPT ![u] = pr],
           "reset" \in DOMAIN new => new.reset = 0,
           "status" \in DOMAIN new => new.status # "none",
           \/ "version" \in DOMAIN new /\ new.version = acct[u].version + 1
           \/ /\ pr = profile[u]
              /\ \A row \in AccountRows : Patches(row, acct[u], new) => Same(acct[u], row),
           \A row \in AccountRows : Patches(row, acct[u], new) => Fits(u, row, pr)
    PROVE  Effect(p)
<1>1. /\ Cmd(p) \in Requested /\ u \in Staff /\ Holds(p, u) /\ acct[u] \in AccountRows
      /\ acct[u].status # "none" /\ ~acct[u].deleted
  BY Known DEF Same
<1>2. /\ acct'[u] \in AccountRows /\ Patches(acct'[u], acct[u], new)
      /\ acct' = [acct EXCEPT ![u] = acct'[u]]
  BY <1>1, Patched DEF Sound
<1>3. /\ acct'[u].reset \in {0, acct[u].reset} /\ acct'[u].status # "none"
      /\ "version" \in DOMAIN new => acct'[u].version = new.version
  BY <1>1, <1>2 DEF Patches
<1>4. Fits(u, acct'[u], pr)
  BY <1>2
<1>5. \/ Same(acct[u], acct'[u]) /\ pr = profile[u]
      \/ acct'[u].version = acct[u].version + 1
  BY <1>2, <1>3
<1> QED BY <1>1, <1>2, <1>3, <1>4, <1>5, Edited

LEMMA KnownVersion ==
    ASSUME Sound, NEW p \in Instances, Cmd(p).op # "none",
           Cmd(p).op \notin {"signup", "verify", "resend", "forget", "provision", "closeCourse",
                             "contract", "endContract"},
           Read(p).status # "none"
    PROVE  /\ NextVersion(p) = acct[Cmd(p).id].version + 1 /\ NextVersion(p) \in Nat
           /\ Same(Read(p), acct[Cmd(p).id]) /\ ReadProfile(p) = profile[Cmd(p).id]
           /\ Cmd(p).id \in Staff /\ acct[Cmd(p).id] \in AccountRows
           /\ Read(p).role \in Roles /\ acct[Cmd(p).id].version \in Nat
           /\ profile[Cmd(p).id] \in Profiles
           /\ profile = [profile EXCEPT ![Cmd(p).id] = profile[Cmd(p).id]]
           /\ Fits(Cmd(p).id, acct[Cmd(p).id], profile[Cmd(p).id])
<1>1. acct[Cmd(p).id] \in AccountRows /\ Cmd(p).id \in Staff
  BY Known
<1>2. acct[Cmd(p).id].version \in Nat /\ acct[Cmd(p).id].role \in Roles
  BY <1>1 DEF AccountRows
<1> QED BY <1>1, <1>2, Known, FitNow DEF Same, Sound, Typed, AccountsTypeOK

-----------------------------------------------------------------------------
(* Decisions.                                                              *)
LEMMA ApproveDoes == ASSUME Sound, NEW p \in Instances, Approve(p) PROVE Effect(p)
<1> DEFINE u == Cmd(p).id
           new == [status |-> "active", version |-> NextVersion(p)]
           pr == IF acct[u].role = "instructor" THEN "active" ELSE profile[u]
<1> USE DEF Approve, Running
<1>1. /\ Patch(u, new) /\ Commit(p) /\ profile' = [profile EXCEPT ![u] = pr] /\ pr \in Profiles
      /\ UNCHANGED <<exception, teacher, contracted, resets>>
  BY KnownVersion DEF Cmd, Profiles
<1>2. Patchable(new)
  BY KnownVersion DEF Cmd, Patchable, Statuses
<1>3. \A row \in AccountRows : Patches(row, acct[u], new) => Fits(u, row, pr)
  BY KnownVersion DEF Cmd, Patches, Fits, Active, Teaches, Same
<1> QED BY <1>1, <1>2, <1>3, KnownVersion, PatchDoes DEF Cmd, Active

LEMMA RejectDoes == ASSUME Sound, NEW p \in Instances, Reject(p) PROVE Effect(p)
<1> DEFINE u == Cmd(p).id
           new == [status |-> "rejected", version |-> NextVersion(p)]
           pr == profile[u]
<1> USE DEF Reject, Running
<1>1. /\ Patch(u, new) /\ Commit(p) /\ profile' = [profile EXCEPT ![u] = pr] /\ pr \in Profiles
      /\ UNCHANGED <<exception, teacher, contracted, resets>>
  BY KnownVersion DEF Cmd, Profiles
<1>2. Patchable(new)
  BY KnownVersion DEF Cmd, Patchable, Statuses
<1>3. \A row \in AccountRows : Patches(row, acct[u], new) => Fits(u, row, pr)
  BY KnownVersion DEF Cmd, Patches, Fits, Active, Teaches, Same
<1> QED BY <1>1, <1>2, <1>3, KnownVersion, PatchDoes DEF Cmd, Active

LEMMA DiscardDoes == ASSUME Sound, NEW p \in Instances, Discard(p) PROVE Effect(p)
<1> DEFINE u == Cmd(p).id
           new == [link |-> FALSE, reset |-> 0, version |-> NextVersion(p), deleted |-> TRUE]
           pr == profile[u]
<1> USE DEF Discard, Running
<1>1. /\ Patch(u, new) /\ Commit(p) /\ profile' = [profile EXCEPT ![u] = pr] /\ pr \in Profiles
      /\ UNCHANGED <<exception, teacher, contracted, resets>>
  BY KnownVersion DEF Cmd, Profiles
<1>2. Patchable(new)
  BY KnownVersion DEF Cmd, Patchable, Statuses
<1>3. \A row \in AccountRows : Patches(row, acct[u], new) => Fits(u, row, pr)
  BY KnownVersion DEF Cmd, Patches, Fits, Active, Teaches, Same
<1> QED BY <1>1, <1>2, <1>3, KnownVersion, PatchDoes DEF Cmd, Active

-----------------------------------------------------------------------------
(* Credentials.                                                            *)
LEMMA ChangeCredentialsDoes == ASSUME Sound, NEW p \in Instances, ChangeCredentials(p) PROVE Effect(p)
<1> DEFINE u == Cmd(p).id
           new == [version |-> NextVersion(p), mustChange |-> FALSE]
           pr == profile[u]
<1> USE DEF ChangeCredentials, Running
<1>1. /\ Patch(u, new) /\ Commit(p) /\ profile' = [profile EXCEPT ![u] = pr] /\ pr \in Profiles
      /\ UNCHANGED <<exception, teacher, contracted, resets>>
  BY KnownVersion DEF Cmd, Profiles
<1>2. Patchable(new)
  BY KnownVersion DEF Cmd, Patchable, Statuses
<1>3. \A row \in AccountRows : Patches(row, acct[u], new) => Fits(u, row, pr)
  BY KnownVersion DEF Cmd, Patches, Fits, Active, Teaches, Same
<1> QED BY <1>1, <1>2, <1>3, KnownVersion, PatchDoes DEF Cmd, Active

LEMMA ResetByLinkDoes == ASSUME Sound, NEW p \in Instances, ResetByLink(p) PROVE Effect(p)
<1> DEFINE u == Cmd(p).id
           new == [reset |-> 0, version |-> NextVersion(p), mustChange |-> FALSE]
           pr == profile[u]
<1> USE DEF ResetByLink, Running
<1>1. /\ Patch(u, new) /\ Commit(p) /\ profile' = [profile EXCEPT ![u] = pr] /\ pr \in Profiles
      /\ UNCHANGED <<exception, teacher, contracted, resets>>
  BY KnownVersion DEF Cmd, Profiles
<1>2. Patchable(new)
  BY KnownVersion DEF Cmd, Patchable, Statuses
<1>3. \A row \in AccountRows : Patches(row, acct[u], new) => Fits(u, row, pr)
  BY KnownVersion DEF Cmd, Patches, Fits, Active, Teaches, Same
<1> QED BY <1>1, <1>2, <1>3, KnownVersion, PatchDoes DEF Cmd, Active

LEMMA ResetByCodeDoes == ASSUME Sound, NEW p \in Instances, ResetByCode(p) PROVE Effect(p)
<1> DEFINE u == Cmd(p).id
           new == [reset |-> 0, version |-> NextVersion(p), mustChange |-> FALSE]
           pr == profile[u]
<1> USE DEF ResetByCode, Running, Active
<1>1. /\ Patch(u, new) /\ Commit(p) /\ profile' = [profile EXCEPT ![u] = pr] /\ pr \in Profiles
      /\ UNCHANGED <<exception, teacher, contracted, resets>>
  BY KnownVersion DEF Cmd, Profiles
<1>2. Patchable(new)
  BY KnownVersion DEF Cmd, Patchable, Statuses
<1>3. \A row \in AccountRows : Patches(row, acct[u], new) => Fits(u, row, pr)
  BY KnownVersion DEF Cmd, Patches, Fits, Active, Teaches, Same
<1> QED BY <1>1, <1>2, <1>3, KnownVersion, PatchDoes DEF Cmd, Active

LEMMA RenameLoginDoes == ASSUME Sound, NEW p \in Instances, RenameLogin(p) PROVE Effect(p)
<1> DEFINE u == Cmd(p).id
           new == [version |-> NextVersion(p)]
           pr == profile[u]
<1> USE DEF RenameLogin, Running, Active
<1>1. /\ Patch(u, new) /\ Commit(p) /\ profile' = [profile EXCEPT ![u] = pr] /\ pr \in Profiles
      /\ UNCHANGED <<exception, teacher, contracted, resets>>
  BY KnownVersion DEF Cmd, Profiles
<1>2. Patchable(new)
  BY KnownVersion DEF Cmd, Patchable, Statuses
<1>3. \A row \in AccountRows : Patches(row, acct[u], new) => Fits(u, row, pr)
  BY KnownVersion DEF Cmd, Patches, Fits, Active, Teaches, Same
<1> QED BY <1>1, <1>2, <1>3, KnownVersion, PatchDoes DEF Cmd, Active

-----------------------------------------------------------------------------
(* Roles and teaching.                                                     *)
LEMMA TerminateDoes == ASSUME Sound, NEW p \in Instances, Terminate(p) PROVE Effect(p)
<1> DEFINE u == Cmd(p).id
           new == [version |-> NextVersion(p), deleted |-> TRUE]
           pr == IF profile[u] = "active" THEN "inactive" ELSE profile[u]
<1> USE DEF Terminate, Running, Active, Deactivated, CanStopTeaching
<1>1. /\ Patch(u, new) /\ Commit(p) /\ profile' = [profile EXCEPT ![u] = pr] /\ pr \in Profiles
      /\ UNCHANGED <<exception, teacher, contracted, resets>>
  BY KnownVersion DEF Cmd, Profiles
<1>2. Patchable(new)
  BY KnownVersion DEF Cmd, Patchable, Statuses
<1>3. \A row \in AccountRows : Patches(row, acct[u], new) => Fits(u, row, pr)
  BY KnownVersion DEF Cmd, Patches, Fits, Active, Teaches, Same
<1> QED BY <1>1, <1>2, <1>3, KnownVersion, PatchDoes DEF Cmd, Active

LEMMA RemoveInstructorDoes == ASSUME Sound, NEW p \in Instances, RemoveInstructor(p) PROVE Effect(p)
<1> DEFINE u == Cmd(p).id
           new == [status |-> "rejected", version |-> NextVersion(p), deleted |-> TRUE]
           pr == "deleted"
<1> USE DEF RemoveInstructor, Running, Active, CanStopTeaching
<1>1. /\ Patch(u, new) /\ Commit(p) /\ profile' = [profile EXCEPT ![u] = pr] /\ pr \in Profiles
      /\ UNCHANGED <<exception, teacher, contracted, resets>>
  BY KnownVersion DEF Cmd, Profiles
<1>2. Patchable(new)
  BY KnownVersion DEF Cmd, Patchable, Statuses
<1>3. \A row \in AccountRows : Patches(row, acct[u], new) => Fits(u, row, pr)
  BY KnownVersion DEF Cmd, Patches, Fits, Active, Teaches, Same
<1> QED BY <1>1, <1>2, <1>3, KnownVersion, PatchDoes DEF Cmd, Active

LEMMA SetTeachingDoes == ASSUME Sound, NEW p \in Instances, SetTeaching(p) PROVE Effect(p)
<1> DEFINE u == Cmd(p).id
           new == [version |-> NextVersion(p)]
           pr == IF Cmd(p).grant THEN "active" ELSE "inactive"
<1> USE DEF SetTeaching, Running, Activated, Deactivated, CanStopTeaching
<1>1. /\ Patch(u, new) /\ Commit(p) /\ profile' = [profile EXCEPT ![u] = pr] /\ pr \in Profiles
      /\ UNCHANGED <<exception, teacher, contracted, resets>>
  BY KnownVersion DEF Cmd, Profiles
<1>2. Patchable(new)
  BY KnownVersion DEF Cmd, Patchable, Statuses
<1>3. \A row \in AccountRows : Patches(row, acct[u], new) => Fits(u, row, pr)
  BY KnownVersion DEF Cmd, Patches, Fits, Active, Teaches, Same
<1> QED BY <1>1, <1>2, <1>3, KnownVersion, PatchDoes DEF Cmd, Active

LEMMA UpdateInstructorDoes == ASSUME Sound, NEW p \in Instances, UpdateInstructor(p) PROVE Effect(p)
<1> DEFINE u == Cmd(p).id
<1> USE DEF UpdateInstructor, Running, Active
<1>1. CASE Cmd(p).what = "email"
  <2> DEFINE new == [version |-> NextVersion(p)]
             pr == profile[u]
  <2>1. /\ Patch(u, new) /\ Commit(p) /\ profile' = [profile EXCEPT ![u] = pr] /\ pr \in Profiles
        /\ UNCHANGED <<exception, teacher, contracted, resets>>
    BY <1>1, KnownVersion DEF Cmd, Profiles
  <2>2. Patchable(new)
    BY <1>1, KnownVersion DEF Cmd, Patchable, Roles
  <2>3. \A row \in AccountRows : Patches(row, acct[u], new) => Fits(u, row, pr)
    BY <1>1, KnownVersion DEF Cmd, Patches, Fits, Active, Teaches, Same
  <2>4. \/ "version" \in DOMAIN new /\ new.version = acct[u].version + 1
        \/ pr = profile[u] /\ \A row \in AccountRows : Patches(row, acct[u], new) => Same(acct[u], row)
    BY <1>1, KnownVersion DEF Cmd, Patches, Same
  <2>5. /\ "reset" \in DOMAIN new => new.reset = 0
        /\ "status" \in DOMAIN new => new.status # "none"
    OBVIOUS
  <2>6. Cmd(p).op = "updateInstructor" /\ Read(p).status # "none" /\ ~Read(p).deleted
    BY DEF Cmd, Active
  <2> HIDE DEF new, pr
  <2> QED BY <2>1, <2>2, <2>3, <2>4, <2>5, <2>6, PatchDoes
<1>2. CASE Cmd(p).what # "email"
  <2> DEFINE new == [role |-> Read(p).role]
             pr == profile[u]
  <2>1. /\ Patch(u, new) /\ Commit(p) /\ profile' = [profile EXCEPT ![u] = pr] /\ pr \in Profiles
        /\ UNCHANGED <<exception, teacher, contracted, resets>>
    BY <1>2, KnownVersion DEF Cmd, Profiles
  <2>2. Patchable(new)
    BY <1>2, KnownVersion DEF Cmd, Patchable, Roles
  <2>3. \A row \in AccountRows : Patches(row, acct[u], new) => Fits(u, row, pr)
    BY <1>2, KnownVersion DEF Cmd, Patches, Fits, Active, Teaches, Same
  <2>4. \/ "version" \in DOMAIN new /\ new.version = acct[u].version + 1
        \/ pr = profile[u] /\ \A row \in AccountRows : Patches(row, acct[u], new) => Same(acct[u], row)
    BY <1>2, KnownVersion DEF Cmd, Patches, Same
  <2>5. /\ "reset" \in DOMAIN new => new.reset = 0
        /\ "status" \in DOMAIN new => new.status # "none"
    OBVIOUS
  <2>6. Cmd(p).op = "updateInstructor" /\ Read(p).status # "none" /\ ~Read(p).deleted
    BY DEF Cmd, Active
  <2> HIDE DEF new, pr
  <2> QED BY <2>1, <2>2, <2>3, <2>4, <2>5, <2>6, PatchDoes
<1> QED BY <1>1, <1>2

LEMMA EditUserDoes == ASSUME Sound, NEW p \in Instances, EditUser(p) PROVE Effect(p)
<1> DEFINE u == Cmd(p).id
<1> USE DEF EditUser, Running, Transition, Activated, Deactivated, CanStopTeaching
<1>0. Cmd(p) \in Requested /\ Cmd(p).what \in {"instructor", "manager", "admin", "email", "name"}
  BY Known, AccountsConstants DEF Cmd, Assignable, Roles
<1>1. CASE Cmd(p).what = "name"
  <2> DEFINE new == [role |-> Read(p).role]
             pr == profile[u]
  <2>1. /\ Patch(u, new) /\ Commit(p) /\ profile' = [profile EXCEPT ![u] = pr] /\ pr \in Profiles
        /\ UNCHANGED <<exception, teacher, contracted, resets>>
    BY <1>0, <1>1, KnownVersion DEF Cmd, Profiles
  <2>2. Patchable(new)
    BY <1>0, <1>1, KnownVersion DEF Cmd, Patchable, Roles
  <2>3. \A row \in AccountRows : Patches(row, acct[u], new) => Fits(u, row, pr)
    BY <1>0, <1>1, KnownVersion DEF Cmd, Patches, Fits, Active, Teaches, Same
  <2>4. \/ "version" \in DOMAIN new /\ new.version = acct[u].version + 1
        \/ pr = profile[u] /\ \A row \in AccountRows : Patches(row, acct[u], new) => Same(acct[u], row)
    BY <1>0, <1>1, KnownVersion DEF Cmd, Patches, Same
  <2>5. /\ "reset" \in DOMAIN new => new.reset = 0
        /\ "status" \in DOMAIN new => new.status # "none"
    OBVIOUS
  <2>6. Cmd(p).op = "edit" /\ Read(p).status # "none" /\ ~Read(p).deleted
    BY DEF Cmd, Active
  <2> HIDE DEF new, pr
  <2> QED BY <2>1, <2>2, <2>3, <2>4, <2>5, <2>6, PatchDoes
<1>2. CASE Cmd(p).what = "email"
  <2> DEFINE new == [role |-> Read(p).role, version |-> NextVersion(p)]
             pr == profile[u]
  <2>1. /\ Patch(u, new) /\ Commit(p) /\ profile' = [profile EXCEPT ![u] = pr] /\ pr \in Profiles
        /\ UNCHANGED <<exception, teacher, contracted, resets>>
    BY <1>0, <1>2, KnownVersion DEF Cmd, Profiles
  <2>2. Patchable(new)
    BY <1>0, <1>2, KnownVersion DEF Cmd, Patchable, Roles
  <2>3. \A row \in AccountRows : Patches(row, acct[u], new) => Fits(u, row, pr)
    BY <1>0, <1>2, KnownVersion DEF Cmd, Patches, Fits, Active, Teaches, Same
  <2>4. \/ "version" \in DOMAIN new /\ new.version = acct[u].version + 1
        \/ pr = profile[u] /\ \A row \in AccountRows : Patches(row, acct[u], new) => Same(acct[u], row)
    BY <1>0, <1>2, KnownVersion DEF Cmd, Patches, Same
  <2>5. /\ "reset" \in DOMAIN new => new.reset = 0
        /\ "status" \in DOMAIN new => new.status # "none"
    OBVIOUS
  <2>6. Cmd(p).op = "edit" /\ Read(p).status # "none" /\ ~Read(p).deleted
    BY DEF Cmd, Active
  <2> HIDE DEF new, pr
  <2> QED BY <2>1, <2>2, <2>3, <2>4, <2>5, <2>6, PatchDoes
<1>3. CASE Cmd(p).what \notin {"name", "email"} /\ Read(p).status # "active"
  <2> DEFINE new == [role |-> Cmd(p).what, version |-> NextVersion(p)]
             pr == profile[u]
  <2>1. /\ Patch(u, new) /\ Commit(p) /\ profile' = [profile EXCEPT ![u] = pr] /\ pr \in Profiles
        /\ UNCHANGED <<exception, teacher, contracted, resets>>
    BY <1>0, <1>3, KnownVersion DEF Cmd, Profiles
  <2>2. Patchable(new)
    BY <1>0, <1>3, KnownVersion DEF Cmd, Patchable, Roles
  <2>3. \A row \in AccountRows : Patches(row, acct[u], new) => Fits(u, row, pr)
    BY <1>0, <1>3, KnownVersion DEF Cmd, Patches, Fits, Active, Teaches, Same
  <2>4. \/ "version" \in DOMAIN new /\ new.version = acct[u].version + 1
        \/ pr = profile[u] /\ \A row \in AccountRows : Patches(row, acct[u], new) => Same(acct[u], row)
    BY <1>0, <1>3, KnownVersion DEF Cmd, Patches, Same
  <2>5. /\ "reset" \in DOMAIN new => new.reset = 0
        /\ "status" \in DOMAIN new => new.status # "none"
    OBVIOUS
  <2>6. Cmd(p).op = "edit" /\ Read(p).status # "none" /\ ~Read(p).deleted
    BY DEF Cmd, Active
  <2> HIDE DEF new, pr
  <2> QED BY <2>1, <2>2, <2>3, <2>4, <2>5, <2>6, PatchDoes
<1>4. CASE Cmd(p).what \notin {"name", "email"} /\ Read(p).status = "active"
           /\ Read(p).role = "instructor" /\ Cmd(p).keep
  <2> DEFINE new == [role |-> Cmd(p).what, version |-> NextVersion(p)]
             pr == profile[u]
  <2>1. /\ Patch(u, new) /\ Commit(p) /\ profile' = [profile EXCEPT ![u] = pr] /\ pr \in Profiles
        /\ UNCHANGED <<exception, teacher, contracted, resets>>
    BY <1>0, <1>4, KnownVersion DEF Cmd, Profiles
  <2>2. Patchable(new)
    BY <1>0, <1>4, KnownVersion DEF Cmd, Patchable, Roles
  <2>3. \A row \in AccountRows : Patches(row, acct[u], new) => Fits(u, row, pr)
    BY <1>0, <1>4, KnownVersion DEF Cmd, Patches, Fits, Active, Teaches, Same
  <2>4. \/ "version" \in DOMAIN new /\ new.version = acct[u].version + 1
        \/ pr = profile[u] /\ \A row \in AccountRows : Patches(row, acct[u], new) => Same(acct[u], row)
    BY <1>0, <1>4, KnownVersion DEF Cmd, Patches, Same
  <2>5. /\ "reset" \in DOMAIN new => new.reset = 0
        /\ "status" \in DOMAIN new => new.status # "none"
    OBVIOUS
  <2>6. Cmd(p).op = "edit" /\ Read(p).status # "none" /\ ~Read(p).deleted
    BY DEF Cmd, Active
  <2> HIDE DEF new, pr
  <2> QED BY <2>1, <2>2, <2>3, <2>4, <2>5, <2>6, PatchDoes
<1>5. CASE Cmd(p).what \notin {"name", "email"} /\ Read(p).status = "active"
           /\ Read(p).role = "instructor" /\ ~Cmd(p).keep
  <2> DEFINE new == [role |-> Cmd(p).what, version |-> NextVersion(p)]
             pr == IF profile[u] = "active" THEN "inactive" ELSE profile[u]
  <2>1. /\ Patch(u, new) /\ Commit(p) /\ profile' = [profile EXCEPT ![u] = pr] /\ pr \in Profiles
        /\ UNCHANGED <<exception, teacher, contracted, resets>>
    BY <1>0, <1>5, KnownVersion DEF Cmd, Profiles
  <2>2. Patchable(new)
    BY <1>0, <1>5, KnownVersion DEF Cmd, Patchable, Roles
  <2>3. \A row \in AccountRows : Patches(row, acct[u], new) => Fits(u, row, pr)
    BY <1>0, <1>5, KnownVersion DEF Cmd, Patches, Fits, Active, Teaches, Same
  <2>4. \/ "version" \in DOMAIN new /\ new.version = acct[u].version + 1
        \/ pr = profile[u] /\ \A row \in AccountRows : Patches(row, acct[u], new) => Same(acct[u], row)
    BY <1>0, <1>5, KnownVersion DEF Cmd, Patches, Same
  <2>5. /\ "reset" \in DOMAIN new => new.reset = 0
        /\ "status" \in DOMAIN new => new.status # "none"
    OBVIOUS
  <2>6. Cmd(p).op = "edit" /\ Read(p).status # "none" /\ ~Read(p).deleted
    BY DEF Cmd, Active
  <2> HIDE DEF new, pr
  <2> QED BY <2>1, <2>2, <2>3, <2>4, <2>5, <2>6, PatchDoes
<1>6. CASE Cmd(p).what \notin {"name", "email"} /\ Read(p).status = "active"
           /\ Read(p).role # "instructor" /\ Cmd(p).what = "instructor"
  <2> DEFINE new == [role |-> Cmd(p).what, version |-> NextVersion(p)]
             pr == "active"
  <2>1. /\ Patch(u, new) /\ Commit(p) /\ profile' = [profile EXCEPT ![u] = pr] /\ pr \in Profiles
        /\ UNCHANGED <<exception, teacher, contracted, resets>>
    BY <1>0, <1>6, KnownVersion DEF Cmd, Profiles
  <2>2. Patchable(new)
    BY <1>0, <1>6, KnownVersion DEF Cmd, Patchable, Roles
  <2>3. \A row \in AccountRows : Patches(row, acct[u], new) => Fits(u, row, pr)
    BY <1>0, <1>6, KnownVersion DEF Cmd, Patches, Fits, Active, Teaches, Same
  <2>4. \/ "version" \in DOMAIN new /\ new.version = acct[u].version + 1
        \/ pr = profile[u] /\ \A row \in AccountRows : Patches(row, acct[u], new) => Same(acct[u], row)
    BY <1>0, <1>6, KnownVersion DEF Cmd, Patches, Same
  <2>5. /\ "reset" \in DOMAIN new => new.reset = 0
        /\ "status" \in DOMAIN new => new.status # "none"
    OBVIOUS
  <2>6. Cmd(p).op = "edit" /\ Read(p).status # "none" /\ ~Read(p).deleted
    BY DEF Cmd, Active
  <2> HIDE DEF new, pr
  <2> QED BY <2>1, <2>2, <2>3, <2>4, <2>5, <2>6, PatchDoes
<1>7. CASE Cmd(p).what \notin {"name", "email"} /\ Read(p).status = "active"
           /\ Read(p).role # "instructor" /\ Cmd(p).what # "instructor"
  <2> DEFINE new == [role |-> Cmd(p).what, version |-> NextVersion(p)]
             pr == profile[u]
  <2>1. /\ Patch(u, new) /\ Commit(p) /\ profile' = [profile EXCEPT ![u] = pr] /\ pr \in Profiles
        /\ UNCHANGED <<exception, teacher, contracted, resets>>
    BY <1>0, <1>7, KnownVersion DEF Cmd, Profiles
  <2>2. Patchable(new)
    BY <1>0, <1>7, KnownVersion DEF Cmd, Patchable, Roles
  <2>3. \A row \in AccountRows : Patches(row, acct[u], new) => Fits(u, row, pr)
    BY <1>0, <1>7, KnownVersion DEF Cmd, Patches, Fits, Active, Teaches, Same
  <2>4. \/ "version" \in DOMAIN new /\ new.version = acct[u].version + 1
        \/ pr = profile[u] /\ \A row \in AccountRows : Patches(row, acct[u], new) => Same(acct[u], row)
    BY <1>0, <1>7, KnownVersion DEF Cmd, Patches, Same
  <2>5. /\ "reset" \in DOMAIN new => new.reset = 0
        /\ "status" \in DOMAIN new => new.status # "none"
    OBVIOUS
  <2>6. Cmd(p).op = "edit" /\ Read(p).status # "none" /\ ~Read(p).deleted
    BY DEF Cmd, Active
  <2> HIDE DEF new, pr
  <2> QED BY <2>1, <2>2, <2>3, <2>4, <2>5, <2>6, PatchDoes
<1> QED BY <1>1, <1>2, <1>3, <1>4, <1>5, <1>6, <1>7

-----------------------------------------------------------------------------
(* Steps without the account's key, and the others that are no such patch. *)
LEMMA Sent ==
    ASSUME Sound, NEW p \in Instances, Cmd(p).op # "none"
    PROVE  /\ Cmd(p) \in Requested /\ Cmd(p).id \in Staff /\ acct[Cmd(p).id] \in AccountRows
           /\ profile[Cmd(p).id] \in Profiles /\ exception[Cmd(p).id] \in Modes
           /\ profile = [profile EXCEPT ![Cmd(p).id] = profile[Cmd(p).id]]
           /\ exception = [exception EXCEPT ![Cmd(p).id] = exception[Cmd(p).id]]
           /\ Fits(Cmd(p).id, acct[Cmd(p).id], profile[Cmd(p).id])
           /\ resets \in Nat \ {0} /\ acct[Cmd(p).id].reset < resets
           /\ acct[Cmd(p).id].status = "none" => acct[Cmd(p).id].version = 0
BY Keys, FitNow DEF Sound, Sees, Typed, AccountsTypeOK

LEMMA MinorDoes ==
    ASSUME Sound, NEW p \in Instances, Cmd(p).op # "none", Commit(p),
           NEW u, u = Cmd(p).id, NEW new, Patch(u, new), Patchable(new),
           DOMAIN new \cap {"status", "role", "deleted", "version", "mustChange"} = {},
           UNCHANGED <<profile, exception, teacher, contracted>>,
           resets' \in Nat, resets' >= resets, "reset" \in DOMAIN new => new.reset < resets'
    PROVE  Effect(p)
<1>1. /\ acct'[u] \in AccountRows /\ acct' = [acct EXCEPT ![u] = acct'[u]] /\ Same(acct[u], acct'[u])
      /\ acct'[u].reset < resets'
  <2>0. DOMAIN acct = Staff /\ u \in Staff /\ acct[u].reset \in Nat /\ acct[u].reset < resets /\ resets \in Nat
    BY Sent DEF Sound, Typed, AccountsTypeOK, AccountRows
  <2>1. CASE acct[u].status = "none" \/ acct[u].deleted
    <3>1. acct' = [acct EXCEPT ![u] = acct[u]]
      BY <2>1 DEF Patch
    <3>2. acct'[u] = acct[u]
      BY <2>0, <3>1
    <3> QED BY <2>0, <3>1, <3>2, Sent DEF Same
  <2>2. CASE ~(acct[u].status = "none" \/ acct[u].deleted)
    <3>1. /\ acct'[u] \in AccountRows /\ Patches(acct'[u], acct[u], new)
          /\ acct' = [acct EXCEPT ![u] = acct'[u]]
      BY <2>0, <2>2, Patched DEF Sound
    <3> QED BY <2>0, <3>1 DEF Patches, Same
  <2> QED BY <2>1, <2>2
<1>2. Fits(u, acct'[u], profile[u]) /\ (acct'[u].status = "none" => acct'[u].version = 0)
  BY <1>1, Sent DEF Fits, Same, Active, Teaches
<1> QED BY <1>1, <1>2, Sent, Framed

LEMMA VerifyEmailDoes == ASSUME Sound, NEW p \in Instances, VerifyEmail(p) PROVE Effect(p)
<1> DEFINE new == [verified |-> TRUE, link |-> FALSE]
<1>1. Patchable(new)
  BY DEF Patchable
<1> QED BY <1>1, MinorDoes, Sent DEF VerifyEmail, Running, Cmd

LEMMA ResendVerificationDoes == ASSUME Sound, NEW p \in Instances, ResendVerification(p) PROVE Effect(p)
<1> DEFINE new == [link |-> TRUE]
<1>1. Patchable(new)
  BY DEF Patchable
<1> QED BY <1>1, MinorDoes, Sent DEF ResendVerification, Running, Cmd

LEMMA ForgetPasswordDoes == ASSUME Sound, NEW p \in Instances, ForgetPassword(p) PROVE Effect(p)
<1> DEFINE new == [reset |-> resets]
<1> USE DEF ForgetPassword, Running
<1>0. Cmd(p).op # "none" /\ resets \in Nat
  BY Sent DEF Cmd
<1>1. Patchable(new)
  BY <1>0 DEF Patchable
<1>2. resets' \in Nat /\ resets' >= resets /\ new.reset < resets'
  BY <1>0
<1> QED BY <1>0, <1>1, <1>2, MinorDoes

LEMMA NewRow ==
    ASSUME NEW status \in Statuses, NEW role \in Roles
    PROVE  LET row == [NoAccount EXCEPT !.status = status, !.role = role, !.version = 1, !.verified = TRUE]
           IN  /\ row \in AccountRows /\ row.status = status /\ row.role = role /\ row.version = 1
               /\ row.reset = 0 /\ ~row.deleted
BY DEF NoAccount, AccountRows, Statuses, Roles

LEMMA SignupDoes == ASSUME Sound, NEW p \in Instances, Signup(p) PROVE Effect(p)
<1> DEFINE u == Cmd(p).id
           row == [NoAccount EXCEPT !.status = "pending", !.role = Cmd(p).role, !.version = 1, !.verified = TRUE]
<1> USE DEF Signup, Running
<1>1. Cmd(p).op = "signup" /\ acct[u].status = "none" /\ Cmd(p) \in Requested /\ Cmd(p).role \in Roles
  BY Sent, AccountsConstants DEF Cmd, Assignable
<1>2. /\ row \in AccountRows /\ row.status = "pending" /\ row.version = 1 /\ row.reset = 0
  BY <1>1, NewRow DEF Statuses
<1>3. Fits(u, row, profile[u])
  BY <1>1, <1>2, Sent DEF Fits, Active, Teaches
<1>4. acct' = [acct EXCEPT ![u] = row] /\ Commit(p)
      /\ UNCHANGED <<profile, exception, teacher, contracted, resets>>
  OBVIOUS
<1>5. profile' = [profile EXCEPT ![u] = profile[u]] /\ profile[u] \in Profiles /\ acct[u].version = 0
  BY <1>1, <1>4, Sent
<1>6. /\ row.reset \in {0, acct[u].reset} /\ (row.status = "none" => row.version = 0)
      /\ (Holds(p, u) \/ acct[u].status = "none") /\ row.version = acct[u].version + 1
  BY <1>1, <1>2, <1>5
<1> HIDE DEF row, Signup
<1> QED BY <1>1, <1>2, <1>3, <1>4, <1>5, <1>6, Edited

LEMMA ProvisionDoes == ASSUME Sound, NEW p \in Instances, Provision(p) PROVE Effect(p)
<1> DEFINE u == Cmd(p).id
           row == [NoAccount EXCEPT !.status = "active", !.role = Cmd(p).role, !.version = 1, !.verified = TRUE]
           pr == IF Cmd(p).role = "instructor" THEN "active" ELSE profile[u]
<1> USE DEF Provision, Running
<1>1. Cmd(p).op = "provision" /\ acct[u].status = "none" /\ Cmd(p) \in Requested /\ Cmd(p).role \in Roles
  BY Sent, AccountsConstants DEF Cmd, Assignable
<1>2. /\ row \in AccountRows /\ row.status = "active" /\ row.version = 1 /\ row.reset = 0 /\ ~row.deleted
      /\ row.role = Cmd(p).role
  BY <1>1, NewRow DEF Statuses
<1>3. Fits(u, row, pr)
  BY <1>1, <1>2, Sent DEF Fits, Active, Teaches
<1>4. acct' = [acct EXCEPT ![u] = row] /\ Commit(p) /\ profile' = [profile EXCEPT ![u] = pr] /\ pr \in Profiles
  BY <1>1, Sent DEF Profiles
<1>5. acct[u].version = 0 /\ UNCHANGED <<exception, teacher, contracted, resets>>
  BY <1>1, Sent
<1>6. /\ row.reset \in {0, acct[u].reset} /\ (row.status = "none" => row.version = 0)
      /\ (Holds(p, u) \/ acct[u].status = "none") /\ row.version = acct[u].version + 1
  BY <1>1, <1>2, <1>5
<1> HIDE DEF row, pr, Provision
<1> QED BY <1>1, <1>2, <1>3, <1>4, <1>5, <1>6, Edited

LEMMA RestoreDoes == ASSUME Sound, NEW p \in Instances, Restore(p) PROVE Effect(p)
<1> DEFINE u == Cmd(p).id
           row == [acct[u] EXCEPT !.deleted = FALSE, !.version = NextVersion(p)]
           pr == IF Read(p).role = "instructor" THEN "active" ELSE profile[u]
<1> USE DEF Restore, Running
<1>0. Cmd(p).op = "restore" /\ Read(p).status = "active" /\ Read(p).role # "super_admin" /\ acct[u].deleted
  BY DEF Cmd
<1>1. /\ Cmd(p) \in Requested /\ Holds(p, u) /\ u \in Staff /\ acct[u] \in AccountRows
      /\ acct[u].status = "active" /\ acct[u].role = Read(p).role
      /\ NextVersion(p) = acct[u].version + 1 /\ NextVersion(p) \in Nat
  BY <1>0, Known, KnownVersion DEF Same
<1>2. /\ row \in AccountRows /\ row.status = acct[u].status /\ row.role = acct[u].role /\ ~row.deleted
      /\ row.version = NextVersion(p) /\ row.reset = acct[u].reset
  BY <1>1 DEF AccountRows
<1>3. Fits(u, row, pr)
  BY <1>0, <1>1, <1>2, Sent DEF Fits, Active, Teaches
<1>4. acct' = [acct EXCEPT ![u] = row] /\ Commit(p) /\ profile' = [profile EXCEPT ![u] = pr] /\ pr \in Profiles
  <2>1. acct' = [acct EXCEPT ![u] = row]
    BY <1>1 DEF Sound, Typed, AccountsTypeOK
  <2> QED BY <1>0, <2>1, Sent DEF Profiles, Activated
<1> HIDE DEF row, pr
<1> QED BY <1>0, <1>1, <1>2, <1>3, <1>4, Edited

LEMMA SetPermissionDoes == ASSUME Sound, NEW p \in Instances, SetPermission(p) PROVE Effect(p)
<1> DEFINE u == Cmd(p).id
           new == [version |-> NextVersion(p)]
<1> USE DEF SetPermission, Running
<1>0. Cmd(p).op = "permit" /\ Read(p).status = "active" /\ ~Read(p).deleted
  BY DEF Cmd, Active
<1>1. /\ Cmd(p) \in Requested /\ Holds(p, u) /\ u \in Staff /\ acct[u] \in AccountRows
      /\ acct[u].status # "none" /\ ~acct[u].deleted /\ Cmd(p).mode \in Modes
      /\ NextVersion(p) = acct[u].version + 1 /\ NextVersion(p) \in Nat
  BY <1>0, Known, KnownVersion, AccountsConstants DEF Same
<1>2. Patchable(new)
  BY <1>1 DEF Patchable
<1>3. /\ acct'[u] \in AccountRows /\ Patches(acct'[u], acct[u], new)
      /\ acct' = [acct EXCEPT ![u] = acct'[u]]
  BY <1>1, <1>2, Patched DEF Sound
<1>4. acct'[u].status = acct[u].status /\ acct'[u].version = acct[u].version + 1 /\ acct'[u].reset = acct[u].reset
  BY <1>1, <1>3 DEF Patches
<1>5. Fits(u, acct'[u], profile[u])
  BY <1>0, <1>3, Sent DEF Patches, Fits, Active, Teaches
<1>6. exception' = [exception EXCEPT ![u] = Cmd(p).mode] /\ Commit(p)
      /\ UNCHANGED <<profile, teacher, contracted, resets>>
  OBVIOUS
<1>7. resets' \in Nat /\ resets' >= resets /\ acct'[u].reset < resets'
  BY <1>0, <1>4, <1>6, Sent
<1>8. profile' = [profile EXCEPT ![u] = profile[u]] /\ profile[u] \in Profiles
  BY <1>0, <1>6, Sent
<1>9. /\ (acct'[u].status = "none" => acct'[u].version = 0)
      /\ (Holds(p, u) \/ acct[u].status = "none") /\ acct'[u].version = acct[u].version + 1
  BY <1>1, <1>4
<1> HIDE DEF new, SetPermission
<1> QED BY <1>1, <1>3, <1>5, <1>6, <1>7, <1>8, <1>9, Framed

(* Courses and contracts.                                                  *)
LEMMA TeachingDoes == ASSUME Sound, NEW p \in Instances, TeachingStep(p) PROVE Effect(p)
<1> USE DEF TeachingStep, StaffCourse, CloseCourse, SignContract, EndContract, Running
<1>1. /\ Commit(p) /\ UNCHANGED <<acct, profile, exception, resets>> /\ Cmd(p).op # "none"
      /\ Cmd(p) \in Requested
  BY Sent DEF Cmd
<1>2. Typed' /\ ProfileFollowsAccount'
  <2>1. teacher' \in [Courses -> Staff \cup {NoTeacher}] /\ contracted' \subseteq Staff
    BY <1>1, AccountsConstants DEF Sound, Typed, AccountsTypeOK, Cmd
  <2>2. accountCommits' \in Nat
    BY <1>1 DEF Commit, Sound, Typed, AccountsTypeOK
  <2> QED BY <1>1, <2>1, <2>2 DEF Sound, Typed, AccountsTypeOK, RecordsFit, RolesHaveTheirRecords,
                              ProfileFollowsAccount
<1>3. \A c \in Courses : teacher'[c] \in {teacher[c], NoTeacher}
                         \/ Teaches(acct[teacher'[c]], profile[teacher'[c]])
  <2>1. CASE StaffCourse(p)
    <3>1. Cmd(p).op = "staffCourse" /\ Teaches(Read(p), ReadProfile(p)) /\ Read(p).status # "none"
      BY <2>1 DEF Cmd, Teaches, Active
    <3>2. Teaches(acct[Cmd(p).id], profile[Cmd(p).id])
      BY <3>1, KnownVersion DEF Teaches, Active, Same
    <3> QED BY <2>1, <3>2 DEF Sound, Typed, AccountsTypeOK
  <2>2. CASE CloseCourse(p) \/ SignContract(p) \/ EndContract(p)
    BY <2>2 DEF Sound, Typed, AccountsTypeOK
  <2> QED BY <2>1, <2>2
<1>4. CoursesHaveTeachers'
  BY <1>1, <1>3 DEF Sound, RecordsFit, RolesHaveTheirRecords, CoursesHaveTeachers
<1> QED BY <1>1, <1>2, <1>4 DEF Effect, Commit, RecordsFit, RolesHaveTheirRecords, Same

-----------------------------------------------------------------------------
Acts(p) == Decision(p) \/ SignupStep(p) \/ CredentialStep(p) \/ EmploymentStep(p) \/ TeachingStep(p)

LEMMA ActsHaveEffect == ASSUME Sound, NEW p \in Instances, Acts(p) PROVE Effect(p) /\ Cmd(p).op # "none"
<1>1. CASE Decision(p)
  BY <1>1, ApproveDoes, RejectDoes, SetPermissionDoes DEF Decision, Approve, Reject, SetPermission,
     Running, Cmd
<1>2. CASE SignupStep(p)
  BY <1>2, SignupDoes, VerifyEmailDoes, ResendVerificationDoes, DiscardDoes, ProvisionDoes
     DEF SignupStep, Signup, VerifyEmail, ResendVerification, Discard, Provision, Running, Cmd
<1>3. CASE CredentialStep(p)
  BY <1>3, ChangeCredentialsDoes, ForgetPasswordDoes, ResetByLinkDoes, ResetByCodeDoes,
     RenameLoginDoes
     DEF CredentialStep, ChangeCredentials, ForgetPassword, ResetByLink, ResetByCode, RenameLogin,
         Running, Cmd
<1>4. CASE EmploymentStep(p)
  BY <1>4, EditUserDoes, SetTeachingDoes, TerminateDoes, RestoreDoes, UpdateInstructorDoes,
     RemoveInstructorDoes
     DEF EmploymentStep, EditUser, SetTeaching, Terminate, Restore, UpdateInstructor, RemoveInstructor,
         Running, Cmd
<1>5. CASE TeachingStep(p)
  BY <1>5, TeachingDoes
     DEF TeachingStep, StaffCourse, CloseCourse, SignContract, EndContract, Running, Cmd
<1> QED BY <1>1, <1>2, <1>3, <1>4, <1>5 DEF Acts

LEMMA OnlyDecisionsDecide ==
    ASSUME NEW p \in Instances, Acts(p), Cmd(p).op \in {"approve", "reject", "permit"}
    PROVE  \/ Cmd(p).op \in {"approve", "reject"} /\ InScope(p) /\ Read(p).status # "none"
           \/ /\ Cmd(p).op = "permit" /\ MayDelegate(Cmd(p), ReadActor(p), Read(p))
              /\ Active(Read(p)) /\ Active(ReadActor(p))
<1>1. ~(SignupStep(p) \/ CredentialStep(p) \/ EmploymentStep(p) \/ TeachingStep(p))
  BY DEF SignupStep, Signup, VerifyEmail, ResendVerification, Discard, Provision, CredentialStep,
         ChangeCredentials, ForgetPassword, ResetByLink, ResetByCode, RenameLogin, EmploymentStep, EditUser,
         SetTeaching, Terminate, Restore, UpdateInstructor, RemoveInstructor, TeachingStep,
         StaffCourse, CloseCourse, SignContract, EndContract, Running, Cmd
<1>2. Decision(p)
  BY <1>1 DEF Acts
<1> QED BY <1>2 DEF Decision, Approve, Reject, SetPermission, Running, Cmd

LEMMA SoundStays == ASSUME Sound, UNCHANGED <<accountVars, run>> PROVE Sound'
  BY DEF accountVars, Sound, LocksExclude, Typed, AccountsTypeOK, RecordsFit,
              RolesHaveTheirRecords, ProfileFollowsAccount, CoursesHaveTeachers, Sees, Cmd, Read,
              ReadActor, ReadProfile, Holds

LEMMA AccountsNextSound == ASSUME Sound, AccountsNext PROVE Sound'
<1>1. PICK p \in Instances : BeginAccountCommand(p) \/ RefuseAccountCommand(p) \/ Acts(p)
  BY DEF AccountsNext, Acts
<1> QED BY <1>1, BeginKeeps, RefuseKeeps, ActsHaveEffect, EffectKeeps

LEMMA AlwaysSound == AccountsSpec => []Sound
<1>1. Sound /\ [AccountsNext]_<<accountVars, run>> => Sound'
  BY SoundStays, AccountsNextSound
<1> QED BY InitSound, <1>1, PTL DEF AccountsSpec

-----------------------------------------------------------------------------
(* approve, role changes, terminateUser, restoreUser, courses.assertRefs:  *)
(* who teaches has a profile in force, and what is taught has a teacher.   *)
THEOREM WhoTeachesHasRecords == AccountsSpec => []RolesHaveTheirRecords
<1>1. Sound => RolesHaveTheirRecords
  BY DEF Sound, RecordsFit
<1> QED BY <1>1, AlwaysSound, PTL

(* signup-approval, access-control: whoever decides a sign-up or sets a    *)
(* permission is entitled to it when the decision commits.                 *)
THEOREM Deciders == AccountsSpec => DecidersAreEntitled
<1> DEFINE Entitled(p) ==
        LET c == Cmd(p) IN
        c.op \in {"approve", "reject", "permit"} /\ acct' # acct /\ run'[p] = Idle =>
            /\ Active(acct[c.by])
            /\ c.op # "permit" => MayDecide(acct[c.by].role, acct[c.id].role)
            /\ c.op = "permit" => MayDelegate(c, acct[c.by], acct[c.id])
<1>1. ASSUME Sound, AccountsNext, NEW p \in Instances PROVE Entitled(p)
  <2> SUFFICES ASSUME Cmd(p).op \in {"approve", "reject", "permit"}, acct' # acct, run'[p] = Idle
               PROVE  /\ Active(acct[Cmd(p).by])
                      /\ Cmd(p).op # "permit" => MayDecide(acct[Cmd(p).by].role, acct[Cmd(p).id].role)
                      /\ Cmd(p).op = "permit" => MayDelegate(Cmd(p), acct[Cmd(p).by], acct[Cmd(p).id])
    OBVIOUS
  <2>1. PICK q \in Instances : BeginAccountCommand(q) \/ RefuseAccountCommand(q) \/ Acts(q)
    BY <1>1 DEF AccountsNext, Acts
  <2>2. ~BeginAccountCommand(q) /\ ~RefuseAccountCommand(q)
    BY DEF BeginAccountCommand, RefuseAccountCommand, accountVars
  <2>3. Acts(q) /\ End(q)
    BY <1>1, <2>1, <2>2, ActsHaveEffect DEF Effect
  <2>4. q = p
    <3> SUFFICES ASSUME q # p PROVE FALSE
      OBVIOUS
    <3>1. run'[p] = run[p]
      BY <1>1, <2>3 DEF End, Sound
    <3> QED BY <3>1 DEF Idle, NoCommand, Cmd
  <2>5. /\ Cmd(p).op \in {"approve", "reject"} =>
               Active(ReadActor(p)) /\ MayDecide(ReadActor(p).role, Read(p).role) /\ Read(p).status # "none"
        /\ Cmd(p).op = "permit" =>
               /\ MayDelegate(Cmd(p), ReadActor(p), Read(p))
               /\ Active(Read(p)) /\ Active(ReadActor(p))
    BY <2>3, <2>4, OnlyDecisionsDecide DEF InScope
  <2>6. Active(ReadActor(p)) /\ Read(p).status # "none"
    BY <2>5 DEF Active
  <2>7. Same(ReadActor(p), acct[Cmd(p).by])
    BY <1>1, <2>6, ActorKnown DEF Active
  <2>8. Same(Read(p), acct[Cmd(p).id])
    BY <1>1, <2>6, Known
  <2> QED BY <2>5, <2>6, <2>7, <2>8 DEF Same, Active, MayDelegate
<1>2. ASSUME Sound, [AccountsNext]_<<accountVars, run>>
      PROVE  [\A p \in Instances : Entitled(p)]_<<accountVars, run>>
  BY <1>1, <1>2
<1>3. DecidersAreEntitled <=> [][\A p \in Instances : Entitled(p)]_<<accountVars, run>>
  BY DEF DecidersAreEntitled
<1> HIDE DEF Entitled
<1> QED BY <1>2, <1>3, AlwaysSound, PTL DEF AccountsSpec

(* signup-approval.service.ts:66, roles.guard: authority never changes     *)
(* under the same version.                                                 *)
THEOREM ImplementsAuthority == AccountsSpec => AuthorityIsVersioned
<1>1. NothingRuns /\ AccountsInit => Granted!AuthorityInit
  <2> SUFFICES ASSUME AccountsInit PROVE Granted!AuthorityInit
    OBVIOUS
  <2>1. ASSUME NEW u \in Staff
        PROVE  /\ acct[u].version \in {0, 1}
               /\ claims[u] \in [status : Statuses, deleted : BOOLEAN, role : Roles,
                                   teaching : BOOLEAN, exception : Modes, mustChange : BOOLEAN]
    <3>1. acct[u] \in AccountRows /\ acct[u].version \in {0, 1} /\ exception[u] \in Modes
      BY AccountsConstants DEF AccountsInit, Modes
    <3> QED BY <3>1 DEF AccountRows, claims, Teaches, Active
  <2> QED BY <2>1 DEF Granted!AuthorityInit, authorities
<1>2. ASSUME Sound, [AccountsNext]_<<accountVars, run>>
      PROVE  [Granted!AuthorityNext]_authorities
  <2>1. CASE UNCHANGED accountVars
    BY <2>1 DEF accountVars, authorities, claims
  <2>2. CASE ~UNCHANGED accountVars
    <3>1. PICK p \in Instances : Acts(p)
      BY <1>2, <2>2 DEF AccountsNext, Acts, BeginAccountCommand, RefuseAccountCommand
    <3> DEFINE u == Cmd(p).id
    <3>2. Effect(p) /\ u \in Staff
      BY <1>2, <3>1, ActsHaveEffect, Sent
    <3>3. \A v \in Staff \ {u} : authorities'[v] = authorities[v]
      BY <3>2 DEF Effect, authorities, claims
    <3>4. CASE Same(acct[u], acct'[u]) /\ profile'[u] = profile[u] /\ exception'[u] = exception[u]
      <4>1. authorities'[u] = authorities[u]
        BY <3>2, <3>4 DEF authorities, claims, Same, Teaches, Active
      <4> QED BY <3>3, <4>1 DEF authorities
    <3>5. CASE acct'[u].version = acct[u].version + 1
      <4>1. authorities'[u].claims \in [status : Statuses, deleted : BOOLEAN, role : Roles,
                                        teaching : BOOLEAN, exception : Modes, mustChange : BOOLEAN]
        <5>1. acct'[u] \in AccountRows /\ exception'[u] \in Modes
          BY <3>2 DEF Effect, Typed, AccountsTypeOK
        <5> QED BY <3>2, <5>1 DEF AccountRows, authorities, claims, Teaches, Active
      <4>2. authorities' = [authorities EXCEPT ![u] = [version |-> authorities[u].version + 1,
                                                       claims |-> authorities'[u].claims]]
        BY <3>2, <3>3, <3>5 DEF authorities
      <4> QED BY <3>2, <4>1, <4>2 DEF Granted!AuthorityNext, Granted!Change
    <3> QED BY <3>2, <3>4, <3>5 DEF Effect
  <2> QED BY <2>1, <2>2
<1> QED BY <1>1, <1>2, AlwaysSound, PTL DEF AccountsSpec, AuthorityIsVersioned, Granted!AuthoritySpec

-----------------------------------------------------------------------------
(* Sessions: refresh tokens form chains with one live end, and a chain     *)
(* that has no live end stays without one.                                 *)

TokenRows == [user : Users, version : 0 .. MaxVersion, revoked : BOOLEAN, expired : BOOLEAN, from : Nat]

Shaped ==
    /\ authority \in [Users -> [version : 0 .. MaxVersion, claims : Claims]]
    /\ token \in Seq(TokenRows)
    /\ DOMAIN request = Requests

Chained == OneLiveSuccessor /\ \A t \in Raws : token[t].from \in {0} \cup Raws

(* The row a request holds is one the account can have; who rotates holds  *)
(* a token.                                                                *)
HoldsOf(r) ==
    LET q == request[r] IN
        /\ q.step \in {"login", "rotate", "sign"} => q.user \in Users /\ q.version \in 0 .. MaxVersion
        /\ q.step = "rotate" => q.raw \in Raws

Trusted == Shaped /\ Chained /\ \A r \in Requests : HoldsOf(r)

(* The table only grows: what a row was issued for stays, what is revoked  *)
(* stays revoked, and a new row succeeds a row that this step revokes.     *)
Grown ==
    /\ token' \in Seq(TokenRows)
    /\ Len(token') \in {Len(token), Len(token) + 1}
    /\ \A t \in Raws : /\ token'[t].version = token[t].version
                       /\ token'[t].from = token[t].from
                       /\ token[t].revoked => token'[t].revoked
    /\ Len(token') = Len(token) + 1 =>
         LET from == token'[Len(token) + 1].from IN
         from # 0 => from \in Raws /\ ~token[from].revoked /\ token'[from].revoked

LEMMA GrownRaws ==
    ASSUME Shaped, Grown
    PROVE  /\ Raws = 1 .. Len(token) /\ Len(token) \in Nat /\ Raws \subseteq Raws'
           /\ Raws' = 1 .. Len(token') /\ Len(token') \in Nat
           /\ \A t \in Raws' \ Raws : t = Len(token) + 1 /\ Len(token') = Len(token) + 1
BY DEF Shaped, Grown, Raws

LEMMA GrownChained ==
    ASSUME Shaped, Chained, Grown
    PROVE  Chained'
<1>1. \A t \in Raws : token[t].from \in {0} \cup Raws
  BY DEF Chained
<1>2. \A t \in Raws' \ Raws : token'[t].from # 0 =>
          /\ token'[t].from \in Raws
          /\ ~token[token'[t].from].revoked /\ token'[token'[t].from].revoked
  BY GrownRaws DEF Grown
<1>3. \A t \in Raws : token'[t].from = token[t].from /\ (token[t].revoked => token'[t].revoked)
  BY DEF Grown
<1>4. \A t \in Raws' : token'[t].from \in {0} \cup Raws
  BY <1>1, <1>2, <1>3
<1>5. \A t \in Raws : token[t].from # 0 => token[token[t].from].revoked
  BY DEF Chained, OneLiveSuccessor
<1>6. \A t \in Raws' : token'[t].from # 0 => token'[token'[t].from].revoked
  BY <1>1, <1>2, <1>3, <1>5
<1>7. ASSUME NEW s \in Raws', NEW t \in Raws', s # t, token'[s].from # 0
      PROVE  token'[s].from # token'[t].from
  <2>1. CASE s \in Raws /\ t \in Raws
    BY <1>3, <1>7, <2>1 DEF Chained, OneLiveSuccessor
  <2>2. CASE s \notin Raws /\ t \in Raws
    BY <1>2, <1>3, <1>5, <1>7, <2>2
  <2>3. CASE s \in Raws /\ t \notin Raws
    BY <1>2, <1>3, <1>5, <1>7, <2>3
  <2>4. CASE s \notin Raws /\ t \notin Raws
    BY GrownRaws, <1>7, <2>4
  <2> QED BY <2>1, <2>2, <2>3, <2>4
<1> QED BY <1>4, <1>6, <1>7, GrownRaws DEF Chained, OneLiveSuccessor, Raws

(* What a request holds, it still holds when others move.                  *)
LEMMA GrownHolds ==
    ASSUME Shaped, Grown, NEW r \in Requests, HoldsOf(r), request'[r] = request[r]
    PROVE  HoldsOf(r)'
<1>1. Raws \subseteq Raws'
  BY GrownRaws
<1> QED BY <1>1 DEF HoldsOf

(* A step of r after which r holds what it should.                         *)
LEMMA RequestStep ==
    ASSUME Trusted, Grown, authority' = authority, NEW r \in Requests,
           DOMAIN request' = Requests, \A q \in Requests \ {r} : request'[q] = request[q],
           HoldsOf(r)'
    PROVE  Trusted'
<1>1. Shaped' /\ Chained'
  BY GrownChained DEF Trusted, Shaped, Grown
<1>2. \A q \in Requests : HoldsOf(q)'
  BY GrownHolds DEF Trusted
<1> QED BY <1>1, <1>2 DEF Trusted

(* A step of r after which r holds nothing.                                *)
LEMMA QuietStep ==
    ASSUME Trusted, Grown, authority' = authority, NEW r \in Requests,
           DOMAIN request' = Requests, \A q \in Requests \ {r} : request'[q] = request[q],
           request'[r].step \notin {"login", "rotate", "sign"}
    PROVE  Trusted'
BY RequestStep DEF HoldsOf

LEMMA GoKeeps ==
    ASSUME NEW r \in Requests, NEW new, DOMAIN request = Requests, Go(r, new)
    PROVE  /\ DOMAIN request' = Requests
           /\ \A q \in Requests \ {r} : request'[q] = request[q]
           /\ \A f \in {"step", "user", "raw", "version", "list"} :
                 request'[r][f] = IF f \in DOMAIN new THEN new[f] ELSE request[r][f]
BY DEF Go, Waiting

LEMMA DoneKeeps ==
    ASSUME NEW r \in Requests, DOMAIN request = Requests, Done(r)
    PROVE  /\ DOMAIN request' = Requests
           /\ \A q \in Requests \ {r} : request'[q] = request[q]
           /\ request'[r].step = "idle"
BY DEF Done, Waiting

LEMMA UnchangedGrown == ASSUME Shaped, token' = token PROVE Grown
BY DEF Shaped, Grown, Raws

(* Rows change in nothing but that they are revoked, or expire.            *)
LEMMA RowsGrown ==
    ASSUME Shaped, token' = [i \in Raws |-> token'[i]],
           \A i \in Raws : /\ token'[i] \in TokenRows
                           /\ token'[i].version = token[i].version
                           /\ token'[i].from = token[i].from
                           /\ token[i].revoked => token'[i].revoked
    PROVE  Grown
<1>1. Raws = 1 .. Len(token) /\ Len(token) \in Nat
  BY DEF Shaped, Raws
<1>2. token' \in [1 .. Len(token) -> TokenRows]
  BY <1>1
<1>3. token' \in Seq(TokenRows) /\ Len(token') = Len(token)
  BY <1>1, <1>2
<1>4. Len(token') # Len(token) + 1
  <2>1. \A n \in Nat : n # n + 1
    OBVIOUS
  <2> QED BY <1>1, <1>3, <2>1, Zenon
<1> QED BY <1>3, <1>4 DEF Grown

LEMMA RevokedRow ==
    ASSUME NEW x \in TokenRows
    PROVE  LET y == [x EXCEPT !.revoked = TRUE] IN
           y \in TokenRows /\ y.version = x.version /\ y.from = x.from /\ y.revoked
BY DEF TokenRows

LEMMA ExpiredRow ==
    ASSUME NEW x \in TokenRows
    PROVE  LET y == [x EXCEPT !.expired = TRUE] IN
           y \in TokenRows /\ y.version = x.version /\ y.from = x.from /\ y.revoked = x.revoked
BY DEF TokenRows

LEMMA RowTypes == ASSUME Shaped PROVE \A i \in Raws : token[i] \in TokenRows
BY DEF Shaped, Raws

LEMMA RevokedOne ==
    ASSUME Shaped, NEW t, token' = [token EXCEPT ![t].revoked = TRUE]
    PROVE  Grown
<1>1. /\ token' = [i \in Raws |-> token'[i]]
      /\ \A i \in Raws : token'[i] = token[i] \/ token'[i] = [token[i] EXCEPT !.revoked = TRUE]
  BY Zenon DEF Raws
<1>2. ASSUME NEW i \in Raws
      PROVE  /\ token'[i] \in TokenRows
             /\ token'[i].version = token[i].version
             /\ token'[i].from = token[i].from
             /\ token[i].revoked => token'[i].revoked
  <2>1. CASE token'[i] = token[i]
    BY <2>1, RowTypes
  <2>2. CASE token'[i] = [token[i] EXCEPT !.revoked = TRUE]
    BY <2>2, RowTypes, RevokedRow
  <2> QED BY <1>1, <2>1, <2>2
<1> QED BY <1>1, <1>2, RowsGrown

LEMMA RevokedList ==
    ASSUME Shaped, NEW list, token' = [t \in Raws |-> [token[t] EXCEPT !.revoked = @ \/ t \in list]]
    PROVE  Grown
<1>2. \A i \in Raws : token'[i] = [token[i] EXCEPT !.revoked = @ \/ (i \in list)]
  OBVIOUS
<1>3. ASSUME NEW i \in Raws
      PROVE  /\ token'[i] \in TokenRows
             /\ token'[i].version = token[i].version
             /\ token'[i].from = token[i].from
             /\ token[i].revoked => token'[i].revoked
  <2>1. token[i] \in TokenRows /\ (i \in list) \in BOOLEAN
    BY RowTypes
  <2>2. token'[i] = [token[i] EXCEPT !.revoked = @ \/ (i \in list)]
    BY <1>2
  <2> QED BY <2>1, <2>2 DEF TokenRows
<1>4. token' = [i \in Raws |-> token'[i]]
  OBVIOUS
<1> QED BY <1>3, <1>4, RowsGrown

(* A row is added to rows of which some are revoked.                       *)
LEMMA AppendGrown ==
    ASSUME Shaped, NEW T \in [Raws -> TokenRows], NEW new \in TokenRows, token' = Append(T, new),
           \A i \in Raws : /\ T[i].version = token[i].version
                           /\ T[i].from = token[i].from
                           /\ token[i].revoked => T[i].revoked,
           new.from # 0 => new.from \in Raws /\ ~token[new.from].revoked /\ T[new.from].revoked
    PROVE  /\ Grown
           /\ Len(token') = Len(token) + 1 /\ token'[Len(token) + 1] = new
<1>1. Raws = 1 .. Len(token) /\ Len(token) \in Nat
  BY DEF Shaped, Raws
<1>2. T \in Seq(TokenRows) /\ Len(T) = Len(token)
  BY <1>1
<1>3. /\ token' \in Seq(TokenRows) /\ Len(token') = Len(token) + 1
      /\ token'[Len(token) + 1] = new /\ \A i \in Raws : token'[i] = T[i]
  BY <1>1, <1>2
<1> QED BY <1>1, <1>3 DEF Grown

LEMMA InitTrusted == SessionsInit => Trusted
<1> SUFFICES ASSUME SessionsInit PROVE Trusted
  OBVIOUS
<1>1. authority \in [Users -> [version : 0 .. MaxVersion, claims : Claims]]
  <2>1. authority \in [Users -> [version : {0, 1}, claims : Claims]] /\ \A u \in Users : authority[u].version = 0
    BY DEF SessionsInit, AuthorityInit
  <2>2. \A u \in Users : authority[u] \in [version : 0 .. MaxVersion, claims : Claims]
    BY <2>1, SessionConstants
  <2> QED BY <2>1, <2>2
<1>2. token = <<>> /\ Raws = {}
  BY DEF SessionsInit, Raws
<1>3. DOMAIN request = Requests /\ \A r \in Requests : request[r].step = "idle"
  BY DEF SessionsInit, Waiting
<1> QED BY <1>1, <1>2, <1>3 DEF Trusted, Shaped, Chained, OneLiveSuccessor, HoldsOf

LEMMA FoundRows ==
    ASSUME Shaped, NEW u \in Users
    PROVE  \A row \in Found(u) : row.version \in 0 .. MaxVersion
<1>1. authority[u].version \in 0 .. MaxVersion
  BY DEF Shaped
<1>2. authority[u].version < MaxVersion => authority[u].version + 1 \in 0 .. MaxVersion
  BY <1>1, SessionConstants
<1> QED BY <1>1, <1>2 DEF Found

LEMMA LoginReadTrusted ==
    ASSUME Trusted, NEW r \in Requests, LoginRead(r)
    PROVE  Trusted'
<1>1. PICK u \in Users, old \in {0} \cup Raws : \E row \in Found(u) :
          Go(r, [step |-> "login", user |-> u, raw |-> old, version |-> row.version])
  BY DEF LoginRead
<1>2. PICK row \in Found(u) : Go(r, [step |-> "login", user |-> u, raw |-> old, version |-> row.version])
  BY <1>1
<1> DEFINE new == [step |-> "login", user |-> u, raw |-> old, version |-> row.version]
<1>3. /\ \A f \in {"step", "user", "version"} : f \in DOMAIN new
      /\ new.step = "login" /\ new.user = u /\ new.version = row.version
  OBVIOUS
<1>4. Go(r, new) /\ DOMAIN request = Requests
  BY <1>2 DEF Trusted, Shaped
<1> HIDE DEF new
<1>5. /\ DOMAIN request' = Requests
      /\ \A q \in Requests \ {r} : request'[q] = request[q]
      /\ request'[r].step = "login" /\ request'[r].user = u /\ request'[r].version = row.version
  BY <1>3, <1>4, GoKeeps
<1>6. Grown /\ authority' = authority
  BY UnchangedGrown DEF LoginRead, Trusted
<1>7. HoldsOf(r)'
  BY <1>5, FoundRows DEF HoldsOf, Trusted
<1> QED BY <1>5, <1>6, <1>7, RequestStep

LEMMA RefreshReadTrusted ==
    ASSUME Trusted, NEW r \in Requests, RefreshRead(r)
    PROVE  Trusted'
<1>1. PICK t \in Raws : \E row \in Found(token[t].user) :
         IF row.claims \in MaySignIn /\ row.version = token[t].version
           THEN Go(r, [step |-> "rotate", user |-> token[t].user, raw |-> t, version |-> row.version])
           ELSE Go(r, [step |-> "invalidate", user |-> token[t].user])
  BY DEF RefreshRead
<1>2. PICK row \in Found(token[t].user) :
         IF row.claims \in MaySignIn /\ row.version = token[t].version
           THEN Go(r, [step |-> "rotate", user |-> token[t].user, raw |-> t, version |-> row.version])
           ELSE Go(r, [step |-> "invalidate", user |-> token[t].user])
  BY <1>1
<1>3. Grown /\ authority' = authority /\ token' = token /\ DOMAIN request = Requests
  BY UnchangedGrown DEF RefreshRead, Trusted, Shaped
<1>4. token[t].user \in Users /\ row.version \in 0 .. MaxVersion
  BY RowTypes, FoundRows DEF Trusted, TokenRows
<1>5. CASE Go(r, [step |-> "rotate", user |-> token[t].user, raw |-> t, version |-> row.version])
  <2> DEFINE new == [step |-> "rotate", user |-> token[t].user, raw |-> t, version |-> row.version]
  <2>1. /\ \A f \in {"step", "user", "raw", "version"} : f \in DOMAIN new
        /\ new.step = "rotate" /\ new.user = token[t].user /\ new.raw = t /\ new.version = row.version
    OBVIOUS
  <2>2. Go(r, new)
    BY <1>5
  <2> HIDE DEF new
  <2>3. /\ DOMAIN request' = Requests
        /\ \A q \in Requests \ {r} : request'[q] = request[q]
        /\ request'[r].step = "rotate" /\ request'[r].user = token[t].user
        /\ request'[r].raw = t /\ request'[r].version = row.version
    BY <1>3, <2>1, <2>2, GoKeeps
  <2>4. HoldsOf(r)'
    BY <1>3, <1>4, <2>3 DEF HoldsOf, Raws
  <2> QED BY <1>3, <2>3, <2>4, RequestStep
<1>6. CASE Go(r, [step |-> "invalidate", user |-> token[t].user])
  <2> DEFINE new == [step |-> "invalidate", user |-> token[t].user]
  <2>1. "step" \in DOMAIN new /\ new.step = "invalidate" /\ Go(r, new)
    BY <1>6
  <2> HIDE DEF new
  <2> QED BY <1>3, <2>1, GoKeeps, QuietStep
<1> QED BY <1>2, <1>5, <1>6

LEMMA RowWrittenTrusted ==
    ASSUME Trusted, NEW r \in Requests, RowWritten(r)
    PROVE  Trusted'
<1>1. PICK row \in Found(request[r].user) : Go(r, [version |-> row.version])
  BY DEF RowWritten
<1> DEFINE new == [version |-> row.version]
<1>2. "version" \in DOMAIN new /\ new.version = row.version /\ Go(r, new)
      /\ \A f \in {"step", "user", "raw"} : f \notin DOMAIN new
  BY <1>1
<1> HIDE DEF new
<1>3. /\ DOMAIN request' = Requests
      /\ \A q \in Requests \ {r} : request'[q] = request[q]
      /\ request'[r].step = request[r].step /\ request'[r].user = request[r].user
      /\ request'[r].raw = request[r].raw /\ request'[r].version = row.version
  BY <1>2, GoKeeps DEF Trusted, Shaped
<1>4. Grown /\ authority' = authority /\ token' = token
  BY UnchangedGrown DEF RowWritten, Trusted
<1>5. request[r].user \in Users /\ row.version \in 0 .. MaxVersion
  BY FoundRows DEF Trusted, HoldsOf, RowWritten
<1>6. HoldsOf(r)'
  BY <1>3, <1>4, <1>5 DEF HoldsOf, Trusted, Raws
<1> QED BY <1>3, <1>4, <1>6, RequestStep

(* A token is issued.                                                      *)
Issued == Grown /\ UNCHANGED authority /\ Len(token') = Len(token) + 1

LEMMA LoginTrusted ==
    ASSUME Trusted, NEW r \in Requests, Login(r)
    PROVE  Trusted' /\ Issued
<1> DEFINE q == request[r]
           T == [i \in Raws |-> IF i = q.raw THEN [token[i] EXCEPT !.revoked = TRUE] ELSE token[i]]
           new == NewToken(q.user, q.version, 0)
<1>1. q.step = "login" /\ token' = Append(T, new) /\ Done(r) /\ UNCHANGED authority
  BY DEF Login
<1>2. q.user \in Users /\ q.version \in 0 .. MaxVersion
  BY <1>1 DEF Trusted, HoldsOf
<1>3. \A i \in Raws : /\ T[i] \in TokenRows /\ T[i].version = token[i].version
                      /\ T[i].from = token[i].from /\ (token[i].revoked => T[i].revoked)
  <2> TAKE i \in Raws
  <2>1. T[i] = token[i] \/ T[i] = [token[i] EXCEPT !.revoked = TRUE]
    BY Zenon
  <2> HIDE DEF T
  <2>2. CASE T[i] = token[i]
    BY <2>2, RowTypes DEF Trusted
  <2>3. CASE T[i] = [token[i] EXCEPT !.revoked = TRUE]
    BY <2>3, RowTypes, RevokedRow DEF Trusted
  <2> QED BY <2>1, <2>2, <2>3
<1>4. T \in [Raws -> TokenRows]
  BY <1>3
<1>5. new \in TokenRows /\ new.from = 0
  BY <1>2 DEF NewToken, TokenRows
<1> HIDE DEF T, new
<1>6. Grown /\ Len(token') = Len(token) + 1
  BY <1>1, <1>3, <1>4, <1>5, AppendGrown DEF Trusted
<1>7. Issued
  BY <1>1, <1>6 DEF Issued
<1> HIDE DEF q
<1>8. Trusted'
  BY <1>1, <1>6, DoneKeeps, QuietStep DEF Trusted, Shaped
<1> QED BY <1>7, <1>8

LEMMA RotateTrusted ==
    ASSUME Trusted, NEW r \in Requests, Rotate(r)
    PROVE  Trusted' /\ Issued
<1> DEFINE q == request[r]
           T == [token EXCEPT ![q.raw].revoked = TRUE]
           new == NewToken(q.user, token[q.raw].version, q.raw)
           next == [step |-> "sign", raw |-> Len(token) + 1]
<1>1. /\ q.step = "rotate" /\ StateOf(q.raw) = "valid"
      /\ token' = Append(T, new) /\ Go(r, next) /\ UNCHANGED authority
  BY DEF Rotate
<1>2. q.user \in Users /\ q.version \in 0 .. MaxVersion /\ q.raw \in Raws
  BY <1>1 DEF Trusted, HoldsOf
<1>3. ~token[q.raw].revoked
  BY <1>1 DEF StateOf, Presented
<1>4. \A i \in Raws : /\ T[i] \in TokenRows /\ T[i].version = token[i].version
                      /\ T[i].from = token[i].from /\ (token[i].revoked => T[i].revoked)
                      /\ (i = q.raw => T[i].revoked)
  <2> TAKE i \in Raws
  <2>1. /\ i # q.raw => T[i] = token[i]
        /\ i = q.raw => T[i] = [token[i] EXCEPT !.revoked = TRUE]
    BY Zenon DEF Raws
  <2> HIDE DEF T
  <2>2. CASE i # q.raw
    BY <2>1, <2>2, RowTypes DEF Trusted
  <2>3. CASE i = q.raw
    BY <2>1, <2>3, RowTypes, RevokedRow DEF Trusted
  <2> QED BY <2>2, <2>3
<1>5. T \in [Raws -> TokenRows]
  <2>1. T = [i \in Raws |-> T[i]]
    BY Zenon DEF Raws
  <2> HIDE DEF T
  <2> QED BY <1>4, <2>1
<1>6. new \in TokenRows /\ new.from = q.raw
  <2>1. Raws \subseteq Nat
    BY DEF Trusted, Shaped, Raws
  <2>2. token[q.raw].version \in 0 .. MaxVersion
    BY <1>2, RowTypes DEF Trusted, TokenRows
  <2> QED BY <1>2, <2>1, <2>2 DEF NewToken, TokenRows
<1>7. /\ "step" \in DOMAIN next /\ next.step = "sign"
      /\ "user" \notin DOMAIN next /\ "version" \notin DOMAIN next
  OBVIOUS
<1> HIDE DEF T, new, next
<1>8. Grown /\ Len(token') = Len(token) + 1
  BY <1>1, <1>2, <1>3, <1>4, <1>5, <1>6, AppendGrown DEF Trusted
<1>9. /\ DOMAIN request' = Requests
      /\ \A x \in Requests \ {r} : request'[x] = request[x]
      /\ request'[r].step = "sign" /\ request'[r].user = q.user /\ request'[r].version = q.version
  BY <1>1, <1>7, GoKeeps DEF Trusted, Shaped
<1>10. HoldsOf(r)'
  BY <1>2, <1>9 DEF HoldsOf
<1> QED BY <1>1, <1>8, <1>9, <1>10, RequestStep DEF Issued

(* Steps of a request after which it holds no row.                         *)
LEMMA DoneStep ==
    ASSUME Trusted, Grown, UNCHANGED authority, NEW r \in Requests, Done(r)
    PROVE  Trusted'
BY DoneKeeps, QuietStep DEF Trusted, Shaped

LEMMA ListStep ==
    ASSUME Trusted, Grown, UNCHANGED authority, NEW r \in Requests, NEW new,
           Go(r, new), (IF "step" \in DOMAIN new THEN new.step ELSE request[r].step)
                            \notin {"login", "rotate", "sign"}
    PROVE  Trusted'
<1>1. /\ DOMAIN request' = Requests
      /\ \A q \in Requests \ {r} : request'[q] = request[q]
      /\ request'[r].step \notin {"login", "rotate", "sign"}
  BY GoKeeps DEF Trusted, Shaped
<1> QED BY <1>1, QuietStep

LEMMA QuietActions ==
    ASSUME Trusted, NEW r \in Requests,
           \/ RotateExpired(r) \/ DetectReuse(r) \/ RevokeReused(r) \/ ListTokens(r)
           \/ DropToken(r) \/ LogoutRead(r) \/ Logout(r) \/ SignRefreshed(r)
    PROVE  Trusted'
<1> USE DEF Trusted
<1>1. CASE RotateExpired(r)
  <2>1. Grown /\ Done(r) /\ UNCHANGED authority
    BY <1>1, RevokedOne DEF RotateExpired
  <2> QED BY <2>1, DoneStep
<1>2. CASE DetectReuse(r)
  <2> DEFINE new == [step |-> "revoke", raw |-> 0, version |-> 0,
                     list |-> {t \in TokensOf(request[r].user) : ~token[t].revoked}]
  <2>1. Grown /\ Go(r, new) /\ UNCHANGED authority
    BY <1>2, UnchangedGrown DEF DetectReuse
  <2>2. "step" \in DOMAIN new /\ new.step = "revoke"
    OBVIOUS
  <2> HIDE DEF new
  <2> QED BY <2>1, <2>2, ListStep
<1>3. CASE RevokeReused(r)
  <2>1. Grown /\ Done(r) /\ UNCHANGED authority
    BY <1>3, RevokedList DEF RevokeReused
  <2> QED BY <2>1, DoneStep
<1>4. CASE ListTokens(r)
  <2> DEFINE new == [step |-> "drop",
                     list |-> {t \in TokensOf(request[r].user) : ~token[t].revoked}]
  <2>1. Grown /\ Go(r, new) /\ UNCHANGED authority
    BY <1>4, UnchangedGrown DEF ListTokens
  <2>2. "step" \in DOMAIN new /\ new.step = "drop"
    OBVIOUS
  <2> HIDE DEF new
  <2> QED BY <2>1, <2>2, ListStep
<1>5. CASE DropToken(r)
  <2>1. request[r].step = "drop" /\ UNCHANGED authority
    BY <1>5 DEF DropToken
  <2>2. CASE Done(r) /\ UNCHANGED token
    BY <2>1, <2>2, UnchangedGrown, DoneStep
  <2>3. CASE \E t \in request[r].list :
                /\ token' = [token EXCEPT ![t].revoked = TRUE]
                /\ Go(r, [list |-> request[r].list \ {t}])
    <3>1. PICK t \in request[r].list :
              /\ token' = [token EXCEPT ![t].revoked = TRUE]
              /\ Go(r, [list |-> request[r].list \ {t}])
      BY <2>3
    <3> DEFINE new == [list |-> request[r].list \ {t}]
    <3>2. Grown /\ Go(r, new)
      BY <3>1, RevokedOne
    <3>3. "step" \notin DOMAIN new
      OBVIOUS
    <3> HIDE DEF new
    <3> QED BY <2>1, <3>2, <3>3, ListStep
  <2> QED BY <1>5, <2>2, <2>3 DEF DropToken
<1>6. CASE LogoutRead(r)
  <2>1. PICK t \in Raws : Go(r, [step |-> "logout", raw |-> t])
    BY <1>6 DEF LogoutRead
  <2> DEFINE new == [step |-> "logout", raw |-> t]
  <2>2. Grown /\ Go(r, new) /\ UNCHANGED authority
    BY <1>6, <2>1, UnchangedGrown DEF LogoutRead
  <2>3. "step" \in DOMAIN new /\ new.step = "logout"
    OBVIOUS
  <2> HIDE DEF new
  <2> QED BY <2>2, <2>3, ListStep
<1>7. CASE Logout(r)
  <2>1. Grown /\ Done(r) /\ UNCHANGED authority
    BY <1>7, RevokedOne DEF Logout
  <2> QED BY <2>1, DoneStep
<1>8. CASE SignRefreshed(r)
  BY <1>8, UnchangedGrown, DoneStep DEF SignRefreshed
<1> QED BY <1>1, <1>2, <1>3, <1>4, <1>5, <1>6, <1>7, <1>8

LEMMA ExpireTrusted ==
    ASSUME Trusted, Expire
    PROVE  Trusted' /\ Grown /\ DOMAIN token' = Raws
<1>1. PICK t \in Raws : token' = [token EXCEPT ![t].expired = TRUE]
  BY DEF Expire
<1>2. UNCHANGED <<authority, request>>
  BY DEF Expire
<1>3. /\ token' = [i \in Raws |-> token'[i]]
      /\ \A i \in Raws : token'[i] = token[i] \/ token'[i] = [token[i] EXCEPT !.expired = TRUE]
  BY <1>1, Zenon DEF Raws
<1>4. ASSUME NEW i \in Raws
      PROVE  /\ token'[i] \in TokenRows
             /\ token'[i].version = token[i].version
             /\ token'[i].from = token[i].from
             /\ token[i].revoked => token'[i].revoked
  <2>1. CASE token'[i] = token[i]
    BY <2>1, RowTypes DEF Trusted
  <2>2. CASE token'[i] = [token[i] EXCEPT !.expired = TRUE]
    BY <2>2, RowTypes, ExpiredRow DEF Trusted
  <2> QED BY <1>3, <2>1, <2>2
<1>5. Grown
  BY <1>3, <1>4, RowsGrown DEF Trusted
<1>6. Shaped' /\ Chained'
  BY <1>2, <1>5, GrownChained DEF Trusted, Shaped, Grown
<1>7. \A r \in Requests : HoldsOf(r)'
  BY <1>2, <1>5, GrownHolds DEF Trusted
<1>8. DOMAIN token' = Raws
  BY <1>1, Zenon DEF Raws
<1> QED BY <1>5, <1>6, <1>7, <1>8 DEF Trusted

LEMMA ChangeTrusted ==
    ASSUME Trusted, AccountChanges
    PROVE  Trusted'
<1>1. PICK u \in Users, c \in Claims : authority[u].version < MaxVersion /\ Change(u, c)
  BY DEF AccountChanges
<1>2. UNCHANGED <<token, request>>
  BY DEF AccountChanges
<1>3. authority' = [authority EXCEPT ![u] = [version |-> authority[u].version + 1, claims |-> c]]
  BY <1>1 DEF Change
<1>4. authority[u].version + 1 \in 0 .. MaxVersion
  BY <1>1, SessionConstants DEF Trusted, Shaped
<1>5. Shaped'
  BY <1>2, <1>3, <1>4 DEF Trusted, Shaped
<1> QED BY <1>2, <1>5 DEF Trusted, Chained, OneLiveSuccessor, HoldsOf, Raws

LEMMA NextTrusted == Trusted /\ [SessionsNext]_sessionVars => Trusted'
<1> SUFFICES ASSUME Trusted, [SessionsNext]_sessionVars PROVE Trusted'
  OBVIOUS
<1>1. CASE UNCHANGED sessionVars
  BY <1>1 DEF sessionVars, Trusted, Shaped, Chained, OneLiveSuccessor, HoldsOf, Raws
<1>2. CASE Expire
  BY <1>2, ExpireTrusted
<1>3. CASE AccountChanges
  BY <1>3, ChangeTrusted
<1>4. ASSUME NEW r \in Requests, LoginRead(r) \/ Login(r) \/ RefreshRead(r) \/ Rotate(r) \/ RowWritten(r)
      PROVE  Trusted'
  BY <1>4, LoginReadTrusted, LoginTrusted, RefreshReadTrusted, RotateTrusted, RowWrittenTrusted
<1>5. ASSUME NEW r \in Requests,
             \/ RotateExpired(r) \/ DetectReuse(r) \/ RevokeReused(r) \/ ListTokens(r)
             \/ DropToken(r) \/ LogoutRead(r) \/ Logout(r) \/ SignRefreshed(r)
      PROVE  Trusted'
  BY <1>5, QuietActions
<1> QED BY <1>1, <1>2, <1>3, <1>4, <1>5 DEF SessionsNext

LEMMA AlwaysTrusted == SessionsSpec => []Trusted
<1>1. Trusted /\ [SessionsNext]_sessionVars => Trusted'
  BY NextTrusted
<1>2. SessionsInit => Trusted
  BY InitTrusted
<1> QED BY <1>1, <1>2, PTL DEF SessionsSpec

LEMMA QuietGrown ==
    ASSUME Trusted, NEW r \in Requests,
           \/ LoginRead(r) \/ RefreshRead(r) \/ SignRefreshed(r) \/ RotateExpired(r) \/ DetectReuse(r)
           \/ RevokeReused(r) \/ ListTokens(r) \/ DropToken(r) \/ LogoutRead(r) \/ Logout(r)
           \/ RowWritten(r)
    PROVE  Grown /\ DOMAIN token' = Raws
<1>1. \/ UNCHANGED token
      \/ \E t : token' = [token EXCEPT ![t].revoked = TRUE]
      \/ \E list : token' = [t \in Raws |-> [token[t] EXCEPT !.revoked = @ \/ t \in list]]
  BY DEF LoginRead, RefreshRead, SignRefreshed, RotateExpired, DetectReuse, RevokeReused, ListTokens,
         DropToken, LogoutRead, Logout, RowWritten
<1>2. CASE UNCHANGED token
  BY <1>2, UnchangedGrown DEF Trusted, Raws
<1>3. ASSUME NEW t, token' = [token EXCEPT ![t].revoked = TRUE] PROVE Grown /\ DOMAIN token' = Raws
  <2>1. Grown
    BY <1>3, RevokedOne DEF Trusted
  <2>2. DOMAIN token' = Raws
    BY <1>3, Zenon DEF Raws
  <2> QED BY <2>1, <2>2
<1>4. ASSUME NEW list, token' = [t \in Raws |-> [token[t] EXCEPT !.revoked = @ \/ t \in list]]
      PROVE  Grown /\ DOMAIN token' = Raws
  <2>1. Grown
    BY <1>4, RevokedList DEF Trusted
  <2>2. DOMAIN token' = Raws
    BY <1>4
  <2> QED BY <2>1, <2>2
<1> QED BY <1>1, <1>2, <1>3, <1>4

(* Every step lets the table grow by a token at most, within the bound.    *)
LEMMA EveryStepGrows ==
    ASSUME Trusted, [SessionsNext]_sessionVars
    PROVE  Grown /\ (Len(token) <= MaxTokens => Len(token') <= MaxTokens)
<1>1. ASSUME Grown, DOMAIN token' = Raws PROVE Len(token') = Len(token)
  <2>1. 1 .. Len(token') = 1 .. Len(token) /\ Len(token') \in Nat /\ Len(token) \in Nat
    BY <1>1, GrownRaws DEF Trusted, Raws
  <2>2. Len(token) \in 1 .. Len(token) \/ Len(token) = 0
    BY <2>1
  <2>3. Len(token') \in 1 .. Len(token') \/ Len(token') = 0
    BY <2>1
  <2> QED BY <2>1, <2>2, <2>3
<1>2. CASE UNCHANGED token
  BY <1>1, <1>2, UnchangedGrown DEF Trusted, Raws
<1>3. ASSUME NEW r \in Requests, Login(r) \/ Rotate(r)
      PROVE  Grown /\ Len(token') <= MaxTokens
  <2>1. Issued /\ Len(token) < MaxTokens
    BY <1>3, LoginTrusted, RotateTrusted DEF Login, Rotate
  <2>2. Len(token) \in Nat
    BY DEF Trusted, Shaped
  <2> QED BY <2>1, <2>2, SessionConstants DEF Issued
<1>4. ASSUME NEW r \in Requests,
             \/ LoginRead(r) \/ RefreshRead(r) \/ SignRefreshed(r) \/ RotateExpired(r) \/ DetectReuse(r)
             \/ RevokeReused(r) \/ ListTokens(r) \/ DropToken(r) \/ LogoutRead(r) \/ Logout(r)
             \/ RowWritten(r)
      PROVE  Grown /\ DOMAIN token' = Raws
  BY <1>4, QuietGrown
<1>5. CASE Expire
  BY <1>1, <1>5, ExpireTrusted
<1>6. CASE AccountChanges
  BY <1>2, <1>6 DEF AccountChanges
<1>7. CASE UNCHANGED sessionVars
  BY <1>2, <1>7 DEF sessionVars
<1> QED BY <1>1, <1>3, <1>4, <1>5, <1>6, <1>7 DEF SessionsNext

Bounded == Len(token) <= MaxTokens

LEMMA InitBounded == SessionsInit => Bounded
BY SessionConstants DEF SessionsInit, Bounded

LEMMA NextBounded == ASSUME Trusted, Bounded, SessionsNext PROVE Trusted' /\ Bounded'
BY NextTrusted, EveryStepGrows DEF Bounded

LEMMA SessionsTyped == ASSUME Trusted, Bounded PROVE SessionsTypeOK
<1>1. Len(token) \in Nat /\ Raws = 1 .. Len(token) /\ Raws \subseteq 0 .. MaxTokens /\ 0 \in 0 .. MaxTokens
  BY SessionConstants DEF Trusted, Shaped, Raws, Bounded
<1>2. ASSUME NEW t \in Raws
      PROVE  token[t] \in [user : Users, version : 0 .. MaxVersion, revoked : BOOLEAN,
                           expired : BOOLEAN, from : 0 .. MaxTokens]
  <2>1. token[t] \in TokenRows
    BY RowTypes DEF Trusted
  <2>2. token[t].from \in 0 .. MaxTokens
    BY <1>1 DEF Trusted, Chained
  <2> QED BY <2>1, <2>2 DEF TokenRows
<1> QED BY <1>1, <1>2 DEF SessionsTypeOK, Trusted, Shaped, Bounded

(* rotate: a refresh token has at most one successor, and is revoked once  *)
(* it has one, whoever presents it how often.                              *)
THEOREM Chains == SessionsSpec => []OneLiveSuccessor
<1>1. Trusted => OneLiveSuccessor
  BY DEF Trusted, Chained
<1> QED BY <1>1, AlwaysTrusted, PTL

(* rotate and the revocations: a session whose last token was revoked      *)
(* never gets another, whoever is about to rotate that token.              *)
THEOREM NoSessionComesBack == SessionsSpec => EndedSessionsStayEnded
<1>1. ASSUME Trusted, [SessionsNext]_sessionVars
      PROVE  [\A t \in Raws : Ended(t) => Ended(t)']_sessionVars
  <2>1. Grown
    BY <1>1, EveryStepGrows
  <2>2. ASSUME NEW t \in Raws, Ended(t) PROVE Ended(t)'
    <3>1. token'[t].revoked
      BY <2>1, <2>2 DEF Grown, Ended
    <3>2. ASSUME NEW s \in Raws' PROVE token'[s].from # t
      <4>1. CASE s \in Raws
        BY <2>1, <2>2, <4>1 DEF Grown, Ended
      <4>2. CASE s \notin Raws
        <5>1. s = Len(token) + 1 /\ Len(token') = Len(token) + 1
          BY <1>1, <2>1, <3>2, <4>2, GrownRaws DEF Trusted
        <5>2. token'[s].from # 0 => ~token[token'[s].from].revoked
          BY <2>1, <5>1 DEF Grown
        <5>3. t # 0
          BY <1>1 DEF Trusted, Shaped, Raws
        <5> QED BY <2>2, <5>2, <5>3 DEF Ended
      <4> QED BY <4>1, <4>2
    <3> QED BY <3>1, <3>2 DEF Ended
  <2> QED BY <2>2
<1> QED BY <1>1, AlwaysTrusted, PTL DEF SessionsSpec, EndedSessionsStayEnded

-----------------------------------------------------------------------------
(* Challenges and profile changes: a code is guessed a bounded number of   *)
(* times, a confirmed challenge serves once, and the versions of a profile *)
(* are its approved requests.                                              *)
ChallengeRow ==
    [family : {"signup", "profile"},
     status : {"absent", "pending", "verified", "expired", "locked", "consumed"},
     attempts : 0 .. MaxAttempts, resends : 0 .. MaxResends, late : BOOLEAN]

PersonRow == [active : BOOLEAN, super : BOOLEAN, profileVersion : Nat, value : Values \cup {0}]

RequestRow ==
    [status : {"absent", "pending", "approved", "rejected", "withdrawn"},
     base : Nat, before : Values \cup {0}, value : Values \cup {0}, applied : Nat,
     proof : Challenges \cup {NoProof}]

(* What a decision leaves of a request.                                    *)
SameRequest(a, b) == a.base = b.base /\ a.value = b.value /\ a.proof = b.proof

(* No code of the challenge can be confirmed any more.                     *)
Spent(row) == row.status \in {"expired", "locked", "consumed"}

Countable(row) ==
    /\ row.status = "pending" => row.attempts < MaxAttempts
    /\ row.status = "absent" => row.attempts = 0

ProfilesTyped ==
    /\ challenge \in [Challenges -> ChallengeRow]
    /\ guesses \in [Challenges -> Nat] /\ DOMAIN usedBy = Challenges
    /\ person \in PersonRow
    /\ profileRequest \in [ProfileRequestIds -> RequestRow]

(* Every wrong code is counted in the row, while it is pending.            *)
Counted == \A x \in Challenges : guesses[x] = challenge[x].attempts /\ Countable(challenge[x])

(* A challenge that was used has ended.                                    *)
UsedOnce == \A x \in Challenges :
    usedBy[x] = {} \/ (Spent(challenge[x]) /\ \E purpose : usedBy[x] = {purpose})

Backed == \A r \in ProfileRequestIds :
    LET rq == profileRequest[r] IN
    rq.status # "absent" =>
        IF rq.proof = NoProof THEN rq.value \in PhoneValues ELSE rq.proof \in Challenges /\ r \in usedBy[rq.proof]

ProfileRows == ProfilesTyped /\ Counted /\ UsedOnce /\ Backed /\ ApprovalsAreAChain

(* A command that compares a code keeps others from the row; the version a *)
(* request was made for never changes.                                     *)
ProfileSees(p) ==
    LET c == run[p].cmd IN
    c.op # "none" =>
        /\ c \in ProfileCommands
        /\ Rows(p) \in [Challenges -> ChallengeRow] /\ \A x \in Challenges : Countable(Rows(p)[x])
        /\ Person(p) \in PersonRow /\ SawRequests(p) \in [ProfileRequestIds -> RequestRow]
        /\ c.op \in {"confirm", "resend"} =>
               /\ <<"challenge", c.id>> \in run[p].held
               /\ challenge[c.id].status # "absent"
               /\ Rows(p)[c.id].attempts = challenge[c.id].attempts
        /\ \A r \in ProfileRequestIds :
               SawRequests(p)[r].status # "absent" =>
                   profileRequest[r].status # "absent" /\ SawRequests(p)[r].base = profileRequest[r].base

ProfilesSound ==
    /\ DOMAIN run = Instances /\ LocksExclude
    /\ ProfileRows
    /\ \A p \in Instances : ProfileSees(p)

-----------------------------------------------------------------------------
LEMMA CommandShapes ==
    ASSUME NEW c \in ProfileCommands
    PROVE  /\ c.op # "none"
           /\ c.op \in {"confirm", "resend", "signUp", "changePassword"} => c.id \in Challenges
           /\ c.op = "ask" => c.id \in Challenges \cup {NoProof}
           /\ c.op = "create" => c.family \in {"signup", "profile"}
           /\ c.op \in {"ask", "approve", "reject", "withdraw"} => c.request \in ProfileRequestIds
           /\ c.op \in {"ask", "editProfile"} => c.value \in Values
  BY ProfileConstants

(* The keys a confirmation or another code is asked for under.             *)
LEMMA RowIsLocked ==
    ASSUME NEW c \in ProfileCommands, c.op \in {"confirm", "resend"}
    PROVE  <<"challenge", c.id>> \in ProfileKeys(c)
<1>1. ProfileKeys(c) = KeysOfChallenge(c)
  BY DEF ProfileKeys
<1>2. RowLock(c) \subseteq ChallengeKeys(c)
  BY DEF ChallengeKeys
<1> QED BY <1>1, <1>2 DEF KeysOfChallenge, RowLock

LEMMA ProfilesInitSound == NothingRuns /\ ProfilesInit => ProfilesSound
<1> SUFFICES ASSUME NothingRuns, ProfilesInit PROVE ProfilesSound
  OBVIOUS
<1>1. DOMAIN run = Instances /\ LocksExclude /\ \A p \in Instances : ProfileSees(p)
  BY DEF NothingRuns, Idle, NoCommand, LocksExclude, ProfileSees
<1>2. MaxAttempts \in Nat /\ MaxAttempts > 0 /\ MaxResends \in Nat
  BY ChallengeConstants
<1>3. NoChallenge \in ChallengeRow /\ \A s \in {"consumed", "verified"} : Fresh("profile", s) \in ChallengeRow
  BY <1>2 DEF ChallengeRow, NoChallenge, Fresh
<1>4. guesses = [x \in Challenges |-> 0] /\ person \in PersonRow /\ person.profileVersion = 0
  <2>1. CASE person \in [active : {TRUE}, super : BOOLEAN, profileVersion : {0}, value : {0}]
    <3>1. person = [active |-> TRUE, super |-> person.super, profileVersion |-> 0, value |-> 0]
          /\ person.super \in BOOLEAN
      BY <2>1
    <3> SUFFICES person \in PersonRow /\ person.profileVersion = 0
      BY DEF ProfilesInit
    <3>2. CASE person.super = TRUE
      <4>1. person = [active |-> TRUE, super |-> TRUE, profileVersion |-> 0, value |-> 0]
        BY <3>1, <3>2
      <4> QED BY <4>1 DEF PersonRow
    <3>3. CASE person.super = FALSE
      <4>1. person = [active |-> TRUE, super |-> FALSE, profileVersion |-> 0, value |-> 0]
        BY <3>1, <3>3
      <4> QED BY <4>1 DEF PersonRow
    <3> QED BY <3>1, <3>2, <3>3
  <2>2. CASE person = [active |-> TRUE, super |-> FALSE, profileVersion |-> 0, value |-> 0]
    BY <2>2 DEF ProfilesInit, PersonRow
  <2>3. guesses = [x \in Challenges |-> 0]
    BY DEF ProfilesInit
  <2> QED BY <2>1, <2>2, <2>3 DEF ProfilesInit
<1>5. ProfilesTyped /\ Counted /\ UsedOnce /\ Backed /\ Approved = {}
  <2>1. FirstPending \in RequestRow /\ NoProfileRequest \in RequestRow
    BY ProfileConstants DEF RequestRow, FirstPending, NoProfileRequest
  <2>2. ProfilesTyped
    <3>1. challenge \in [Challenges -> ChallengeRow]
      BY <1>3 DEF ProfilesInit, ChallengesInit
    <3>2. guesses \in [Challenges -> Nat] /\ DOMAIN usedBy = Challenges
      <4>1. guesses \in [Challenges -> Nat]
        BY <1>4
      <4> QED BY <4>1 DEF ProfilesInit, ChallengesInit
    <3>3. profileRequest \in [ProfileRequestIds -> RequestRow]
      BY <2>1 DEF ProfilesInit
    <3> QED BY <1>4, <3>1, <3>2, <3>3 DEF ProfilesTyped
  <2>3. /\ \A x \in Challenges : \/ challenge[x] = NoChallenge /\ usedBy[x] = {}
                                 \/ challenge[x] = Fresh("profile", "consumed") /\ usedBy[x] = {FirstRequest}
                                 \/ challenge[x] = Fresh("profile", "verified") /\ usedBy[x] = {}
        /\ \A r \in ProfileRequestIds : \/ profileRequest[r] = NoProfileRequest
                                        \/ r = FirstRequest /\ profileRequest[r] = FirstPending /\ r \in usedBy[1]
    <3>1. CASE ChallengesInit /\ profileRequest = [r \in ProfileRequestIds |-> NoProfileRequest]
      BY <3>1 DEF ChallengesInit
    <3>2. CASE /\ challenge = [x \in Challenges |-> Fresh("profile", IF x = 1 THEN "consumed" ELSE "verified")]
               /\ usedBy = [x \in Challenges |-> IF x = 1 THEN {FirstRequest} ELSE {}]
               /\ profileRequest = [r \in ProfileRequestIds |->
                                       IF r = FirstRequest THEN FirstPending ELSE NoProfileRequest]
      BY <3>2, ProfileConstants
    <3> QED BY <3>1, <3>2 DEF ProfilesInit
  <2>4. Counted
    BY <1>2, <1>4, <2>3 DEF Counted, Countable, NoChallenge, Fresh
  <2>5. UsedOnce
    BY <2>3 DEF UsedOnce, Spent, Fresh
  <2>6. Backed
    BY <2>3, ProfileConstants DEF Backed, NoProfileRequest, FirstPending, NoProof
  <2>7. Approved = {}
    BY <2>3 DEF Approved, NoProfileRequest, FirstPending
  <2> QED BY <2>2, <2>4, <2>5, <2>6, <2>7
<1>6. ApprovalsAreAChain
  BY <1>4, <1>5, FS_EmptySet DEF ApprovalsAreAChain
<1> QED BY <1>1, <1>5, <1>6 DEF ProfilesSound, ProfileRows

-----------------------------------------------------------------------------
(* What happens to the versions of a profile.                              *)
LEMMA ChainStays ==
    ASSUME ApprovalsAreAChain, person'.profileVersion = person.profileVersion,
           \A r \in ProfileRequestIds : profileRequest'[r].status = "approved" =>
               profileRequest'[r] = profileRequest[r],
           \A r \in ProfileRequestIds : profileRequest[r].status = "approved" =>
               profileRequest'[r] = profileRequest[r]
    PROVE  ApprovalsAreAChain'
<1>1. Approved' = Approved /\ \A r \in Approved : profileRequest'[r] = profileRequest[r]
  BY DEF Approved
<1> QED BY <1>1 DEF ApprovalsAreAChain

LEMMA ChainGrows ==
    ASSUME ApprovalsAreAChain, person.profileVersion \in Nat, NEW r \in ProfileRequestIds,
           profileRequest[r].status # "approved",
           person'.profileVersion = person.profileVersion + 1,
           profileRequest'[r].status = "approved", profileRequest'[r].base = person.profileVersion,
           profileRequest'[r].applied = person.profileVersion + 1,
           \A q \in ProfileRequestIds \ {r} : profileRequest'[q] = profileRequest[q]
    PROVE  ApprovalsAreAChain'
<1> DEFINE v == person.profileVersion
<1>1. Approved' = Approved \cup {r} /\ r \notin Approved
  BY DEF Approved
<1>2. \A q \in Approved : profileRequest'[q] = profileRequest[q]
  BY <1>1 DEF Approved
<1>3. {profileRequest'[q].applied : q \in Approved'} = {profileRequest[q].applied : q \in Approved} \cup {v + 1}
  BY <1>1, <1>2
<1>4. {profileRequest[q].applied : q \in Approved} = 1 .. v
  BY DEF ApprovalsAreAChain
<1>5. (1 .. v) \cup {v + 1} = 1 .. (v + 1)
  OBVIOUS
<1>6. IsFiniteSet(Approved)
  BY ProfileConstants, FS_Subset DEF Approved
<1>7. Cardinality(Approved') = v + 1
  <2>1. Cardinality(Approved \cup {r}) = Cardinality(Approved) + 1
    BY <1>1, <1>6, FS_AddElement
  <2> QED BY <1>1, <2>1 DEF ApprovalsAreAChain
<1>8. \A q \in Approved' : profileRequest'[q].applied = profileRequest'[q].base + 1
  BY <1>1, <1>2 DEF ApprovalsAreAChain
<1> QED BY <1>3, <1>4, <1>5, <1>7, <1>8 DEF ApprovalsAreAChain

-----------------------------------------------------------------------------
(* A step that ends a command keeps what the others have seen, if it keeps *)
(* the rows they have locked.                                              *)
SeenStays(q) ==
    /\ run[q].cmd.op \in {"confirm", "resend"} =>
           LET x == run[q].cmd.id IN
               challenge[x].status # "absent" =>
                   challenge'[x].status # "absent" /\ challenge'[x].attempts = challenge[x].attempts
    /\ \A r \in ProfileRequestIds :
           profileRequest[r].status # "absent" =>
               profileRequest'[r].status # "absent" /\ profileRequest'[r].base = profileRequest[r].base

LEMMA OthersSee ==
    ASSUME NEW q \in Instances, ProfileSees(q), run'[q] = run[q], SeenStays(q)
    PROVE  ProfileSees(q)'
  BY DEF ProfileSees, SeenStays, Rows, Person, SawRequests

LEMMA EndKeeps ==
    ASSUME ProfilesSound, NEW p \in Instances, End(p),
           \A q \in Instances \ {p} : SeenStays(q), ProfileRows'
    PROVE  ProfilesSound'
<1>1. DOMAIN run' = Instances /\ run'[p] = Idle /\ \A q \in Instances \ {p} : run'[q] = run[q]
  BY DEF End, ProfilesSound
<1>2. LocksExclude'
  BY <1>1 DEF LocksExclude, ProfilesSound, Idle
<1>3. ProfileSees(p)'
  BY <1>1 DEF ProfileSees, Idle, NoCommand
<1>4. \A q \in Instances \ {p} : ProfileSees(q)'
  BY <1>1, OthersSee DEF ProfilesSound
<1> QED BY <1>1, <1>2, <1>3, <1>4 DEF ProfilesSound

(* Nobody else compares a code with a row whose key a command holds.       *)
LEMMA OnlyOneCompares ==
    ASSUME ProfilesSound, NEW p \in Instances, NEW q \in Instances \ {p},
           run[p].cmd.op \in {"confirm", "resend"}, run[q].cmd.op \in {"confirm", "resend"}
    PROVE  run[q].cmd.id # run[p].cmd.id
<1>1. <<"challenge", run[p].cmd.id>> \in run[p].held /\ <<"challenge", run[q].cmd.id>> \in run[q].held
  BY DEF ProfilesSound, ProfileSees
<1> QED BY <1>1 DEF ProfilesSound, LocksExclude

-----------------------------------------------------------------------------
LEMMA BeginProfileKeeps ==
    ASSUME ProfilesSound, NEW p \in Instances, BeginProfileCommand(p)
    PROVE  ProfilesSound'
<1> DEFINE saw == [rows |-> challenge, person |-> person, requests |-> profileRequest]
<1>1. PICK c \in ProfileCommands : Addressed(c) /\ Begin(p, c, ProfileKeys(c), saw)
  BY DEF BeginProfileCommand
<1>2. UNCHANGED <<challenge, guesses, usedBy, person, profileRequest>>
  BY DEF BeginProfileCommand, challengeVars
<1>3. /\ DOMAIN run' = Instances /\ run'[p] = [cmd |-> c, held |-> ProfileKeys(c), saw |-> saw]
      /\ \A q \in Instances \ {p} : run'[q] = run[q]
  BY <1>1 DEF Begin, ProfilesSound
<1>4. LocksExclude'
  <2>1. \A q \in Instances \ {p} : run[q].held \cap ProfileKeys(c) = {}
    BY <1>1 DEF Begin, Free
  <2> HIDE DEF saw
  <2> QED BY <2>1, <1>3 DEF LocksExclude, ProfilesSound
<1>5. ProfileRows'
  BY <1>2 DEF ProfilesSound, ProfileRows, ProfilesTyped, Counted, UsedOnce, Backed, ApprovalsAreAChain, Approved
<1>6. ProfileSees(p)'
  <2>1. /\ run'[p].cmd = c /\ run'[p].held = ProfileKeys(c) /\ run'[p].saw.rows = challenge
        /\ run'[p].saw.person = person /\ run'[p].saw.requests = profileRequest
    BY <1>3
  <2>2. c.op \in {"confirm", "resend"} => challenge[c.id].status # "absent"
    <3> SUFFICES ASSUME c.op \in {"confirm", "resend"} PROVE "id" \in DOMAIN c /\ c.id # NoProof
      BY <1>1 DEF Addressed
    <3>1. c \in [op : {"confirm"}, id : Challenges, right : BOOLEAN] \cup [op : {"resend"}, id : Challenges]
      BY ProfileConstants
    <3>2. "id" \in DOMAIN c /\ c.id \in Challenges
      BY <3>1
    <3> QED BY <3>2, ProfileConstants
  <2> QED BY <2>1, <2>2, <1>2, RowIsLocked DEF ProfileSees, Rows, Person, SawRequests, ProfilesSound,
             ProfileRows, ProfilesTyped, Counted
<1>7. \A q \in Instances \ {p} : ProfileSees(q)'
  <2> TAKE q \in Instances \ {p}
  <2>1. SeenStays(q)
    BY <1>2 DEF SeenStays
  <2> QED BY <2>1, <1>3, OthersSee DEF ProfilesSound
<1> QED BY <1>3, <1>4, <1>5, <1>6, <1>7 DEF ProfilesSound

-----------------------------------------------------------------------------
(* One row of a challenge changes: its count of attempts only by a command *)
(* that compares a code with it.                                           *)
RowChanges(p, x, row) ==
    /\ challenge' = [challenge EXCEPT ![x] = row]
    /\ row \in ChallengeRow /\ Countable(row) /\ row.status # "absent"
    /\ row.attempts = challenge[x].attempts \/ (run[p].cmd.op \in {"confirm", "resend"} /\ x = run[p].cmd.id)
    /\ guesses' \in [Challenges -> Nat]
    /\ \A y \in Challenges : guesses'[y] = IF y = x THEN row.attempts ELSE guesses[y]

LEMMA RowChangeCounts ==
    ASSUME ProfilesSound, NEW p \in Instances, NEW x \in Challenges, NEW row, RowChanges(p, x, row)
    PROVE  /\ challenge' \in [Challenges -> ChallengeRow] /\ Counted'
           /\ \A q \in Instances \ {p} : run[q].cmd.op \in {"confirm", "resend"} =>
                  LET y == run[q].cmd.id IN
                      challenge[y].status # "absent" =>
                          challenge'[y].status # "absent" /\ challenge'[y].attempts = challenge[y].attempts
<1>1. challenge \in [Challenges -> ChallengeRow] /\ Counted /\ guesses \in [Challenges -> Nat]
  BY DEF ProfilesSound, ProfileRows, ProfilesTyped
<1>2. challenge' \in [Challenges -> ChallengeRow]
  BY <1>1 DEF RowChanges
<1>3. challenge'[x] = row /\ \A y \in Challenges \ {x} : challenge'[y] = challenge[y]
  BY <1>1 DEF RowChanges
<1>4. Counted'
  <2> SUFFICES ASSUME NEW y \in Challenges
               PROVE  guesses'[y] = challenge'[y].attempts /\ Countable(challenge'[y])
    BY DEF Counted
  <2>1. CASE y = x
    BY <2>1, <1>3 DEF RowChanges
  <2>2. CASE y # x
    BY <2>2, <1>1, <1>3 DEF RowChanges, Counted
  <2> QED BY <2>1, <2>2
<1>5. ASSUME NEW q \in Instances \ {p}, run[q].cmd.op \in {"confirm", "resend"}
      PROVE  LET y == run[q].cmd.id IN
                 challenge[y].status # "absent" =>
                     challenge'[y].status # "absent" /\ challenge'[y].attempts = challenge[y].attempts
  <2>1. run[q].cmd.id \in Challenges
    BY <1>5, CommandShapes DEF ProfilesSound, ProfileSees
  <2>2. CASE run[q].cmd.id # x
    BY <2>1, <2>2, <1>3
  <2>3. CASE run[q].cmd.id = x
    <3>1. row.attempts = challenge[x].attempts
      BY <2>3, <1>5, OnlyOneCompares DEF RowChanges
    <3> QED BY <2>3, <3>1, <1>3 DEF RowChanges
  <2> QED BY <2>2, <2>3
<1> QED BY <1>2, <1>4, <1>5

(* A change that neither consumes the challenge nor touches a request.     *)
LEMMA RowChangeKeeps ==
    ASSUME ProfilesSound, NEW p \in Instances, NEW x \in Challenges, NEW row, RowChanges(p, x, row),
           Spent(challenge[x]) => Spent(row), UNCHANGED <<usedBy, person, profileRequest>>
    PROVE  ProfileRows' /\ \A q \in Instances \ {p} : SeenStays(q)
<1>1. ProfileRows
  BY DEF ProfilesSound
<1>2. ProfilesTyped' /\ Counted'
  BY <1>1, RowChangeCounts DEF ProfileRows, ProfilesTyped, RowChanges
<1>3. challenge'[x] = row /\ \A y \in Challenges \ {x} : challenge'[y] = challenge[y]
  BY <1>1 DEF RowChanges, ProfileRows, ProfilesTyped
<1>4. UsedOnce'
  BY <1>1, <1>3 DEF ProfileRows, UsedOnce
<1>5. Backed' /\ ApprovalsAreAChain'
  BY <1>1 DEF ProfileRows, Backed, ApprovalsAreAChain, Approved
<1>6. \A q \in Instances \ {p} : SeenStays(q)
  BY RowChangeCounts DEF SeenStays
<1> QED BY <1>2, <1>4, <1>5, <1>6 DEF ProfileRows

(* What a confirmation or another code starts from.                        *)
LEMMA Compared ==
    ASSUME ProfilesSound, NEW p \in Instances, run[p].cmd.op \in {"confirm", "resend"}
    PROVE  LET x == run[p].cmd.id IN
           /\ x \in Challenges /\ challenge[x] \in ChallengeRow /\ Row(p) \in ChallengeRow
           /\ challenge[x].status # "absent" /\ Row(p).attempts = challenge[x].attempts
           /\ guesses[x] = challenge[x].attempts /\ guesses \in [Challenges -> Nat]
           /\ Countable(Row(p)) /\ Countable(challenge[x])
<1>1. ProfileSees(p) /\ run[p].cmd.op # "none"
  BY DEF ProfilesSound
<1>2. run[p].cmd.id \in Challenges
  BY <1>1, CommandShapes DEF ProfileSees
<1> QED BY <1>1, <1>2 DEF ProfileSees, Row, ProfilesSound, ProfileRows, ProfilesTyped, Counted

LEMMA FindExpiredKeeps ==
    ASSUME ProfilesSound, NEW p \in Instances, FindExpired(p), UNCHANGED <<person, profileRequest>>
    PROVE  ProfilesSound'
<1> DEFINE x == run[p].cmd.id
           row == [challenge[x] EXCEPT !.status = "expired"]
<1>1. run[p].cmd.op \in {"confirm", "resend"}
  BY DEF FindExpired
<1>2. x \in Challenges /\ challenge[x] \in ChallengeRow
  BY <1>1, Compared
<1>3. RowChanges(p, x, row) /\ Spent(row)
  BY <1>1, <1>2, Compared DEF FindExpired, RowChanges, ChallengeRow, Countable, Spent
<1> HIDE DEF row
<1>4. ProfileRows' /\ \A q \in Instances \ {p} : SeenStays(q)
  BY <1>2, <1>3, RowChangeKeeps DEF FindExpired
<1> QED BY <1>4, EndKeeps DEF FindExpired

LEMMA WrongCodeKeeps ==
    ASSUME ProfilesSound, NEW p \in Instances, WrongCode(p), UNCHANGED <<person, profileRequest>>
    PROVE  ProfilesSound'
<1> DEFINE x == run[p].cmd.id
           n == Row(p).attempts + 1
           row == [challenge[x] EXCEPT !.attempts = n, !.status = IF n >= MaxAttempts THEN "locked" ELSE @]
<1>1. run[p].cmd.op \in {"confirm", "resend"}
  BY DEF WrongCode, Running
<1>2. x \in Challenges /\ challenge[x] \in ChallengeRow
  BY <1>1, Compared
<1>3. n \in 0 .. MaxAttempts /\ n = guesses[x] + 1 /\ n = challenge[x].attempts + 1
  BY <1>1, Compared, ChallengeConstants DEF WrongCode, Countable, ChallengeRow
<1>4. challenge' = [challenge EXCEPT ![x] = row] /\ guesses' = [guesses EXCEPT ![x] = n]
  BY <1>1, <1>2, <1>3, Compared DEF WrongCode
<1>5. row \in ChallengeRow /\ row.attempts = n
      /\ row.status = IF n >= MaxAttempts THEN "locked" ELSE challenge[x].status
  BY <1>2, <1>3 DEF ChallengeRow
<1> HIDE DEF row
<1>6. Countable(row) /\ row.status # "absent" /\ (Spent(challenge[x]) => Spent(row))
  BY <1>1, <1>3, <1>5, Compared, ChallengeConstants DEF Countable, Spent
<1>7. RowChanges(p, x, row)
  BY <1>1, <1>2, <1>4, <1>5, <1>6, Compared DEF RowChanges
<1>8. ProfileRows' /\ \A q \in Instances \ {p} : SeenStays(q)
  BY <1>2, <1>6, <1>7, RowChangeKeeps DEF WrongCode
<1> QED BY <1>8, EndKeeps DEF WrongCode

LEMMA RightCodeKeeps ==
    ASSUME ProfilesSound, NEW p \in Instances, RightCode(p), UNCHANGED <<person, profileRequest>>
    PROVE  ProfilesSound'
<1> DEFINE x == run[p].cmd.id
           row == [challenge[x] EXCEPT !.status = "verified"]
<1>1. run[p].cmd.op \in {"confirm", "resend"}
  BY DEF RightCode, Running
<1>2. x \in Challenges /\ challenge[x] \in ChallengeRow
  BY <1>1, Compared
<1>3. RowChanges(p, x, row) /\ ~Spent(challenge[x])
  BY <1>1, <1>2, Compared DEF RightCode, RowChanges, ChallengeRow, Countable, Spent
<1> HIDE DEF row
<1>4. ProfileRows' /\ \A q \in Instances \ {p} : SeenStays(q)
  BY <1>2, <1>3, RowChangeKeeps DEF RightCode
<1> QED BY <1>4, EndKeeps DEF RightCode

LEMMA AnotherCode ==
    ASSUME NEW x \in ChallengeRow, NEW n \in 0 .. MaxResends
    PROVE  LET y == [x EXCEPT !.resends = n, !.attempts = 0, !.late = FALSE] IN
           y \in ChallengeRow /\ y.attempts = 0 /\ y.status = x.status
<1> DEFINE a == [x EXCEPT !.resends = n]
           b == [a EXCEPT !.attempts = 0]
           y == [b EXCEPT !.late = FALSE]
<1>1. a \in ChallengeRow /\ a.status = x.status
  BY DEF ChallengeRow
<1> HIDE DEF a
<1>2. b \in ChallengeRow /\ b.attempts = 0 /\ b.status = x.status
  BY <1>1, ChallengeConstants DEF ChallengeRow
<1> HIDE DEF b
<1>3. y \in ChallengeRow /\ y.attempts = 0 /\ y.status = x.status
  BY <1>2 DEF ChallengeRow
<1> USE DEF a, b
<1> QED BY <1>3

LEMMA ResendKeeps ==
    ASSUME ProfilesSound, NEW p \in Instances, Resend(p), UNCHANGED <<person, profileRequest>>
    PROVE  ProfilesSound'
<1> DEFINE x == run[p].cmd.id
           row == [challenge[x] EXCEPT !.resends = Row(p).resends + 1, !.attempts = 0, !.late = FALSE]
<1>1. run[p].cmd.op \in {"confirm", "resend"}
  BY DEF Resend, Running
<1>2. x \in Challenges /\ challenge[x] \in ChallengeRow
  BY <1>1, Compared
<1>3. Row(p).resends + 1 \in 0 .. MaxResends
  <2>1. Row(p).resends < MaxResends
    BY DEF Resend, MayResend, Resendable
  <2>2. Row(p).resends \in 0 .. MaxResends
    BY <1>1, Compared DEF ChallengeRow
  <2> QED BY <2>1, <2>2, ChallengeConstants
<1>4. challenge' = [challenge EXCEPT ![x] = row] /\ guesses' = [guesses EXCEPT ![x] = 0]
  BY <1>1, <1>2, <1>3, Compared DEF Resend
<1>5. row \in ChallengeRow /\ row.attempts = 0 /\ row.status = challenge[x].status
  BY <1>2, <1>3, AnotherCode
<1> HIDE DEF row
<1>6. Countable(row) /\ row.status # "absent" /\ (Spent(challenge[x]) => Spent(row))
  BY <1>1, <1>5, Compared, ChallengeConstants DEF Countable, Spent
<1>7. RowChanges(p, x, row)
  BY <1>1, <1>2, <1>4, <1>5, <1>6, Compared DEF RowChanges
<1>8. ProfileRows' /\ \A q \in Instances \ {p} : SeenStays(q)
  BY <1>2, <1>6, <1>7, RowChangeKeeps DEF Resend
<1> QED BY <1>8, EndKeeps DEF Resend

LEMMA LateRow ==
    ASSUME NEW x \in ChallengeRow
    PROVE  LET y == [x EXCEPT !.late = TRUE] IN
           y \in ChallengeRow /\ y.status = x.status /\ y.attempts = x.attempts
  BY DEF ChallengeRow

LEMMA TimePassesKeeps ==
    ASSUME ProfilesSound, TimePasses, UNCHANGED <<person, profileRequest>>
    PROVE  ProfilesSound'
<1>1. PICK x \in Challenges : /\ challenge[x].status \in {"pending", "verified"} /\ ~challenge[x].late
                              /\ challenge' = [challenge EXCEPT ![x].late = TRUE]
  BY DEF TimePasses
<1>2. UNCHANGED <<run, guesses, usedBy, person, profileRequest>>
  BY DEF TimePasses
<1>3. challenge \in [Challenges -> ChallengeRow] /\ challenge[x] \in ChallengeRow
  BY DEF ProfilesSound, ProfileRows, ProfilesTyped
<1>4. /\ challenge' \in [Challenges -> ChallengeRow]
      /\ \A y \in Challenges : /\ challenge'[y].status = challenge[y].status
                               /\ challenge'[y].attempts = challenge[y].attempts
  <2> DEFINE row == [challenge[x] EXCEPT !.late = TRUE]
  <2>1. row \in ChallengeRow /\ row.status = challenge[x].status /\ row.attempts = challenge[x].attempts
    BY <1>3, LateRow
  <2>2. challenge' = [challenge EXCEPT ![x] = row]
    BY <1>1
  <2> HIDE DEF row
  <2> QED BY <1>3, <2>1, <2>2
<1>5. ProfileRows'
  <2>1. ProfileRows
    BY DEF ProfilesSound
  <2>2. ProfilesTyped' /\ Counted'
    BY <1>2, <1>4, <2>1 DEF ProfileRows, ProfilesTyped, Counted, Countable
  <2>3. UsedOnce'
    BY <1>2, <1>4, <2>1 DEF ProfileRows, UsedOnce, Spent
  <2>4. Backed' /\ ApprovalsAreAChain'
    BY <1>2, <2>1 DEF ProfileRows, Backed, ApprovalsAreAChain, Approved
  <2> QED BY <2>2, <2>3, <2>4 DEF ProfileRows
<1>6. \A q \in Instances : ProfileSees(q)'
  <2> TAKE q \in Instances
  <2>1. SeenStays(q)
    <3>1. run[q].cmd.op \in {"confirm", "resend"} => run[q].cmd.id \in Challenges
      BY CommandShapes DEF ProfilesSound, ProfileSees
    <3> QED BY <1>2, <1>4, <3>1 DEF SeenStays
  <2> QED BY <1>2, <2>1, OthersSee DEF ProfilesSound
<1> QED BY <1>2, <1>5, <1>6 DEF ProfilesSound, LocksExclude

LEMMA CreateChallengeKeeps ==
    ASSUME ProfilesSound, NEW p \in Instances, CreateChallenge(p), UNCHANGED <<person, profileRequest>>
    PROVE  ProfilesSound'
<1> DEFINE family == run[p].cmd.family
           gone == Replaced(Rows(p), family)
<1>1. family \in {"signup", "profile"}
  BY CommandShapes DEF ProfilesSound, ProfileSees, CreateChallenge, Running
<1>2. PICK new \in Challenges :
        /\ challenge[new].status = "absent"
        /\ challenge' = [x \in Challenges |->
                           IF x = new THEN Fresh(family, "pending")
                           ELSE IF x \in gone THEN [challenge[x] EXCEPT !.status = "expired"] ELSE challenge[x]]
  BY DEF CreateChallenge
<1>3. challenge \in [Challenges -> ChallengeRow] /\ Counted
  BY DEF ProfilesSound, ProfileRows, ProfilesTyped
<1>4. Fresh(family, "pending") \in ChallengeRow
  BY <1>1, ChallengeConstants DEF Fresh, ChallengeRow
<1>5. \A x \in Challenges : [challenge[x] EXCEPT !.status = "expired"] \in ChallengeRow
  BY <1>3 DEF ChallengeRow
<1>6. challenge'[new].status = "pending" /\ challenge'[new].attempts = 0
  BY <1>2 DEF Fresh
<1>7. \A x \in Challenges \ {new} : /\ challenge'[x].status \in {challenge[x].status, "expired"}
                                    /\ challenge'[x].attempts = challenge[x].attempts
  BY <1>2, <1>3 DEF ChallengeRow
<1> HIDE DEF gone
<1>8. challenge' \in [Challenges -> ChallengeRow]
  BY <1>2, <1>3, <1>4, <1>5
<1>9. UNCHANGED <<guesses, usedBy>>
  BY DEF CreateChallenge
<1>10. Counted'
  BY <1>2, <1>3, <1>6, <1>7, <1>9, ChallengeConstants DEF Counted, Countable
<1>11. UsedOnce'
  BY <1>2, <1>7, <1>9 DEF UsedOnce, Spent, ProfilesSound, ProfileRows
<1>12. ProfileRows'
  BY <1>8, <1>9, <1>10, <1>11 DEF ProfilesSound, ProfileRows, ProfilesTyped, Backed, ApprovalsAreAChain, Approved
<1>13. \A q \in Instances \ {p} : SeenStays(q)
  <2> TAKE q \in Instances \ {p}
  <2>1. run[q].cmd.op \in {"confirm", "resend"} => run[q].cmd.id \in Challenges
    BY CommandShapes DEF ProfilesSound, ProfileSees
  <2> QED BY <1>2, <1>7, <2>1 DEF SeenStays
<1> QED BY <1>12, <1>13, EndKeeps DEF CreateChallenge

-----------------------------------------------------------------------------
(* A challenge is consumed: it was confirmed and served nothing so far.    *)
LEMMA ConsumeCounts ==
    ASSUME ProfilesSound, NEW p \in Instances, NEW x \in Challenges, NEW family, NEW purpose,
           run[p].cmd.op \notin {"none"}, Consume(p, x, family, purpose)
    PROVE  /\ challenge' \in [Challenges -> ChallengeRow] /\ Counted' /\ UsedOnce'
           /\ guesses' \in [Challenges -> Nat] /\ DOMAIN usedBy' = Challenges
           /\ purpose \in usedBy'[x] /\ \A y \in Challenges : usedBy[y] \subseteq usedBy'[y]
           /\ \A y \in Challenges : challenge[y].status # "absent" =>
                /\ challenge'[y].status # "absent"
                /\ challenge'[y].attempts = challenge[y].attempts
<1>1. /\ challenge \in [Challenges -> ChallengeRow] /\ Counted /\ UsedOnce
      /\ guesses \in [Challenges -> Nat] /\ DOMAIN usedBy = Challenges
  BY DEF ProfilesSound, ProfileRows, ProfilesTyped
<1>2. /\ challenge[x].status = "verified" /\ challenge' = [challenge EXCEPT ![x].status = "consumed"]
      /\ usedBy' = [usedBy EXCEPT ![x] = @ \cup {purpose}] /\ guesses' = guesses
  BY DEF Consume, CanConsume, Usable
<1>3. usedBy[x] = {}
  BY <1>1, <1>2 DEF UsedOnce, Spent
<1>4. [challenge[x] EXCEPT !.status = "consumed"] \in ChallengeRow
  BY <1>1 DEF ChallengeRow
<1>5. /\ challenge'[x].status = "consumed" /\ challenge'[x].attempts = challenge[x].attempts
      /\ \A y \in Challenges \ {x} : challenge'[y] = challenge[y]
  BY <1>1, <1>2 DEF ChallengeRow
<1>6. usedBy'[x] = {purpose} /\ \A y \in Challenges \ {x} : usedBy'[y] = usedBy[y]
  BY <1>1, <1>2, <1>3
<1>7. challenge' \in [Challenges -> ChallengeRow]
  BY <1>1, <1>2, <1>4
<1>8. Counted'
  BY <1>1, <1>2, <1>5 DEF Counted, Countable
<1>9. UsedOnce'
  <2> SUFFICES ASSUME NEW y \in Challenges
               PROVE  usedBy'[y] = {} \/ (Spent(challenge'[y]) /\ \E q : usedBy'[y] = {q})
    BY DEF UsedOnce
  <2>1. CASE y = x
    BY <2>1, <1>5, <1>6 DEF Spent
  <2>2. CASE y # x
    <3>1. usedBy'[y] = usedBy[y] /\ challenge'[y] = challenge[y]
      BY <2>2, <1>5, <1>6
    <3>2. usedBy[y] = {} \/ (Spent(challenge[y]) /\ \E q : usedBy[y] = {q})
      BY <1>1 DEF UsedOnce
    <3> QED BY <3>1, <3>2, Zenon DEF Spent
  <2> QED BY <2>1, <2>2
<1> QED BY <1>1, <1>2, <1>3, <1>5, <1>6, <1>7, <1>8, <1>9

LEMMA ConsumeKeeps ==
    ASSUME ProfilesSound, NEW p \in Instances, ConsumeForSignup(p) \/ ConsumeForPassword(p),
           UNCHANGED <<person, profileRequest>>
    PROVE  ProfilesSound'
<1>1. PICK family : Consume(p, run[p].cmd.id, family, run[p].cmd.purpose)
  BY DEF ConsumeForSignup, ConsumeForPassword
<1>2. run[p].cmd.op # "none" /\ run[p].cmd.id \in Challenges
  BY CommandShapes DEF ConsumeForSignup, ConsumeForPassword, Running, ProfilesSound, ProfileSees
<1>3. /\ challenge' \in [Challenges -> ChallengeRow] /\ Counted' /\ UsedOnce'
      /\ guesses' \in [Challenges -> Nat] /\ DOMAIN usedBy' = Challenges
      /\ \A y \in Challenges : usedBy[y] \subseteq usedBy'[y]
      /\ \A y \in Challenges : challenge[y].status # "absent" =>
           /\ challenge'[y].status # "absent"
           /\ challenge'[y].attempts = challenge[y].attempts
  BY <1>1, <1>2, ConsumeCounts
<1>4. Backed'
  BY <1>3 DEF Backed, ProfilesSound, ProfileRows
<1>5. ProfileRows'
  BY <1>3, <1>4 DEF ProfilesSound, ProfileRows, ProfilesTyped, ApprovalsAreAChain, Approved
<1>6. \A q \in Instances \ {p} : SeenStays(q)
  <2> TAKE q \in Instances \ {p}
  <2>1. run[q].cmd.op \in {"confirm", "resend"} => run[q].cmd.id \in Challenges
    BY CommandShapes DEF ProfilesSound, ProfileSees
  <2> QED BY <1>3, <2>1 DEF SeenStays
<1> QED BY <1>5, <1>6, EndKeeps DEF ConsumeForSignup, ConsumeForPassword

-----------------------------------------------------------------------------
(* Requests.  A command that changes no challenge.                         *)
LEMMA RequestKeeps ==
    ASSUME ProfilesSound, NEW p \in Instances, End(p), UNCHANGED challengeVars,
           person' \in PersonRow, profileRequest' \in [ProfileRequestIds -> RequestRow],
           ApprovalsAreAChain',
           \A r \in ProfileRequestIds :
               IF profileRequest[r].status = "absent" THEN profileRequest'[r].status = "absent"
               ELSE profileRequest'[r].status # "absent" /\ SameRequest(profileRequest'[r], profileRequest[r])
    PROVE  ProfilesSound'
<1>1. ProfileRows
  BY DEF ProfilesSound
<1>2. ProfilesTyped' /\ Counted' /\ UsedOnce'
  BY <1>1 DEF ProfileRows, ProfilesTyped, Counted, UsedOnce, challengeVars
<1>3. Backed'
  BY <1>1 DEF ProfileRows, Backed, SameRequest, challengeVars
<1>4. \A q \in Instances : SeenStays(q)
  BY DEF SeenStays, SameRequest, challengeVars
<1> QED BY <1>2, <1>3, <1>4, EndKeeps DEF ProfileRows

LEMMA Decided ==
    ASSUME NEW x \in RequestRow, NEW s \in {"rejected", "withdrawn"}
    PROVE  LET y == [x EXCEPT !.status = s] IN y \in RequestRow /\ y.status = s /\ SameRequest(y, x)
  BY DEF RequestRow, SameRequest

LEMMA ApprovedRow ==
    ASSUME NEW x \in RequestRow, NEW n \in Nat
    PROVE  LET y == [x EXCEPT !.status = "approved", !.applied = n] IN
           y \in RequestRow /\ y.status = "approved" /\ SameRequest(y, x) /\ y.applied = n
<1> DEFINE a == [x EXCEPT !.status = "approved"]
           y == [a EXCEPT !.applied = n]
<1>1. a \in RequestRow /\ a.status = "approved" /\ SameRequest(a, x)
  BY DEF RequestRow, SameRequest
<1> HIDE DEF a
<1>2. y \in RequestRow /\ y.status = "approved" /\ SameRequest(y, x) /\ y.applied = n
  BY <1>1 DEF RequestRow, SameRequest
<1> USE DEF a
<1> QED BY <1>2

LEMMA RejectOrWithdrawKeeps ==
    ASSUME ProfilesSound, NEW p \in Instances, RejectProfile(p) \/ WithdrawProfile(p)
    PROVE  ProfilesSound'
<1> DEFINE r == run[p].cmd.request
<1>1. PICK s \in {"rejected", "withdrawn"} : profileRequest' = [profileRequest EXCEPT ![r].status = s]
  BY DEF RejectProfile, WithdrawProfile
<1>2. r \in ProfileRequestIds /\ profileRequest[r].status = "pending"
  BY CommandShapes DEF RejectProfile, WithdrawProfile, StillPending, Running, ProfilesSound, ProfileSees
<1>3. person \in PersonRow /\ profileRequest \in [ProfileRequestIds -> RequestRow] /\ ApprovalsAreAChain
  BY DEF ProfilesSound, ProfileRows, ProfilesTyped
<1> DEFINE row == [profileRequest[r] EXCEPT !.status = s]
<1>4. row \in RequestRow /\ row.status = s /\ SameRequest(row, profileRequest[r])
  <2>1. profileRequest[r] \in RequestRow
    BY <1>2, <1>3
  <2>2. s \in {"rejected", "withdrawn"}
    BY <1>1
  <2> HIDE DEF r
  <2> QED BY <2>1, <2>2, Decided
<1>5. profileRequest' = [profileRequest EXCEPT ![r] = row]
  BY <1>1
<1> HIDE DEF row
<1>6. profileRequest'[r] = row /\ \A q \in ProfileRequestIds \ {r} : profileRequest'[q] = profileRequest[q]
  BY <1>2, <1>3, <1>5
<1>7. UNCHANGED <<challengeVars, person>> /\ End(p)
  BY DEF RejectProfile, WithdrawProfile
<1>8. ApprovalsAreAChain'
  BY <1>2, <1>3, <1>4, <1>6, <1>7, ChainStays
<1>9. profileRequest' \in [ProfileRequestIds -> RequestRow]
  BY <1>3, <1>4, <1>5
<1>10. \A q \in ProfileRequestIds :
           IF profileRequest[q].status = "absent" THEN profileRequest'[q].status = "absent"
           ELSE profileRequest'[q].status # "absent" /\ SameRequest(profileRequest'[q], profileRequest[q])
  BY <1>2, <1>4, <1>6 DEF SameRequest
<1> QED BY <1>3, <1>7, <1>8, <1>9, <1>10, RequestKeeps

(* What a decision or the representative's request does to the person.     *)
LEMMA Applied ==
    ASSUME ProfilesSound, NEW p \in Instances, run[p].cmd.op # "none", NEW rq,
           ApplyRequest(rq, Person(p)), rq.value \in Values \cup {0}
    PROVE  /\ person' \in PersonRow /\ person'.profileVersion = person.profileVersion + 1
           /\ rq.base = person.profileVersion /\ Person(p).profileVersion = person.profileVersion
           /\ person.profileVersion \in Nat
<1>1. person \in PersonRow
  BY DEF ProfilesSound, ProfileRows, ProfilesTyped
<1> DEFINE a == [person EXCEPT !.value = rq.value]
           b == [a EXCEPT !.profileVersion = person.profileVersion + 1]
<1>2. Person(p).profileVersion = person.profileVersion /\ rq.base = person.profileVersion /\ person' = b
  BY DEF ApplyRequest, Apply, Applicable
<1>3. a \in PersonRow
  BY <1>1 DEF PersonRow
<1> HIDE DEF a
<1>4. b \in PersonRow /\ b.profileVersion = person.profileVersion + 1
  BY <1>1, <1>3 DEF PersonRow
<1> QED BY <1>1, <1>2, <1>4 DEF PersonRow

LEMMA ApproveKeeps ==
    ASSUME ProfilesSound, NEW p \in Instances, ApproveProfile(p)
    PROVE  ProfilesSound'
<1> DEFINE r == run[p].cmd.request
           n == person.profileVersion + 1
           row == [profileRequest[r] EXCEPT !.status = "approved", !.applied = n]
<1>1. ProfileSees(p) /\ run[p].cmd.op = "approve" /\ r \in ProfileRequestIds
  BY CommandShapes DEF ApproveProfile, Running, ProfilesSound, ProfileSees
<1>2. profileRequest[r].status = "pending" /\ Asked(p).status = "pending"
  BY DEF ApproveProfile, StillPending
<1>3. person \in PersonRow /\ profileRequest \in [ProfileRequestIds -> RequestRow] /\ ApprovalsAreAChain
  BY DEF ProfilesSound, ProfileRows, ProfilesTyped
<1>4. Asked(p).base = profileRequest[r].base
  BY <1>1, <1>2 DEF ProfileSees, Asked
<1>5. Asked(p).value \in Values \cup {0}
  BY <1>1 DEF ProfileSees, Asked, RequestRow
<1>6. /\ person' \in PersonRow /\ person'.profileVersion = n /\ person.profileVersion \in Nat
      /\ Asked(p).base = person.profileVersion /\ Person(p).profileVersion = person.profileVersion
  BY <1>1, <1>5, Applied DEF ApproveProfile
<1>7. profileRequest' = [profileRequest EXCEPT ![r] = row]
  BY <1>6 DEF ApproveProfile
<1>8. row \in RequestRow /\ row.status = "approved" /\ SameRequest(row, profileRequest[r]) /\ row.applied = n
  <2>1. n \in Nat /\ profileRequest[r] \in RequestRow
    BY <1>1, <1>3, <1>6
  <2> HIDE DEF n
  <2> QED BY <2>1, ApprovedRow
<1> HIDE DEF row
<1>9. profileRequest'[r] = row /\ \A q \in ProfileRequestIds \ {r} : profileRequest'[q] = profileRequest[q]
  BY <1>1, <1>3, <1>7
<1>10. ApprovalsAreAChain'
  <2>1. row.base = profileRequest[r].base
    BY <1>8 DEF SameRequest
  <2> QED BY <1>1, <1>2, <1>3, <1>4, <1>6, <1>8, <1>9, <2>1, ChainGrows
<1>11. profileRequest' \in [ProfileRequestIds -> RequestRow]
  BY <1>3, <1>7, <1>8
<1>12. \A q \in ProfileRequestIds :
           IF profileRequest[q].status = "absent" THEN profileRequest'[q].status = "absent"
           ELSE profileRequest'[q].status # "absent" /\ SameRequest(profileRequest'[q], profileRequest[q])
  BY <1>2, <1>8, <1>9 DEF SameRequest
<1> QED BY <1>6, <1>10, <1>11, <1>12, RequestKeeps DEF ApproveProfile

(* create: the request is new, and the challenge it names is consumed.     *)
LEMMA Proved ==
    ASSUME ProfilesSound, NEW p \in Instances, run[p].cmd.op = "ask", ProveContact(p)
    PROVE  LET c == run[p].cmd IN
           /\ challenge' \in [Challenges -> ChallengeRow] /\ Counted' /\ UsedOnce'
           /\ guesses' \in [Challenges -> Nat] /\ DOMAIN usedBy' = Challenges
           /\ \A y \in Challenges : usedBy[y] \subseteq usedBy'[y]
           /\ \A y \in Challenges : challenge[y].status # "absent" =>
                /\ challenge'[y].status # "absent"
                /\ challenge'[y].attempts = challenge[y].attempts
           /\ IF c.id = NoProof THEN c.value \in PhoneValues ELSE c.id \in Challenges /\ c.request \in usedBy'[c.id]
<1> DEFINE c == run[p].cmd
<1>1. c.id \in Challenges \cup {NoProof}
  BY CommandShapes DEF ProfilesSound, ProfileSees
<1>2. CASE c.id = NoProof
  <2>1. c.value \in PhoneValues /\ UNCHANGED <<challenge, guesses, usedBy>>
    BY <1>2 DEF ProveContact, challengeVars
  <2>2. ProfilesTyped /\ Counted /\ UsedOnce
    BY DEF ProfilesSound, ProfileRows
  <2>3. Counted' /\ UsedOnce'
    BY <2>1, <2>2 DEF Counted, UsedOnce
  <2> QED BY <1>2, <2>1, <2>2, <2>3 DEF ProfilesTyped
<1>3. CASE c.id # NoProof
  <2>1. Consume(p, c.id, "profile", c.request) /\ c.id \in Challenges
    BY <1>1, <1>3 DEF ProveContact
  <2> QED BY <1>3, <2>1, ConsumeCounts
<1> QED BY <1>2, <1>3

LEMMA AskedFor ==
    ASSUME ProfilesSound, NEW p \in Instances, run[p].cmd.op = "ask", NEW row \in RequestRow,
           row.status # "absent", row.proof = run[p].cmd.id, row.value = run[p].cmd.value,
           profileRequest[run[p].cmd.request].status = "absent",
           profileRequest' = [profileRequest EXCEPT ![run[p].cmd.request] = row],
           ProveContact(p), End(p), person' \in PersonRow, ApprovalsAreAChain'
    PROVE  ProfilesSound'
<1> DEFINE r == run[p].cmd.request
<1>1. r \in ProfileRequestIds
  BY CommandShapes DEF ProfilesSound, ProfileSees
<1>2. profileRequest \in [ProfileRequestIds -> RequestRow] /\ Backed
  BY DEF ProfilesSound, ProfileRows, ProfilesTyped
<1>3. /\ challenge' \in [Challenges -> ChallengeRow] /\ Counted' /\ UsedOnce'
      /\ guesses' \in [Challenges -> Nat] /\ DOMAIN usedBy' = Challenges
      /\ \A y \in Challenges : usedBy[y] \subseteq usedBy'[y]
      /\ \A y \in Challenges : challenge[y].status # "absent" =>
           /\ challenge'[y].status # "absent"
           /\ challenge'[y].attempts = challenge[y].attempts
      /\ IF row.proof = NoProof THEN row.value \in PhoneValues
         ELSE row.proof \in Challenges /\ r \in usedBy'[row.proof]
  BY Proved
<1>4. profileRequest'[r] = row /\ \A q \in ProfileRequestIds \ {r} : profileRequest'[q] = profileRequest[q]
  BY <1>1, <1>2
<1>5. profileRequest' \in [ProfileRequestIds -> RequestRow]
  BY <1>1, <1>2
<1>6. Backed'
  <2> SUFFICES ASSUME NEW q \in ProfileRequestIds, profileRequest'[q].status # "absent"
               PROVE  LET rq == profileRequest'[q] IN
                      IF rq.proof = NoProof THEN rq.value \in PhoneValues
                      ELSE rq.proof \in Challenges /\ q \in usedBy'[rq.proof]
    BY DEF Backed
  <2>1. CASE q = r
    BY <2>1, <1>3, <1>4
  <2>2. CASE q # r
    BY <2>2, <1>2, <1>3, <1>4 DEF Backed
  <2> QED BY <2>1, <2>2
<1>7. ProfileRows'
  BY <1>3, <1>5, <1>6 DEF ProfileRows, ProfilesTyped
<1>8. \A q \in Instances \ {p} : SeenStays(q)
  <2> TAKE q \in Instances \ {p}
  <2>1. run[q].cmd.op \in {"confirm", "resend"} => run[q].cmd.id \in Challenges
    BY CommandShapes DEF ProfilesSound, ProfileSees
  <2>2. \A s \in ProfileRequestIds : profileRequest[s].status # "absent" =>
            profileRequest'[s].status # "absent" /\ profileRequest'[s].base = profileRequest[s].base
    BY <1>4
  <2> QED BY <1>3, <2>1, <2>2 DEF SeenStays
<1> QED BY <1>7, <1>8, EndKeeps

LEMMA AskKeeps ==
    ASSUME ProfilesSound, NEW p \in Instances, AskProfileChange(p)
    PROVE  ProfilesSound'
<1> DEFINE c == run[p].cmd
           row == [status |-> "pending", base |-> Person(p).profileVersion, before |-> Person(p).value,
                   value |-> c.value, applied |-> 0, proof |-> c.id]
<1>1. c.op = "ask" /\ ProfileSees(p) /\ c \in ProfileCommands
  BY DEF AskProfileChange, Running, ProfilesSound, ProfileSees
<1>2. Person(p).profileVersion \in Nat /\ Person(p).value \in Values \cup {0} /\ c.value \in Values
      /\ c.id \in Challenges \cup {NoProof}
  BY <1>1, CommandShapes DEF ProfileSees, PersonRow
<1>3. row \in RequestRow /\ row.status = "pending" /\ row.proof = c.id /\ row.value = c.value
  BY <1>2 DEF RequestRow
<1>4. profileRequest' = [profileRequest EXCEPT ![c.request] = row] /\ profileRequest[c.request].status = "absent"
  BY DEF AskProfileChange
<1> HIDE DEF row
<1>5. /\ person \in PersonRow /\ profileRequest \in [ProfileRequestIds -> RequestRow]
      /\ ApprovalsAreAChain /\ c.request \in ProfileRequestIds
  BY <1>1, CommandShapes DEF ProfilesSound, ProfileRows, ProfilesTyped
<1>6. UNCHANGED person /\ End(p) /\ ProveContact(p)
  BY DEF AskProfileChange
<1>7. ApprovalsAreAChain'
  BY <1>3, <1>4, <1>5, <1>6, ChainStays
<1> QED BY <1>1, <1>3, <1>4, <1>5, <1>6, <1>7, AskedFor

LEMMA AskAndApplyKeeps ==
    ASSUME ProfilesSound, NEW p \in Instances, AskAndApply(p)
    PROVE  ProfilesSound'
<1> DEFINE c == run[p].cmd
           row == [status |-> "approved", base |-> Person(p).profileVersion, before |-> Person(p).value,
                   value |-> c.value, applied |-> Person(p).profileVersion + 1, proof |-> c.id]
<1>1. c.op = "ask" /\ ProfileSees(p) /\ c \in ProfileCommands
  BY DEF AskAndApply, Running, ProfilesSound, ProfileSees
<1>2. Person(p).profileVersion \in Nat /\ Person(p).value \in Values \cup {0} /\ c.value \in Values
      /\ c.id \in Challenges \cup {NoProof}
  BY <1>1, CommandShapes DEF ProfileSees, PersonRow
<1>3. /\ row \in RequestRow /\ row.status = "approved" /\ row.base = Person(p).profileVersion
      /\ row.applied = Person(p).profileVersion + 1 /\ row.value \in Values \cup {0}
      /\ row.proof = c.id /\ row.value = c.value
  BY <1>2 DEF RequestRow
<1>4. /\ profileRequest' = [profileRequest EXCEPT ![c.request] = row]
      /\ profileRequest[c.request].status = "absent" /\ ApplyRequest(row, Person(p))
  BY DEF AskAndApply
<1> HIDE DEF row
<1>5. /\ profileRequest \in [ProfileRequestIds -> RequestRow]
      /\ ApprovalsAreAChain /\ c.request \in ProfileRequestIds
  BY <1>1, CommandShapes DEF ProfilesSound, ProfileRows, ProfilesTyped
<1>6. /\ person' \in PersonRow /\ person'.profileVersion = person.profileVersion + 1
      /\ Person(p).profileVersion = person.profileVersion /\ person.profileVersion \in Nat
  BY <1>1, <1>3, <1>4, Applied
<1>7. End(p) /\ ProveContact(p)
  BY DEF AskAndApply
<1>8. ApprovalsAreAChain'
  <2>1. /\ profileRequest'[c.request] = row
        /\ \A q \in ProfileRequestIds \ {c.request} : profileRequest'[q] = profileRequest[q]
    BY <1>4, <1>5
  <2> HIDE DEF c
  <2> QED BY <1>3, <1>4, <1>5, <1>6, <2>1, ChainGrows
<1> QED BY <1>1, <1>3, <1>4, <1>6, <1>7, <1>8, AskedFor

LEMMA PersonKeeps ==
    ASSUME ProfilesSound, UNCHANGED <<challengeVars, profileRequest>>,
           person' \in PersonRow, person'.profileVersion = person.profileVersion
    PROVE  /\ (\E p \in Instances : End(p)) => ProfilesSound'
           /\ UNCHANGED run => ProfilesSound'
<1>1. ProfileRows
  BY DEF ProfilesSound
<1>2. ApprovalsAreAChain'
  BY <1>1, ChainStays DEF ProfileRows
<1>3. ProfileRows'
  BY <1>1, <1>2 DEF ProfileRows, ProfilesTyped, Counted, UsedOnce, Backed, challengeVars
<1>4. \A q \in Instances : SeenStays(q)
  BY DEF SeenStays, challengeVars
<1>5. ASSUME NEW p \in Instances, End(p) PROVE ProfilesSound'
  BY <1>3, <1>4, <1>5, EndKeeps
<1>6. ASSUME UNCHANGED run PROVE ProfilesSound'
  <2>1. \A q \in Instances : ProfileSees(q)'
    BY <1>4, <1>6, OthersSee DEF ProfilesSound
  <2> QED BY <1>3, <1>6, <2>1 DEF ProfilesSound, LocksExclude
<1> QED BY <1>5, <1>6

LEMMA EditOrLoseKeeps ==
    ASSUME ProfilesSound, LoseAccount \/ \E p \in Instances : EditProfile(p)
    PROVE  ProfilesSound'
<1>1. person \in PersonRow
  BY DEF ProfilesSound, ProfileRows, ProfilesTyped
<1>2. CASE LoseAccount
  <2>1. person' \in PersonRow /\ person'.profileVersion = person.profileVersion
    BY <1>1, <1>2 DEF LoseAccount, PersonRow
  <2> QED BY <1>2, <2>1, PersonKeeps DEF LoseAccount
<1>3. ASSUME NEW p \in Instances, EditProfile(p) PROVE ProfilesSound'
  <2>1. run[p].cmd.value \in Values
    BY <1>3, CommandShapes DEF EditProfile, Running, ProfilesSound, ProfileSees
  <2>2. person' \in PersonRow /\ person'.profileVersion = person.profileVersion
    BY <1>1, <1>3, <2>1 DEF EditProfile, PersonRow
  <2> QED BY <1>3, <2>2, PersonKeeps DEF EditProfile
<1> QED BY <1>2, <1>3

-----------------------------------------------------------------------------
LEMMA ProfilesAreTyped == ASSUME ProfileRows PROVE ProfilesTypeOK
<1>1. ChallengesTypeOK
  BY ChallengeConstants DEF ProfileRows, ProfilesTyped, ChallengesTypeOK, ChallengeRow
<1>2. IsFiniteSet(Approved) /\ Cardinality(Approved) <= Cardinality(ProfileRequestIds)
  BY ProfileConstants, FS_Subset DEF Approved
<1>3. Cardinality(ProfileRequestIds) \in Nat /\ Cardinality(Approved) = person.profileVersion
  BY ProfileConstants, FS_CardinalityType DEF ProfileRows, ApprovalsAreAChain
<1>4. person.profileVersion \in 0 .. Cardinality(ProfileRequestIds) /\ person.value \in Values \cup {0}
  BY <1>2, <1>3 DEF ProfileRows, ProfilesTyped, PersonRow
<1>5. \A r \in ProfileRequestIds :
          profileRequest[r].status \in {"absent", "pending", "approved", "rejected", "withdrawn"}
  BY DEF ProfileRows, ProfilesTyped, RequestRow
<1> QED BY <1>1, <1>4, <1>5 DEF ProfilesTypeOK

LEMMA ProfilesNextKeeps == ASSUME ProfilesSound, ProfilesNext PROVE ProfilesSound'
<1>1. ASSUME NEW p \in Instances, RefuseProfileCommand(p) PROVE ProfilesSound'
  <2>1. End(p) /\ UNCHANGED <<challengeVars, person, profileRequest>>
    BY <1>1 DEF RefuseProfileCommand, Abort, profileVars
  <2> QED BY <2>1, PersonKeeps DEF ProfilesSound, ProfileRows, ProfilesTyped
<1>2. ASSUME NEW p \in Instances, ChallengeStep(p), UNCHANGED <<person, profileRequest>> PROVE ProfilesSound'
  BY <1>2, CreateChallengeKeeps, FindExpiredKeeps, WrongCodeKeeps, RightCodeKeeps, ResendKeeps, ConsumeKeeps
     DEF ChallengeStep
<1>3. CASE TimePasses /\ UNCHANGED <<person, profileRequest, begun>>
  BY <1>3, TimePassesKeeps
<1>4. CASE LoseAccount
  BY <1>4, EditOrLoseKeeps
<1>5. ASSUME NEW p \in Instances,
             \/ BeginProfileCommand(p) \/ AskProfileChange(p) \/ AskAndApply(p) \/ ApproveProfile(p)
             \/ RejectProfile(p) \/ WithdrawProfile(p) \/ EditProfile(p)
      PROVE  ProfilesSound'
  BY <1>5, BeginProfileKeeps, AskKeeps, AskAndApplyKeeps, ApproveKeeps, RejectOrWithdrawKeeps, EditOrLoseKeeps
<1> QED BY <1>1, <1>2, <1>3, <1>4, <1>5 DEF ProfilesNext

-----------------------------------------------------------------------------
(* The three together: a behaviour is one of them, and what the others     *)
(* have stays as it was.                                                   *)
AccessSound ==
    /\ part \in {"accounts", "sessions", "profiles"}
    /\ DOMAIN run = Instances /\ LocksExclude
    /\ Typed /\ RecordsFit /\ Trusted /\ Bounded /\ ProfileRows
    /\ part = "accounts" => Sound
    /\ part = "profiles" => ProfilesSound

LEMMA InitAccessSound == AccessInit => AccessSound
<1> SUFFICES ASSUME AccessInit PROVE AccessSound
  OBVIOUS
<1>1. Sound
  BY InitSound DEF AccessInit
<1>2. Trusted /\ Bounded
  BY InitTrusted, InitBounded DEF AccessInit
<1>3. ProfilesSound
  BY ProfilesInitSound DEF AccessInit
<1> QED BY <1>1, <1>2, <1>3 DEF AccessInit, AccessSound, Sound, ProfilesSound

LEMMA AccountsStay ==
    ASSUME Typed, RecordsFit, UNCHANGED accountVars
    PROVE  (Typed /\ RecordsFit)'
BY DEF accountVars, Typed, AccountsTypeOK, RecordsFit, RolesHaveTheirRecords, ProfileFollowsAccount,
       CoursesHaveTeachers

LEMMA SessionsStay ==
    ASSUME Trusted, Bounded, UNCHANGED sessionVars
    PROVE  (Trusted /\ Bounded)'
<1>1. Trusted'
  BY NextTrusted
<1> QED BY <1>1 DEF sessionVars, Bounded, Raws

LEMMA ProfilesStay ==
    ASSUME ProfileRows, UNCHANGED profileVars
    PROVE  ProfileRows'
BY DEF profileVars, challengeVars, ProfileRows, ProfilesTyped, Counted, UsedOnce, Backed,
       ApprovalsAreAChain, Approved

LEMMA AlwaysAccessSound == AccessSpec => []AccessSound
<1>1. ASSUME AccessSound, part = "accounts", AccountsNext, UNCHANGED <<part, sessionVars, profileVars>>
      PROVE  AccessSound'
  <2>1. Sound'
    BY <1>1, AccountsNextSound DEF AccessSound
  <2> QED BY <1>1, <2>1, SessionsStay, ProfilesStay DEF AccessSound, Sound
<1>2. ASSUME AccessSound, part = "sessions", SessionsNext, UNCHANGED <<part, run, accountVars, profileVars>>
      PROVE  AccessSound'
  <2>1. Trusted' /\ Bounded'
    BY <1>2, NextBounded DEF AccessSound
  <2> QED BY <1>2, <2>1, AccountsStay, ProfilesStay DEF AccessSound, LocksExclude
<1>3. ASSUME AccessSound, part = "profiles", ProfilesNext, UNCHANGED <<part, accountVars, sessionVars>>
      PROVE  AccessSound'
  <2>1. ProfilesSound'
    BY <1>3, ProfilesNextKeeps DEF AccessSound
  <2> QED BY <1>3, <2>1, AccountsStay, SessionsStay DEF AccessSound, ProfilesSound
<1>4. ASSUME AccessSound, UNCHANGED accessVars PROVE AccessSound'
  <2>1. /\ UNCHANGED <<part, run>> /\ UNCHANGED accountVars /\ UNCHANGED sessionVars /\ UNCHANGED profileVars
    BY <1>4 DEF accessVars
  <2>2. Sound => Sound'
    BY <2>1, SoundStays
  <2>3. ProfilesSound => ProfilesSound'
    <3>1. \A q \in Instances : SeenStays(q)
      BY <2>1 DEF SeenStays, profileVars, challengeVars
    <3> QED BY <2>1, <3>1, ProfilesStay, OthersSee DEF ProfilesSound, LocksExclude
  <2> QED BY <1>4, <2>1, <2>2, <2>3, AccountsStay, SessionsStay, ProfilesStay DEF AccessSound, LocksExclude
<1>5. AccessSound /\ [AccessNext]_accessVars => AccessSound'
  BY <1>1, <1>2, <1>3, <1>4 DEF AccessNext
<1> QED BY <1>5, InitAccessSound, PTL DEF AccessSpec

(* Accounts, sessions, challenges and profile changes are well typed, the  *)
(* tokens and versions stay within their bounds, and no two commands hold  *)
(* the same key.                                                           *)
THEOREM AccessIsTyped == AccessSpec => []AccessTypeOK
<1>1. ASSUME AccessSound PROVE AccessTypeOK
  <2>1. AccountsTypeOK
    BY <1>1 DEF AccessSound, Typed
  <2>2. SessionsTypeOK
    BY <1>1, SessionsTyped DEF AccessSound
  <2>3. ProfilesTypeOK
    BY <1>1, ProfilesAreTyped DEF AccessSound
  <2> QED BY <1>1, <2>1, <2>2, <2>3 DEF AccessSound, AccessTypeOK
<1> QED BY <1>1, AlwaysAccessSound, PTL

(* confirm and resend: however the requests for a code, its confirmations  *)
(* and the repetitions of it interleave, nobody guesses more than          *)
(* MaxAttempts times before another code is sent.                          *)
THEOREM GuessesAreBounded == AccessSpec => []BoundedGuesses
<1>1. AccessSound => BoundedGuesses
  BY ChallengeConstants
     DEF AccessSound, ProfileRows, ProfilesTyped, Counted, ChallengeRow, BoundedGuesses
<1> QED BY <1>1, AlwaysAccessSound, PTL

(* consumeForRequest: a confirmed challenge serves one purpose, once; a    *)
(* request for a change of profile was served by the challenge it names,   *)
(* alone, and only one for another telephone number names none.            *)
THEOREM ProofsServeOnce == AccessSpec => []OneProofEach
<1>1. ASSUME AccessSound PROVE OneProofEach
  <2>1. ProfilesTyped /\ UsedOnce /\ Backed
    BY <1>1 DEF AccessSound, ProfileRows
  <2>2. \A x \in Challenges : Cardinality(usedBy[x]) <= 1
    <3> TAKE x \in Challenges
    <3>1. CASE usedBy[x] = {}
      BY <3>1, FS_EmptySet
    <3>2. ASSUME NEW purpose, usedBy[x] = {purpose} PROVE Cardinality(usedBy[x]) <= 1
      <4>1. Cardinality({purpose}) = 1
        BY FS_Singleton
      <4> QED BY <3>2, <4>1
    <3> QED BY <2>1, <3>1, <3>2 DEF UsedOnce
  <2>3. \A r \in ProfileRequestIds : profileRequest[r].status # "absent" => Proven(r)
    <3> SUFFICES ASSUME NEW r \in ProfileRequestIds, profileRequest[r].status # "absent" PROVE Proven(r)
      OBVIOUS
    <3> DEFINE x == profileRequest[r].proof
    <3>1. CASE x = NoProof
      BY <2>1, <3>1 DEF Backed, Proven
    <3>2. CASE x # NoProof
      <4>1. x \in Challenges /\ r \in usedBy[x]
        BY <2>1, <3>2 DEF Backed
      <4>2. usedBy[x] = {r}
        BY <2>1, <4>1 DEF UsedOnce
      <4> QED BY <3>2, <4>2 DEF Proven
    <3> QED BY <3>1, <3>2
  <2> QED BY <2>2, <2>3 DEF OneProofEach
<1> QED BY <1>1, AlwaysAccessSound, PTL

(* decide and create: the versions of a profile are its approved requests, *)
(* each made for the version before; none is lost or applied twice.        *)
THEOREM ApprovalsChain == AccessSpec => []ApprovalsAreAChain
<1>1. AccessSound => ApprovalsAreAChain
  BY DEF AccessSound, ProfileRows
<1> QED BY <1>1, AlwaysAccessSound, PTL
=============================================================================
