# Verification of the academy backend

TLA+ models of the NestJS/Postgres backend in `src/`, the TLC runs that check
them on small instances, and TLAPS proofs of what holds for every instance.
`PROJECT.json` maps each definition to the lines it stands for, lists the
hazards of the code with the properties that would catch them, and names a
mutant for every property.

## 1. The system

The backend runs as several serverless instances against one Postgres
database. Three mechanisms are shared by everything that follows.

* **Unit of work** (`database/calendar-unit-of-work.service.ts`). A command is
  one Postgres transaction, READ COMMITTED. `lockTargets` sorts a set of
  `(kind, id)` keys and takes `pg_advisory_xact_lock` for each; the locks go
  with the transaction. A command may call it several times, and commands call
  other commands inside their transaction.
* **Mirror** (`database/in-memory.database.ts`). Each instance keeps the tables
  in memory. Commands measure and validate over the mirror after refreshing it
  (`hydrate`); writes go to Postgres and then to the mirror. Transactions of
  one instance queue up in a global FIFO, so an instance runs one command at a
  time; a rollback restores the mirror's snapshot.
* **Conditional UPDATE** (`postgres-collection.store.ts` `updateIf`,
  `class-sessions.store.ts` `claimPayout`). A row changes only if the named
  columns still have the values that were read. After waiting for the row lock
  of another transaction, Postgres evaluates the condition again.

### Components

| Part | State | Operations | Must be true |
|---|---|---|---|
| payouts | `instructor_payouts`, `class_sessions.payout_id/is_paid/paid_payout_id`, ledger | generate(Bulk), confirm, unconfirm, adjust, reject, pay, reverse | no session is paid twice; ledger, status, links and flags agree; nothing settled changes |
| schedule | `class_sessions`, series, materials | create, series, open class, update, scope update, assign, pay amount, remove | no double booking; a settled session keeps its price; what hangs on a lesson is not lost unseen |
| attendance, reports | attendance rows, `session_reports` and their revisions | record, clear; create, update, submit, approve, reject, revise | a lesson is held exactly when its roster is complete; an approved text is the approved one |
| schedule requests | `schedule_requests` | create (bulk), update, approve, reject, withdraw, attendance corrections | decided once; an approval does what was requested; a replay is the same request |
| availability | `availability_blocks` | upsert, remove | blocked time and lessons exclude each other |
| payments | `payments`, ledger, audit | create, update, markPaid, refund | collected = billed; one row in, at most one out |
| expenses | `expenses`, ledger, audit | create, update, withdraw, approve, reject | only an approved expense is in the ledger; complete audit trail |
| accounts, signup, roles, access control | `users`, profiles, overrides, `auth_version` | sign up, verify, approve, reject, provision, edit, terminate, restore, passwords, permissions | who teaches has a profile; who decides may decide; authority changes with its version |
| refresh tokens | `auth_refresh_tokens` | login, refresh, rotate, reuse detection, logout | one live successor; a session that ended stays ended |
| challenges | signup, recovery and profile codes | create, resend, confirm, consume | guesses are bounded; a confirmation is used once |
| profile change requests | `profile_change_requests`, `profile_version` | ask, withdraw, approve, reject | approvals build on one another |
| students, parents, interests, registrations | students, guardians, relatives, school periods, wishes | register, link, unlink, edit, remove | nothing names a student who is gone; periods and ranks are consistent; one guardian per intake |
| courses, subjects, roadmaps, enrollments | the rows of that name | create, move, remove, link, reorder, enrol, end | an enrolment rests on what exists; an order has no gaps |
| counsel | cards and rounds | open, edit, convert, rounds, remove | a card becomes one enrolment; its next contact is the latest round's |
| staff attendance, contracts | the rows of that name | attend, amend, contract | one contract a day |
| report templates | `report_templates` | add, edit, drop | one default and one enforced template a scope |
| advisory locks | lock table of Postgres | lockTargets, commit | no deadlock; every command ends |
| mirror and stores | one copy of the tables per instance | hydrate, insert, update, remove, restore, rollback | what a command has locked it sees as it is; an undone command leaves nothing |
| migrations | schema, `schema_migrations` | 55 scripts run by hand, boots | a recorded migration did what it says |

`PROJECT.json` gives every component its sources and its status.

### How they interact

`payouts.generate` prices sessions from the schedule's rows and the reports'
approvals, and writes `payout_id` into those rows. Schedule, attendance and
reports refuse changes to a row that carries `payout_id` or `is_paid`
(`session-accounting-guard.service.ts`), and ask the client to acknowledge what
else an edit does to hours and pay. These services share the *session*
advisory lock; `generate` and `reject` share the *instructor* lock; `pay`,
`reverse`, `confirm`, `unconfirm` and `adjust` share the *payout* lock. `pay`
and `reject` therefore share no lock and meet only at the conditional UPDATE.
`markPaid`, `refund`, `approve` and `pay`/`reverse` append to the one ledger
(`transactions`). `schedule.openClass`, `updateInstructorAssignment`,
`counsel.convert` and `registrations.register` call commands of courses,
enrollments and students inside their transaction. Everything an account may
do reaches the other services through an access token and the version it
carries. The approval of a request runs the schedule's or attendance's own
command in its transaction.

### What is hard

* commands of different instances between a read and the write that uses it;
* rows read into the mirror before a lock is held, used after it, or replaced
  by a GET meanwhile;
* several lock orders, and commands nested in commands;
* a status, its ledger row and its audit row that must change together, with
  any step failing or the instance dying;
* retries after an answer was lost, long chains of settle, reverse, resettle;
* decisions about what somebody saw earlier: previews, requests, versions;
* migration scripts that stop half-way, are run again, in any order, or two at
  a time, over rows the application goes on writing.

The hazards in `PROJECT.json` list these at their lines.

## 2. Modules

| Module | Models | Variables and code |
|---|---|---|
| `MoneyLedger` | what each money service promises about `transactions` | `ledger` = the table, `stage` = open, booked or compensated |
| `PayoutSettlement` | payouts, and the commands that change what a session is worth | `session`, `report`, `payout`, `ledger` = tables; `holder` = advisory locks; `pc`, `cmd`, `want`, `mirror`, `quote`, `row` = the locals of the command each instance runs; `covered` = history |
| `PaymentLedger`, `ExpenseLedger` | payments; expenses, which take no advisory lock | `payment` or `expense`, `ledger`, `audit` = tables; `mirror` = each instance's copy of the payments; `holder`, `pc`, `cmd`, `row` |
| `Ledgers` | the two of them together | instances of both |
| `AdvisoryLocks` | lock programs of the commands with several `lockTargets` calls | `program` = the calls left, `held` = the keys |
| `UnitOfWork` | a command with its keys and the rows it refreshed | `run` = command, keys and rows, by instance |
| `Timetable` | sessions, series, blocks, and the requests that change them | `session`, `blocked`, `request` = tables; `run` = the command each instance runs; `secured` = history |
| `Lessons` | the facts of lessons: teacher, roster, attendance, reports, price | `lesson`, `marked`, `written`, ... = tables |
| `LessonRequests` | attendance corrections, bulk requests under an idempotency key | on top of `Lessons` |
| `Templates` | report templates and their scopes | `template` = the table |
| `Authority` | a version that changes with what an account may do (abstract) | `authority` |
| `Accounts` | accounts from sign-up to termination; implements `Authority` | accounts, profiles, overrides, courses, contracts |
| `Sessions` | login, refresh and logout over `Authority` | `token` = the table, `request` = what a request has read or holds |
| `Challenges`, `ProfileRequests` | one-time codes; changes of one's own profile | challenges, their uses; requests, the profile |
| `Families`, `Studies`, `Counsel`, `Staffing` | the records of those names | one variable per table |
| `Mirror` | one table and its copy in a process | `db`, `mirror`; `tx`, `fetched`, `applying` = what is between two awaits |
| `SchemaChanges`, `MigrationScripts`, `Migrations` | what SQL does to a catalogue; every migration and script; operators who run them | `shape`, `dirty`, `recorded` = the database; `doing`, `at`, `held` = the scripts |
| `Access`, `Records`, `Classwork` | the parts one run checks; a behaviour is one of them | `part` |
| `PayoutSettlementProofs`, `AdvisoryLocksProofs`, `TimetableProofs`, `AccessProofs`, `LedgersProofs`, `RecordsProofs`, `ClassworkProofs` | theorems about the module of that name | |
| `StudiesProofs` | the part of `RecordsProofs` that is about `Studies` and `Counsel`, with the lemmas about keys and ranks that both use | |
| `MC*` | constants, command sets and symmetry for TLC | |

Three specifications are abstract. `MoneyLedger`: a document enters the ledger
at most once and leaves it at most once, by the amount it entered with; the
three money modules instantiate it (`Books`), with the direction a service
books in and a mapping `LedgerStage` from their status columns, and each
implements it (`KeepsTheBooks`). `Authority`: what an account may do never
changes under one version; `Accounts` implements it (`AuthorityIsVersioned`),
and `Sessions` is built on it instead of on the details of accounts.

`Access`, `Records` and `Classwork` put parts that share no row into one run:
the part is chosen initially and moves alone. They are unions of models and not
compositions. Parts that do share rows are composed by `EXTENDS`: counselling
over enrolments, requests over lessons, profile changes over challenges.

### How a command becomes actions

*In `PayoutSettlement`* `Begin` starts the transaction with the key set of the
first `lockTargets` call. `Acquire` takes the next key in sorted order.
`LoadSessions` is the first statement of `refreshReadInputs`: the session rows
enter the mirror; reports are read by a later statement, hence a later
snapshot. `MeasureLines`, `MeasureAgain`, `ReadPayout`, `ReadSession` are the
validations. The last action (`Generate`, `Confirm`, ..., `RemoveSession`)
makes all the writes and commits. One step for them is justified: the writes
begin with a conditional UPDATE whose row lock lasts to COMMIT, no other
transaction sees any of them before, and a conflicting UPDATE waits and
evaluates its condition again on the committed row, which is the order in which
the steps are taken here. `Abort` stands for every refusal, error, timeout and
crash: the transaction rolls back. A client that got no answer sends the
command again: nothing limits how often a command begins.

*Elsewhere* a command is two or three steps: the keys of one `lockTargets` call
with the rows read under them (`Begin`), further calls if it makes any, and its
writes (`End` in the same step) or a refusal. How single keys interleave is the
subject of `AdvisoryLocks`; that rows read after the locks are the rows of the
database is the subject of `Mirror`. The set of keys is what the code asks for
*before* it locks (`KeysOf...`), from rows that may be replaced while it waits;
what a command checked before its locks, and does not check again, is a value in
the command that may be out of date.

Choices a reader should know:

* Settlement. `updated_at` in the payout's conditional UPDATE is abstracted to
  equality of the row that was read. A session has one teacher, for good, and
  one report; the reasons for a manual price come down to `Priced`: the
  override, or an approved report. Time and rate give a constant `AutoAmount`.
  `Init` is an academy whose sessions are held and reported, unpaid.
  `restoreSession` is disabled in the code and has no action.
* The integrity check. What `db-integrity-check` reports of a payout, of a line
  and of a session are three operators (`PayoutReported`, `LineReported`,
  `SessionReported`), each issue named beside its condition. The script loads
  live rows only, so a line whose session was removed is reported for every
  payout, a rejected one too; the removal asks only that no payout *holds* the
  session. `IntegrityCheckIsClean` says that this is all it ever reports of a
  line. Its warnings (overlapping periods of one instructor) and the issues about
  durations, cohorts and counts of lines are left out.
* Payments. Each instance has a copy of the amounts, taken when it boots and
  changed by its own writes; commands read the database under the lock, but for
  an amendment without a field, which answers with the copy (`UpdateNothing`).
  `wrote` marks the audit rows of commands that wrote the amount they report.
  `AuditIsAChain` says that every row starts where the last *written* amount
  ended; what the empty amendments report is among the observations in section 3.
* Timetable. The instructor stands for room and students, which are locked and
  compared in the same way. Time is a line of slots; a session occupies `len`
  of them; a block is one slot, not a recurring rule. `force` is refused in
  production. A request states every field; `ids` are the `expectedTargetIds`.
* Lessons. Texts and versions are numbers; all lessons are of one course and one
  series. An unassigned lesson has no price and is neither held nor a make-up
  (`UnassignedIsBare`, a CHECK of the table). The impact is what
  `accountingImpactHash` hashes: the lessons it is about, whether one is in a
  payout, whether one of them is worth something else, the sums before and
  after.
* Accounts. Names, contact data and their UNIQUE columns are left out; a command
  refused for them is a refusal. What the sessions see of an account is
  `Authority`.
  The capability an exception is about is one that may be configured; whether
  only a representative may delegate it and for which roles it may be set come
  from the contracts package and are constants. A webId that is approved is a
  command of `Accounts` (`RenameLogin`), since it raises the version.
* Sessions. `login` and `refresh` run in no transaction and hold the account's
  row of the mirror, which is written in place while they wait, also by a
  transaction that has not committed and may be undone (`Found`, `RowWritten`).
  An access token is not kept: it is refused once the account's version is
  another one. Left out are the claims a login signs (read before its last
  writes, `auth.controller.ts:207`), and a mirror that goes back to older rows
  than it had (a GET that was answered late).
* Challenges. One address and one user stand for all. Which code was sent is
  left out; a confirmation is right or wrong, and cooldowns are refusals.
* Profile requests. `PhoneValues` are the values that are another telephone
  number: while no SMS provider is configured, a request for one of them needs
  no challenge (`NoProof`). With a provider configured fewer commands pass.
* Families, Studies, Counsel. Names, prices and forms are left out. A guardian
  is the key of his intake. The rows of one student that several services remove
  are in the module of each service. `subjects.update` gives a subject any name
  (`RenameSubject`); a subject then counts no longer as one that was made for a
  name (`auto`), and `FoundOrMadeOnce` speaks of the others.
* Mirror. A statement and the effect of its answer on the mirror are two steps
  (`Execute`, `Apply`), a query and the replacement of the mirror by its rows
  as well (`FetchForGet`, `Replace`). `updateIf`, `claimPayout` and
  `setPayAmount` are updates that compare more columns.
* Migrations. DDL locks its table to the end of its transaction, so that a
  transaction is one step; scripts stop between transactions. Constraints or
  columns the same statements make are one object. A row may break a rule only
  while the rule is absent, since Postgres checks new rows against NOT VALID
  constraints too. A boot outside production runs the SQL of a migration one
  statement at a time and may stop after any (`MigrationsInit`). The second half
  of `SchemaChanges` computes the same for a few objects of the database; it is
  there to look at one script by itself (section 4).

Variables of history: `covered`, the lines of a payout whose session lock the
generate that made it held; `secured`, the sessions a placement was compared
with under the instructor's lock; `committed` in `Mirror`; `guesses` and
`usedBy` of a challenge; the rows that were brought back or reopened in
`Families`, `Studies` and `Counsel` (`rejoined`, `revived`, `resumed`,
`reopened`); the seen impact in `Lessons`. None influences a step.

## 3. Runs

| Run | Shows | Bounds |
|---|---|---|
| `payout_settlement` | types; ledger = status; the integrity check is clean (links and paid flags agree, no session in two active payouts, amounts have a source); covered lines stay worth what the payout says; settled payouts are frozen; implements `MoneyLedger` | 2 instances, 1 instructor; 2 sessions and 2 payouts with the payout commands, or 1 and 1 with every command |
| `generate_race` | (violation) *every* line of an active payout stays billable | 2 instances, 2 sessions, the pricing commands |
| `expense_audit` | (violation) audit rows of an expense form a chain | 2 instances, 2 amounts, 3 audit rows an expense |
| `ordered_locks` | no circular wait, every command ends | 3 instances, 9 lock programs over 2 instructors, 2 sessions, one course, one subject |
| `nested_locks` | (violation) no circular wait, with the commands that nest others | 2 instances |
| `timetable` | placements under the lock overlap neither each other nor blocked time; a request is decided once and touches what it named | 2 instances, 3 sessions, one series, 2 instructors and courses, 4 slots, 4 commits (3 beside a request) |
| `double_booking` | (violation) no instructor is booked twice | 2 instances, 2 sessions |
| `access` | accounts, sessions, challenges and profile changes: see the properties below | 2 instances; 3 accounts, 2 commits; 3 refresh tokens, 1 change of authority; 2 challenges, 2 attempts, 1 resend; 2 profile requests |
| `records` | families, studies and counsel, staff, payments, expenses, the mirror, the schema | 2 instances; 3 commands (4 of staff), studies from two initial states; 1 invoice, 1 expense, 2 amounts; a table of 2 rows, 2 writes; 66 campaigns of scripts, 2 operators |
| `classwork` | lessons with their reports, attendance and requests; templates | 2 instances, 2 lessons of a series from three initial states, 2 learners, 2 lecturers, 2 reports, 3 requests, 3 commands; 3 templates of one owner or of everybody, 4 commands |
| `held_spreads` | (violation) a lesson becomes held by its facts only | one command |
| `token_integrity` | (violation) a script that is run again until it succeeds is recorded | one script, nothing else goes wrong |

What the properties of the three unions say:

* `access`: `RolesHaveTheirRecords` (a teaching account has a profile in force,
  a course has a teacher), `OneLiveSuccessor` (a refresh token has one successor
  and is dead once it has one), `EndedSessionsStayEnded` (no refresh continues
  a session whose last token was revoked), `BoundedGuesses`, `OneProofEach` (a
  challenge serves once, a request rests on its own or is for a phone number),
  `ApprovalsAreAChain`, `AuthorityIsVersioned` (the refinement),
  `DecidersAreEntitled` (whoever decides is entitled when the decision commits).
* `records`: `PeriodsNeverOverlap`, `OrdersStayDense`, `FoundOrMadeOnce`,
  `NothingNamesWhatIsGone`, `CardFollowsLatestRound`, `NoGhostRows`,
  `LockedRowsAreCurrent`, `DocumentsMatchLedger`, `AuditIsAChain`,
  `KeepsTheBooks` (payments and expenses implement `MoneyLedger`),
  `LedgerIsEarned` (a recorded migration's rules bind every row, its parts are
  there, what it removes is gone).
* `classwork`: `DependentsBelong`, `ApprovedTextIsAccounted`,
  `NothingLostUnseen` (hours or pay of a held lesson go down only in a command
  whose client saw what it costs; as long as every lesson that is held has its
  participants, which violation 5 breaks), `CorrectionsChangeWhatWasSeen`,
  `AcknowledgedBatchIsStored`, `OneSelectionPerScope`.

Where the code lets a promise lapse, the property says so in its comment and no
further: a student's relative may be named by a relation asked for before the
removal, an enrolment may be edited back to active after its student left, and
so may one whose roadmap is closed, by an edit or by the roster of a session.
`LedgerIsEarned` exempts an object on which two migrations of a campaign
disagree (one makes what another drops).

Why the bounds are enough to meet the cases: a race needs a reader and a
writer, so two instances; a double payment needs two payouts that compete for a
line, and a second line so that two payouts may overlap in part. A circular wait
of advisory locks needs two transactions; the run that finds none uses three.
Three sessions allow a series of two and a third one that is compared with it;
an approval overtaken by a change needs one creation, the request, one change
that alters the series, the decision. Three commands of a record service are two
that meet and one that prepares or undoes (an edit, a conversion, a reopening).
Three tokens are a login, a rotation and a second one by a stale holder. A
campaign is one script, or a group whose SQL meets in some object (eleven
groups); a script that touches nothing of another's meets it nowhere but in
`schema_migrations`, by its own id, and the campaign of all scripts is there for
`ScriptsAssumption` alone. `MaxAudit` bounds how often an amount is
amended: two concurrent amendments and the creation make three rows. Other
bounds in the guards count commands that begin (`Max...`), tokens, versions
and writes; each is named where it is declared. Deadlock is not checked where
these counts let a behaviour stop.

Instances are symmetric, and so are payouts, tokens' requests and others that
the MC modules name: no definition orders them, and no property checked under
symmetry is a liveness property.

Each property has a mutant: a definition changed as a plausible bug would
change its code (a dropped condition, a lock not taken, a refresh left out, a
readback forgotten), under which TLC finds the property violated. The mutated
definitions stand before the ones they replace.

### Fairness

`AdvisoryLocks` states `WF(Commit)`: a transaction that holds all its locks goes
on running; and `SF(Acquire)`: a lock that is freed again and again is granted,
because Postgres queues the waiters of a lock and hands it to the head of the
queue; weak fairness would not say so, as others may take the lock in between.
No client is required to begin a command, no rollback to happen. `Migrations`
states, for `token_integrity` only, weak fairness of an operator who goes on
with a script and runs it again when it fails (`SmoothSpec`), with no bad row,
no crash and no second operator: what the violation shows is not due to any of
these. The other modules state no fairness: their commands end by commit or
rollback, and nothing in the code retries by itself.

### What the violations say

1. **A line of a payout that generate never locked** (`generate_race`).
   `generate` locks the sessions of its first measure, measures again and
   claims every line of the *second* measure. A session that became billable
   in between is claimed without its lock, so a report rejection, which read
   the session before the claim, commits after it: an active payout pays for a
   session whose report is rejected. Comments at `payouts.service.ts:100` and
   `reports.service.ts:588` say that the shared session lock prevents this;
   `CoveredLinesStayBillable` shows that it does for the lines that were locked.
2. **The audit trail of an expense** (`expense_audit`). `update` reads the
   row, then updates on the condition that the status is still `requested`.
   Two amendments both start from the same row; both are applied, and both
   audit rows name the first amount as the one before. For payments
   (`AuditIsAChain` of `records`) the lock makes the chain hold.
3. **Nested lock calls** (`nested_locks`). `lockTargets` sorts the keys of one
   call. `counsel.convert` holds the card (kind 12) when `enrollments.create`,
   called inside, asks for the student (kind 3); an enrolment on that card goes
   the other way. `updateInstructorAssignment` with `setCourseDefault` (course,
   then user) and `register` with a relative (course, then student) do the
   same. Postgres ends such a wait by aborting one of the two, so the
   consequence is a failed command, not a wrong table. `ordered_locks` shows
   that the other nested commands are fine.
4. **A session taken over with a course** (`double_booking`). An update that
   names a course and no instructor gives the session the course's instructor
   (`mergeFields`), but locks only the instructors of the rows as they were
   and one the request names. A creation for that instructor that runs at the
   same time shares no lock with it; both find the time free.
   `SecuredNeverOverlap` therefore speaks of placements under the lock only, and
   three more ways lead outside it: the keys of an update are computed from rows
   read before the lock; sessions moved by one scoped edit are compared with all
   others but not among themselves; and an edit that cancels its primary session
   checks no conflict for the companions.
5. **A status that spreads** (`held_spreads`). An edit of this and the
   following lessons writes the first lesson's status to the others, so that
   lessons are held that have not taken place. Such a lesson may have no
   participants of its own: it then counts for whoever is enrolled, and when an
   enrolment ends, which takes no lesson's lock and shows no impact, the pay of
   a held lesson changes and nobody has seen it. `NothingLostUnseen` has the
   condition `HeldWithParticipants` for that reason.
6. **A script that cannot complete** (`token_integrity`).
   `migrate-auth-refresh-token-integrity` reads its constraints back over the
   pool while its own session lock occupies the pool's one connection. The
   readback times out, and the ledger row is never written, although the
   migration says that both must agree before it counts as done, and
   `verify-migration-ledger` asks for the row.
Two promises the code does not keep, so that no property states them. Every
field of `UpdatePaymentDto` is optional, and `payments.update`, unlike
`expenses.update`, lets an empty body through. `updateIf` then has no column to
set and returns the instance's copy of the row, which another instance may have
overtaken; the audit row reports a change back to the old amount, although the
comment at `payments.service.ts:135` says that the rows are the difference in the
database. No amount is changed by it, and the next real amendment starts at the
right one: that is what is left of the chain (`AuditIsAChain`). And `refresh`
compares the version of the account with that of the token, waits for `rotate`,
and signs the version that the same row of the mirror has by then
(`SignRefreshed`). A reset of the password on the same instance that writes the
row in between raises that version, so the access token is accepted after the
reset, although the endpoint's documentation (`auth.controller.ts:341`) says
that it ends every session. The refresh token keeps the old version: the session
ends at the next refresh.

Observations without a violation. `ensureActiveForCourse`
(`enrollments.service.ts:225`) makes an enrolment active again without looking
at its roadmap, which `enrollments.create` does: the roster of a session may
resume one whose roadmap is closed (`resumed`). `claimPayout`'s condition on the
link can be dropped without breaking the integrity check, as long as every
generate of an instructor takes the instructor lock. A GET may replace the
mirror between a command's refresh and its use of it (`LockedRowsAreCurrent`
holds as long as none does). An edit of a series that is asked for at an
unassigned lesson takes the lecturer from the other lessons too, those with
recorded attendance included, which `updateInstructorAssignment` refuses for one
lesson (`schedule.service.ts:464`). Of the migrations:
`schedule-request-integrity-v2`, run again after
`schedule-request-attendance-correction`, brings back the narrower check on the
kind; `course-pay-ssot` and `counsel-student-ssot-contract` look at the rows
before their lock and drop the column after it, so that a row written in between
is dropped with it; a CONCURRENTLY index that failed stays invalid under its
name, and only the scripts that read it back notice; no script asks whether the
ones it builds on have run.

## 4. Proofs

Each module below is proved for all values of its constants, from the named
assumptions only. In each the theorem is the last link of the same chain: an
inductive invariant that holds initially, one lemma or step per action that it
is kept, and what follows from it. Most of these invariants have the same core:
*what a command has read under the keys it holds stays so until it commits*.
For each action there are then two things to show: what it writes is right,
given what it read, and it leaves alone what another command holds the key of.

### Settlement

`PayoutSettlementProofs`, for all sets of instances, sessions, payouts, periods,
prices and commands, from `ConstantsAssumption`:

| Theorem | Says |
|---|---|
| `Typing` | `Spec => []TypeOK` |
| `LedgerMatches` | `Spec => []LedgerMatchesStatus` |
| `Frozen` | `Spec => SettledIsFrozen` |
| `ImplementsLedger` | `Spec => KeepsTheBooks`: every step is a step of `MoneyLedger` or leaves the books alone |
| `Consistency` | the inductive invariant `Consistent` |
| `PaidFlags` | `Spec => []PaidFlagsAgree` |
| `CoveredLines` | `Spec => []CoveredLinesStayBillable` |
| `CleanCheck` | `Spec => []IntegrityCheckIsClean` |

`TypeOK` is inductive once a command's `row` is known to be a row that `payout`
could hold (`RowFits`): the conditional UPDATE compares it with the table.
`LedgerMatchesStatus` needs no locks at all. What carries it is the inductive
invariant `TypeOK /\ RowFits /\ LedgerMatchesStatus` and, at `pay` and
`reverse`, the condition on the status: the payout still has the status that was
read, so it has no `out` row (`pay`), or exactly one and no `in` row
(`reverse`), and one row is appended in the step that changes the status. No
other step appends a row, and none changes the amount of a payout whose ledger
rows exist: `Adjust` lets only a pending or confirmed row through and its UPDATE
compares the whole row. For `ImplementsLedger` the mapping `LedgerStage` is
shown to change only in `pay` (open to booked) and `reverse` (booked to
compensated), by the amount `LedgerMatchesStatus` gives.

The links between sessions and payouts do need the locks. `Consistent` has two
halves. `Rows` is about the tables: lines and links refer to each other
(`Linked`), no session is a line of two active payouts (`ClaimedOnce`), the
flags and the covered lines agree with it. `Prepared` is about a command under
way: the rejection, payment or reversal of a payout has seen every link to it
that there is (`SawLinks`), a generate knows the price of every session it has
locked (`SawPrices`), and an edit of a session that has passed its check is of a
session no active payout covers (`SawSession`). The second half speaks of
`covered` and not of all lines, which is what the violation `generate_race`
shows to be the most one can say. A rejection must also know that no session it
saw linked to its payout has gone to another one: it does since it took the
instructor's lock, which every generate for that instructor holds. `CleanCheck`
then goes through the issues the script can report one by one; the covered lines
of an active payout are all there, since a session that is linked to a payout is
not removed.

### Locks

`AdvisoryLocksProofs`, from `ProgramsAssumption`: `OrderedLocking` says that no
finite number of transactions waits in a circle if there is a strict order of
the keys that every program keeps to over all its calls (`Ascends`). A waiter
asks for a key behind all it holds (`Climbs`), so along a circle the set of keys
at or above the one that is asked for shrinks for ever; the sets of keys that
are asked for are finite. `NoDeadlock` (`NoWaitCycle`) names such an order for
the command forms of `AdvisoryLocks` that keep to one (`KeepsStages`): locks of
one call are sorted by kind and id, and with few exceptions programs of several
calls go on in that order. A series (kind 9) is locked alone and first; the hash
of a subject's name, which shares kind 14 with the ids of subjects, is locked
before the course, the id after it. So series come first in the order, and names
before courses; the hashes must be none of the ids. The nested commands of
violation 3 have no such order.

### Timetable

`TimetableProofs`, from `TimetableConstants`:

| Theorem | Says |
|---|---|
| `DecidedForGood` | `Spec => DecidedOnce` |
| `NeverOverlap` | `Spec => []SecuredNeverOverlap` |
| `NeverBlocked` | `Spec => []SecuredNotBlocked` |
| `ApprovalsKeepTheirScope` | `Spec => RequestedScope` |

For `DecidedForGood`: `DecidedOnce` alone is not inductive, a commit would
approve whatever request its instance names. `Claimed` adds that a request an
instance is approving is pending and claimed by it alone, which is what
`FOR UPDATE` gives; every other action on a request has `MustPending` as guard.

For the next two the invariant is `Apart`: no two instances hold the same key
(`Exclusive`), a block is written under its instructor's lock (`BlockLocked`),
and until a command commits, the time it checked stays free of blocks and of
sessions that were themselves placed under the lock (`PlanIsFree`,
`BlockIsFree`). The last two are the argument: the lock is held from before the
check to the commit, and nobody else can place a session *under the lock*, or a
block, meanwhile. A session that is placed under another lock than its
instructor's is not in `secured`, and `DoubleBooking` shows that it can overlap.

`ApprovalsKeepTheirScope` rests on `Scoped`. That an approval changes no session
its request did not name is `SameTargets`, once a claimed request keeps its
command and ids (`Asking`). That an approved deletion deletes *every* session it
named needs the locks: until it commits, none of them may have been deleted by
somebody else. `ScopeLocked` says that a change or deletion holds the series of
its session, or the session itself if it has none; `InScope`, that every row it
is about to write is of that series or is that session; and a session keeps its
series as long as it exists (`CommitKeeps`). So two of them that are about to
commit have no row in common (`ScopesApart`). The row a command is about to
write exists already unless it creates it, and the ids of two creations differ
(`NewRowsApart`). An update whose status says otherwise could undo this, so
`TimetableConstants` says what the request validation does (`IsIn(STATUSES)`):
a status a client may name is one of `SESSION_STATUSES`.

### Access

`AccessProofs`. The theorems about one part are about its own specification,
those about the union are about `AccessSpec`.

| Theorem | Says |
|---|---|
| `WhoTeachesHasRecords` | `AccountsSpec => []RolesHaveTheirRecords` |
| `Deciders` | `AccountsSpec => DecidersAreEntitled` |
| `ImplementsAuthority` | `AccountsSpec => AuthorityIsVersioned` |
| `Chains` | `SessionsSpec => []OneLiveSuccessor` |
| `NoSessionComesBack` | `SessionsSpec => EndedSessionsStayEnded` |
| `GuessesAreBounded` | `AccessSpec => []BoundedGuesses` |
| `ProofsServeOnce` | `AccessSpec => []OneProofEach` |
| `ApprovalsChain` | `AccessSpec => []ApprovalsAreAChain` |
| `AccessIsTyped` | `AccessSpec => []AccessTypeOK` |

*Accounts* (`AccountsConstants`). The invariant is `Sound`. Its part `Sees` says
that an account whose key a process holds is still as the process read it, but
for an account that did not exist then. The steps without a lock
(`VerifyEmail`, `ResendVerification`, `ForgetPassword`) are the ones that could
spoil it, and they leave the fields `Sees` speaks of (`Same`) alone. `Effect`
sums up what an ending command may do: the authority of every account stays as
it is, or that of the one it names gets the next version, under that account's
lock or before the account existed. There is one lemma per command that it has
this effect, and one that the effect keeps `Sound`. The refinement substitutes
`authorities`, the pairs of a version and the claims signed under it.

*Sessions* (`SessionConstants`), from the invariant `Trusted`: the table of
tokens only grows and a successor is inserted in the step that revokes its
predecessor, so that every other step leaves the set of successors alone. A
successor of a token is inserted only if the token is not revoked when its row
is locked; hence a token that is revoked and has none never gets one. Nothing of
accounts is used but `Authority`, so that `ImplementsAuthority` is what entitles
`Sessions` to leave them out.

*Challenges and profile requests* (`ChallengeConstants`, `ProfileConstants`),
from `ProfilesSound`. A confirmation or a resend holds the challenge's key from
before it reads the row, so that the number of attempts it compares is the
number there is (`ProfileSees`); hence the attempts of a row count every wrong
guess since the code was sent (`Counted`). A challenge that has been used has
ended (`UsedOnce`) and the conditional UPDATE that uses it asks that it has not,
so that there is no second use; every request that names a challenge rests on a
use of it, and one that names none is for a telephone number (`Backed`). A
profile request keeps the version it was made for, and an approval's UPDATE
compares that version with the profile's and raises it: approvals form a chain.

### Payments and expenses

`LedgersProofs` proves each service alone, from `MoneyConstants`, and then the
two together (`LedgersTyping`: both are well typed). A step of the two together
is a step or a stutter of each alone (`PaymentsAlone`, `ExpensesAlone`), so that
what is proved of one holds of both. `RecordsProofs` states the results for the
whole of `Records` (`Audit`, `DocumentsMatch`, `ImplementLedger` below).
`AuditIsAChain` speaks of payments.

The two services rest on different things. A payment is locked before it is
read: the invariant `PaymentsKept` says that at most one instance holds its lock
(`Nobody \notin Instances`), that the row such an instance has read is the row
there is, and that the last amount the audit rows say was written is the one it
has. An expense takes no
lock; the conditional UPDATE alone keeps `LedgerMatchesExpenses`: the row that
is approved or withdrawn is the row that was read. Its audit chain is exactly
what that does not give (the violation in section 3).

### Records

`RecordsProofs` and `StudiesProofs`, all theorems of `RecordsSpec`:

| Theorem | Says |
|---|---|
| `PeriodsApart` | `[]PeriodsNeverOverlap` |
| `OrdersDense` | `[]OrdersStayDense` |
| `MadeOnce` | `[]FoundOrMadeOnce` |
| `NothingNamed` | `[]NothingNamesWhatIsGone` |
| `CardsFollow` | `[]CardFollowsLatestRound` |
| `UndoneLeavesNothing`, `LockedAreSeen` | `[]NoGhostRows`, `[]LockedRowsAreCurrent` |
| `Audit`, `DocumentsMatch`, `ImplementLedger` | `[]AuditIsAChain`, `[]DocumentsMatchLedger`, `KeepsTheBooks` |
| `LedgerEarned` | `[]LedgerIsEarned` |
| `RecordsAreTyped` | `[]RecordsTypeOK` |

*Families, studies, counselling, staff.* The invariants `FamiliesSound`,
`StudiesSound` and `StaffSound` consist of the rows' own properties
(`...RowsFit`), the exclusion of keys, and for each kind of key what its holder
still sees: the guardians, periods and wishes of a student (`SawStudent`), every
guardian made for an intake (`SawIntake`), every course and enrolment of a
subject or roadmap (`Sees...`), the contracts of a teacher (`SawContracts`). A
lemma `Spare...` per kind says that a step leaves these to their holder. What is
seen is as weak as the code makes it: an edit of an enrolment takes neither the
student's key nor the course's, so the holder of one knows whether there is an
enrolment, and what it can no longer have become without an edit (`revived`,
`resumed`), but not its status; the keys of a conversion are those of the
student that was *read* on the card, and the card's key keeps it so
(`HoldsItsKeys`). The rest are facts about data: that ranks 1, 2, ... stay
without a gap when one is inserted, removed or the courses are exchanged
(`Dense`, by bijections between finite sets and their cardinality); that a
subject or guardian is made only when none of its name was seen under the key of
that name, and a subject that was renamed is no longer one that was made for a
name; that a card is converted again only after it was reopened
(`ConvertedOnce`); that the number of the latest round is one more than the
largest before it, with fewer than 99 rounds.

The commands a client may send and the rows there are before the first one are
constants. `FamilyCommandsAssumption`, `StudyCommandsAssumption`,
`CounselCommandsAssumption` and `StaffCommandsAssumption` say what the request
validation says: which fields a command has and what they may hold.
`FamilySeedsAssumption`, `StudySeedsAssumption` and `CardSeedsAssumption` say
that the initial rows have the columns of the tables and satisfy the properties
themselves; TLC evaluates all of them on the rows and commands of `records`.

*The mirror*, for any table, from the invariant `Faithful`. Rows enter a mirror
from an answer of the database or from the snapshot of a rollback; an answer to
a GET was true when it was executed, since only committed rows are visible to it
(`FetchedTruly`); and a row locked by the open transaction, once refreshed,
changes by that transaction alone and in the database before the mirror
(`MirrorsLocked`). `WritesAssumption`: the bound on writes is positive.

*The schema*, for any number of operators and any campaign of scripts. 55
scripts of several units each have too many interleavings to run together, and a
proof by cases over them would be no proof anybody reads. So the question is
divided in two:

* What a script does, taken by itself. `ScriptsAssumption` looks at one unit,
  one promise of one migration (a rule, a part, something to be gone) and the
  few objects that have to do with it (`Watched`): whatever state those are in
  (`Findable`), the unit takes back no promise that stands; if it records the
  migration, it makes the promise stand or an earlier unit of the same script
  does (`Establishes`); and neither an index that fails nor a row that is written
  or repaired takes a promise back (`Disturbed`). TLC evaluates this for the 66
  campaigns of `records` *and for one campaign of all 55 scripts*, which the run
  has for this purpose and does not explore (`FewScripts`). The scripts are
  constants of the model, so this is a check of the scripts and not of a sample.
* Why that is enough, which is the proof. The invariant `Earned` says of every
  promise that it stands when its migration is recorded, or when a unit that
  establishes it has run in a script that still runs. Whoever runs a unit finds
  the watched objects as some `Findable` state has them, however many operators
  ran, stopped or failed in between; what the unit makes of them in the whole
  database is one of the outcomes computed from them alone.

The second half of that is a fact about sequences of SQL statements:
`ExcerptTransacted` says that an excerpt of the database after a transaction is
an excerpt computed by `ExcerptsTransacted`. One statement at a time it is
`ExcerptAfter`, provided an exchange of one constraint for another is seen with
both sides (`Whole`); a transaction that skips because its migration is recorded
may or may not be skipped when that is another's migration, and the SQL of an
`unless` may or may not run when only some of its objects are seen, so an
excerpt has several outcomes. `AllOf` and `Transacted` are recursive functions on
the number of statements; that such a function exists and keeps what each of its
steps keeps is proved once, for a set of values and a sequence of functions on
it (`SequenceOfSteps`, `StepsKeep`), from the well-foundedness of the natural
numbers. `CampaignsAssumption` says that units and SQL are sequences and that a
script records only migrations that are known.

*Types.* `RecordsAreTyped` collects what the invariants of the parts say about
the rows, with `LedgersTyping` for the money: among other things a rank is at
most the number of wishes, no session of an operator holds a lock that another
holds, and a mirrored row was made by one of the writes there have been.

### Classwork

`ClassworkProofs`, theorems of `ClassworkSpec`:

| Theorem | Says |
|---|---|
| `ClassworkIsSound` | the inductive invariant `ClassworkSound` |
| `DependentsAlwaysBelong` | `[]DependentsBelong` |
| `ApprovedTextsAreAccounted` | `[]ApprovedTextIsAccounted` |
| `AcknowledgedBatchesAreStored` | `[]AcknowledgedBatchIsStored` |
| `CorrectionsAreDecidedAsSeen` | `CorrectionsChangeWhatWasSeen` |
| `OneSelectedTemplate` | `[]OneSelectionPerScope` |
| `LossesWereShown` | `NothingLostUnseen` |

The assumptions are those on commands and initial rows (`LessonSeedsAssumption`,
`LessonCommandsAssumption`, `RequestsAssumption`, `TemplatesAssumption`), as for
the records, and `LessonIdsAssumption`: 0, which a request that names no lesson
has in its place, is not a lesson's id. `RateAssumption` says that the rate is
not negative. Only an edit or a deletion has a scope (`this`, `following`,
`series`), which is part of `LessonCommandsAssumption`.

*Templates* (`TemplatesSound`). The holder of a scope's key has read every
template there is in that scope (`KnowsScope`), so that the selections it clears
are all there are. Nobody else can bring a template into the scope or select one
in it: whoever writes holds the key of the scope his template is in and of the
one it goes to (`HasScopes`), and the template's own key keeps the first what he
read (`NamesTemplate`).

*Lessons and requests* (`LessonsSound`). `Knows` says what a command has for
certain: of every lesson whose key it holds, the row, the attendance and the
reports are as it read them (`KnowsLesson`), and it holds the keys of all
lessons it is about to write. `SparesLessons` and `SparesRequests` are the other
side: a step leaves alone the rows whose key another command holds. An enrolment
has no such key. Hence who may take part in a lesson without a roster is only
known up to `everLeft`, those who were enrolled at some time and left, and
`DependentsBelong` cannot say more than that a report or attendance is of
somebody who was a participant.

`ApprovedTextIsAccounted` needs a count (`ReportsAccounted`): every write of a
report raises its version by one, a revision of an approved one leaves a row
with the version it started from, so that the rows since the approval number the
versions in between and each begins with the text the one before it left. A
report that is rejected or rewritten is no longer approved, and counts from its
next approval. `AcknowledgedBatchIsStored` rests on the key of lecturer and
idempotency key: a retry that waits for it finds either no row under that key
or all of them, numbered from 0 (`NumberedFromZero`, a bijection between the ids
and the elements). For the corrections the invariant adds `OnePending` and what
an approval knows of the request it names (`NamesRequest`): the lesson and the
attendance it asks for do not change once it is stored.

`NothingLostUnseen` says of a step what the code decides between two requests:
if a lesson is worth less after it, the step was acknowledged with the hash of
the impact it had. A command that previews its impact knows the lessons in its
scope: none of them is changed by others while it holds their keys, and none
comes back (`Knows`, `SameTargets`). So what it computed the impact from is what
the lessons are worth (`KnownWorth`); what a lesson is worth does not depend on
enrolments while it is held with its participants (`HeldForGood`). The actions
fall into those that take nothing from any lesson (`Improves`) and the five that
may: an update, a deletion, a mark that is cleared and a report that is rejected
compare the hash (`Previewing`), and a price is what its author states. The
attempt to prove this found the model wrong. It took the impact as changed if
the *sum* is another one; `combineAccountingImpacts` asks for every lesson, and
so do the model and the property now: two lessons of a series whose losses and
gains cancel out need the acknowledgement too.

### Model-checked only

* `EveryCommandEnds`: liveness under fairness is out of the prover's reach.
* The properties of the runs that expect a violation.

## 5. Not modelled, and the plan

Not modelled:

* Request throttling is one upsert per request and bucket and promises nothing
  about other state.
* Credentials, events, view presets, badges: rows one person writes one at a
  time and no other part reads for a decision.
* Audit, mail, GraphQL, health, bootstrap and configuration: output, reads and
  wiring. Audit rows are modelled where an amount depends on them.
* Data. Expansion of recurrences, time zones and the limits of a series (366
  days, 120 occurrences) are pure functions with unit tests; encryption,
  formatting and search.
* In the modelled components: import of completed sessions; rooms; changing a
  block in place and the effective ranges of blocks; the reports that stop the
  removal of a subject; a series' version and
  operation counter; scripts that only seed, verify or print.

One hazard has no property, the version that `refresh` signs: what a property
would say does not hold (section 3). Part of another one has none: a schedule
request that is approved states every field as it was when it was made
(`schedule-requests.service.ts:526`). No document or test says what must happen
to a field changed meanwhile; the code compares the target ids only.

A further proof worth having: `OrderedLocking` for command forms with keys that
are computed from rows, that is, that the key sets of `Timetable` and `Lessons`
are instances of the forms of `AdvisoryLocks`.
