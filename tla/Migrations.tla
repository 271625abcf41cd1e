----------------------------- MODULE Migrations -----------------------------
(***************************************************************************)
(* Operators run the migration scripts against one database, by hand, in   *)
(* any order, more than once, two at a time.  A script stops for good at   *)
(* the first unit that fails, when it is killed, or when it loses its      *)
(* connection; what its earlier units committed stays.  Meanwhile the      *)
(* application writes rows that the rules still to come forbid.            *)
(*                                                                         *)
(* DDL locks its table to the end of its transaction, so that a            *)
(* transaction is one step.  A campaign is a sequence of scripts that      *)
(* touch the same objects.                                                 *)
(***************************************************************************)
EXTENDS MigrationScripts

CONSTANTS Operators, Campaigns

VARIABLES campaign,        \* the place in Campaigns of the scripts that are run
          shape, dirty, recorded,
          doing, at,       \* by operator: the script, its next unit; NoScript when idle
          held             \* by operator: the key of the session's advisory lock

migrationVars == <<campaign, shape, dirty, recorded, doing, at, held>>

NoScript == 0

Promises == [c \in DOMAIN Campaigns |->
    {m \in EXPECTED_MIGRATIONS : \E k \in DOMAIN Campaigns[c] : m.id \in Campaigns[c][k].ids}]

(* Everything the scripts of the campaign do, the SQL under a condition    *)
(* included.                                                               *)
Steps == [c \in DOMAIN Campaigns |->
    LET top == UNION {UNION {Range(u.steps) : u \in Range(s.units)} : s \in Range(Campaigns[c])}
    IN  top \cup UNION {Range(s.sql) : s \in top}]

Objects == [c \in DOMAIN Campaigns |-> UNION {s.on \cup s.by : s \in Steps[c]}]

(* What rows can break: the rules, and columns whose values are to go.     *)
Values == [c \in DOMAIN Campaigns |-> Objects[c] \cap {"courses.hourly_rate", "legacy_columns"}]
Rules == [c \in DOMAIN Campaigns |->
    UNION {s.on : s \in {s \in Steps[c] : s.do \in {"add", "addNew", "addUnvalidated"}}}]
Breakable(c, shapes) ==
    {x \in DOMAIN shapes : \/ x \in Rules[c] /\ shapes[x] = "absent"
                           \/ x \in Values[c] /\ shapes[x] # "absent"}

(* Campaigns are numbered, a script has something to do, and it records    *)
(* only what it is a script of.                                            *)
ASSUME CampaignsAssumption ==
    \A c \in DOMAIN Campaigns :
        /\ c # NoScript /\ DOMAIN Campaigns[c] \subseteq Nat \ {NoScript}
        /\ \A script \in Range(Campaigns[c]) :
             /\ script.units \in Seq(Range(script.units)) \ {<<>>}
             /\ \A u \in Range(script.units) : u.steps \in Seq(Range(u.steps))
        /\ \A s \in Steps[c] :
             /\ s.sql \in Seq(Range(s.sql))
             /\ s.do \in {"record", "recordOnce"} => \E m \in Promises[c] : s.id = m.id
        /\ \A m \in Promises[c] : m.sql \in Seq(Range(m.sql))

unit(o) == Campaigns[campaign][doing[o]].units[at[o]]
Database == [shape |-> shape, dirty |-> dirty, recorded |-> recorded, ok |-> TRUE, skip |-> FALSE]

Made(m) ==
    UNION {IF s.do \in {"create", "add", "addNew", "addUnvalidated"} THEN s.on ELSE s.by : s \in Range(m.sql)}
Dropped(m) == UNION {s.on : s \in {s \in Range(m.sql) : s.do \in {"drop", "exchange"}}}

(* Two migrations may disagree on an object: one makes what another drops. *)
(* If both make it, the first one's statements decide whether it binds the *)
(* old rows: a boot that stopped may have left it NOT VALID.               *)
MadeByOthers == [c \in DOMAIN Campaigns |->
    [m \in Promises[c] |-> UNION {Made(other) : other \in Promises[c] \ {m}}]]
DroppedByOthers == [c \in DOMAIN Campaigns |->
    [m \in Promises[c] |-> UNION {Dropped(other) : other \in Promises[c] \ {m}}]]

(* A migration did what it says to an object: every rule of it binds every *)
(* row, every part of it is there and what it removes is gone, unless a    *)
(* migration of the same campaign says otherwise.                          *)
Promised(m) == m.rules \cup m.parts \cup m.gone

Stands(c, m, x, d) ==
    /\ x \in m.rules \ DroppedByOthers[c][m] =>
         /\ d.shape[x] # "absent"
         /\ x \notin MadeByOthers[c][m] => d.shape[x] = "inforce" /\ x \notin d.dirty
    /\ x \in m.parts \ DroppedByOthers[c][m] => d.shape[x] \notin {"absent", "invalid"}
    /\ x \in m.gone \ MadeByOthers[c][m] => d.shape[x] = "absent"

(* Before the campaign: what no script of it makes is there.               *)
Base == [c \in DOMAIN Campaigns |->
    [shape |-> [x \in Objects[c] |->
                   IF \E m \in Promises[c] : x \in Made(m) \cup m.rules \cup m.parts THEN "absent" ELSE "inforce"],
     dirty |-> {}, recorded |-> {}, ok |-> TRUE, skip |-> FALSE]]

-----------------------------------------------------------------------------
(* What can be asked of a script by itself.  An object that a migration    *)
(* promises is watched together with what may exchange it, and, if it is   *)
(* to be gone and the SQL is left out when the rules are in force, with    *)
(* those rules.                                                            *)
Guarded == [c \in DOMAIN Campaigns |->
    {m \in Promises[c] : \E s \in Steps[c] : s.do = "unless" /\ s.on = m.rules \cup m.parts}]

Watched == [c \in DOMAIN Campaigns |-> [m \in Promises[c] |-> [x \in Promised(m) |->
    LET near == {x} \cup IF m \in Guarded[c] /\ x \in m.gone THEN m.rules ELSE {}
    IN  near \cup UNION {s.on : s \in {s \in Steps[c] : s.do = "exchange" /\ s.by \cap near # {}}}]]]

Unvalidated == [c \in DOMAIN Campaigns |->
    UNION {s.on : s \in {s \in Steps[c] \cup UNION {Range(m.sql) : m \in Promises[c]} : s.do = "addUnvalidated"}}]
Indexed == [c \in DOMAIN Campaigns |->
    UNION {UNION {UNION {s.on : s \in Range(u.steps)} : u \in {u \in Range(script.units) : u.kind = "index"}}
           : script \in Range(Campaigns[c])}]

(* How the watched objects may be found.                                   *)
Found(c, m, x, d) ==
    /\ \A y \in DOMAIN d.shape :
         /\ d.shape[y] = "unvalidated" => y \in Unvalidated[c]
         /\ d.shape[y] = "invalid" => y \in Indexed[c]
         /\ y \in Rules[c] /\ d.shape[y] = "inforce" => y \notin d.dirty
    /\ m \in Guarded[c] /\ x \in m.gone \ MadeByOthers[c][m] /\ InForce(d, m.rules) => d.shape[x] = "absent"

Findable(c, m, x) ==
    LET X == Watched[c][m][x]
    IN  {d \in [shape : [X -> Shapes], dirty : SUBSET X, recorded : SUBSET {m.id}, ok : {TRUE}, skip : {FALSE}] :
            Found(c, m, x, d)}

Outcomes(c, u, m, x, d) == ExcerptsTransacted({d}, u.steps, Watched[c][m][x], m.id)

(* After the unit the promise about x is kept.                             *)
Establishes(c, u, m, x) ==
    /\ u.kind \in {"tx", "index", "pool"}
    /\ \A d \in Findable(c, m, x) : (d.recorded # {} => Stands(c, m, x, d)) =>
         \A e \in Outcomes(c, u, m, x, d) : Stands(c, m, x, e)

(* An index fails, a row breaks a rule or is repaired.                     *)
Disturbed(c, d) ==
    {[d EXCEPT !.shape[y] = "invalid"] : y \in {y \in DOMAIN d.shape \cap Indexed[c] : d.shape[y] = "absent"}}
    \cup {[d EXCEPT !.dirty = @ \cup {y}] : y \in Breakable(c, d.shape)}
    \cup {[d EXCEPT !.dirty = @ \ {y}] : y \in d.dirty}

(* No unit of a script takes back what a migration promised, and a unit    *)
(* that records one makes what it promised true, or an earlier one did.    *)
ASSUME ScriptsAssumption ==
    \A c \in DOMAIN Campaigns : \A m \in Promises[c] : \A x \in Promised(m) :
        /\ x \in Objects[c] /\ Watched[c][m][x] \subseteq Objects[c]
        /\ \A s \in Steps[c] : s.do = "exchange" /\ s.by \cap Watched[c][m][x] # {} =>
             s.on \subseteq Watched[c][m][x]
        /\ \A d \in Findable(c, m, x) :
             /\ \A e \in Disturbed(c, d) : e \in Findable(c, m, x) /\ (Stands(c, m, x, d) => Stands(c, m, x, e))
             /\ \A script \in Range(Campaigns[c]) : \A n \in DOMAIN script.units :
                  LET u == script.units[n] IN
                  u.kind \in {"tx", "index", "pool"} => \A e \in Outcomes(c, u, m, x, d) :
                      /\ Found(c, m, x, e)
                      /\ Stands(c, m, x, d) => Stands(c, m, x, e)
                      /\ (d.recorded # {} => Stands(c, m, x, d)) /\ e.recorded # {} =>
                           \/ Stands(c, m, x, e)
                           \/ \E j \in 1 .. n - 1 : Establishes(c, script.units[j], m, x)
        /\ \A boot \in Promises[c] : \A n \in 0 .. Len(boot.sql) :
             Found(c, m, x, Excerpt(AllOf(Base[c], SubSeq(boot.sql, 1, n)), Watched[c][m][x], m.id))

-----------------------------------------------------------------------------
(* ensureReady: outside production a boot runs the SQL of the migrations,  *)
(* one statement at a time, and may have stopped after any of them; in     *)
(* production (none of them) nothing but the scripts does.                 *)
MigrationsInit ==
    /\ campaign \in DOMAIN Campaigns
    /\ \E m \in Promises[campaign] : \E n \in 0 .. Len(m.sql) :
          shape = AllOf(Base[campaign], SubSeq(m.sql, 1, n)).shape
    /\ dirty \in {{}} \cup {{x} : x \in Breakable(campaign, shape)}
    /\ recorded = {}
    /\ doing = [o \in Operators |-> NoScript]
    /\ at = [o \in Operators |-> NoScript]
    /\ held = [o \in Operators |-> NoKey]

(* Nobody migrates.                                                        *)
NoCampaign ==
    /\ campaign = NoScript
    /\ shape = <<>> /\ dirty = {} /\ recorded = {}
    /\ doing = [o \in Operators |-> NoScript]
    /\ at = [o \in Operators |-> NoScript]
    /\ held = [o \in Operators |-> NoKey]

(* DataSource.initialize(): a script begins.                               *)
BeginScript(o, k) ==
    /\ doing[o] = NoScript
    /\ doing' = [doing EXCEPT ![o] = k]
    /\ at' = [at EXCEPT ![o] = 1]
    /\ UNCHANGED <<campaign, shape, dirty, recorded, held>>

(* main() goes on to the next await, or ends.                              *)
GoesOn(o) ==
    LET last == Len(Campaigns[campaign][doing[o]].units)
    IN  /\ doing' = [doing EXCEPT ![o] = IF at[o] = last THEN NoScript ELSE @]
        /\ at' = [at EXCEPT ![o] = IF @ = last THEN NoScript ELSE @ + 1]

(* The connection goes and with it the transaction and the session's lock. *)
Stops(o) ==
    /\ doing' = [doing EXCEPT ![o] = NoScript]
    /\ at' = [at EXCEPT ![o] = NoScript]
    /\ held' = [held EXCEPT ![o] = NoKey]

KeyFree(o, key) == key = NoKey \/ \A other \in Operators \ {o} : held[other] # key

Lock_(o) ==
    /\ doing[o] # NoScript /\ unit(o).kind = "lock" /\ KeyFree(o, unit(o).key)
    /\ held' = [held EXCEPT ![o] = unit(o).key]
    /\ GoesOn(o)
    /\ UNCHANGED <<campaign, shape, dirty, recorded>>

Unlock_(o) ==
    /\ doing[o] # NoScript /\ unit(o).kind = "unlock"
    /\ held' = [held EXCEPT ![o] = NoKey]
    /\ GoesOn(o)
    /\ UNCHANGED <<campaign, shape, dirty, recorded>>

(* The pool has one connection (max: 1): while the script holds it for its *)
(* lock, a query over the pool waits for it until it times out.            *)
Starved(o) ==
    /\ unit(o).kind = "pool" /\ held[o] # NoKey
    /\ ~Transacted(Database, unit(o).steps).skip

Executable(o) ==
    doing[o] # NoScript /\ unit(o).kind \in {"tx", "index", "pool"} /\ KeyFree(o, unit(o).key)

RunUnit(o) ==
    LET d == Transacted(Database, unit(o).steps)
    IN  /\ Executable(o) /\ ~Starved(o) /\ d.ok
        /\ shape' = d.shape /\ dirty' = d.dirty /\ recorded' = d.recorded
        /\ GoesOn(o)
        /\ UNCHANGED <<campaign, held>>

(* Mutant: that a unit failed is only logged.                              *)
FailedAndLogged(o) ==
    /\ Executable(o)
    /\ Starved(o) \/ ~Transacted(Database, unit(o).steps).ok
    /\ GoesOn(o)
    /\ UNCHANGED <<campaign, shape, dirty, recorded, held>>

(* A gate raises, a row breaks the rule, a readback throws: rolled back.   *)
Refuse(o) ==
    /\ Executable(o)
    /\ Starved(o) \/ ~Transacted(Database, unit(o).steps).ok
    /\ Stops(o)
    /\ UNCHANGED <<campaign, shape, dirty, recorded>>

(* CREATE INDEX CONCURRENTLY that fails leaves the index, invalid.         *)
IndexFails(o) ==
    /\ Executable(o) /\ unit(o).kind = "index"
    /\ \E x \in UNION {s.on : s \in Range(unit(o).steps)} :
          shape[x] = "absent" /\ shape' = [shape EXCEPT ![x] = "invalid"]
    /\ Stops(o)
    /\ UNCHANGED <<campaign, dirty, recorded>>

Crash(o) ==
    /\ doing[o] # NoScript
    /\ Stops(o)
    /\ UNCHANGED <<campaign, shape, dirty, recorded>>

(* The application, or the operator who repairs what a gate reported.      *)
WriteBadRow ==
    /\ \E x \in Breakable(campaign, shape) \ dirty : dirty' = dirty \cup {x}
    /\ UNCHANGED <<campaign, shape, recorded, doing, at, held>>

Repair ==
    /\ \E x \in dirty : dirty' = dirty \ {x}
    /\ UNCHANGED <<campaign, shape, recorded, doing, at, held>>

Proceeds(o) == Lock_(o) \/ Unlock_(o) \/ RunUnit(o) \/ Refuse(o)

MigrationsNext ==
    \/ \E o \in Operators :
          \/ \E k \in DOMAIN Campaigns[campaign] : BeginScript(o, k)
          \/ Proceeds(o) \/ IndexFails(o) \/ Crash(o)
    \/ WriteBadRow \/ Repair

MigrationsSpec == MigrationsInit /\ [][MigrationsNext]_migrationVars

(* Nothing goes wrong: rows break no rule, no boot made anything, no    *)
(* process dies, and an operator who sees a script fail runs it again.     *)
SmoothInit ==
    MigrationsInit /\ dirty = {} /\ shape = Base[campaign].shape

SmoothNext(o) == Proceeds(o) \/ \E k \in DOMAIN Campaigns[campaign] : BeginScript(o, k)

SmoothSpec ==
    /\ SmoothInit /\ [][\E o \in Operators : SmoothNext(o)]_migrationVars
    /\ \A o \in Operators : WF_migrationVars(SmoothNext(o))

-----------------------------------------------------------------------------
MigrationsTypeOK ==
    /\ campaign \in DOMAIN Campaigns
    /\ shape \in [Objects[campaign] -> Shapes]
    /\ dirty \subseteq Objects[campaign]
    /\ recorded \subseteq {m.id : m \in Promises[campaign]}
    /\ doing \in [Operators -> {NoScript} \cup DOMAIN Campaigns[campaign]]
    /\ at \in [Operators -> Nat]
    /\ \A o, other \in Operators : o # other /\ held[o] # NoKey => held[other] # held[o]

(* verify-migration-ledger: a migration in schema_migrations did what it   *)
(* says.  Killed scripts, rows that broke a rule in the meantime, a second *)
(* operator and a half-built index do not change that.                     *)
LedgerIsEarned ==
    campaign # NoScript => \A m \in Promises[campaign] : m.id \in recorded =>
        \A x \in Promised(m) : Stands(campaign, m, x, Database)

(* auth-refresh-token-integrity.migration.ts:17, verify-migration-ledger:  *)
(* when nothing goes wrong, the migrations of the scripts that are run are *)
(* recorded in the end.                                                    *)
ScriptsComplete == <>(\A m \in Promises[campaign] : m.id \in recorded)
=============================================================================
