--------------------------- MODULE SchemaChanges ---------------------------
(***************************************************************************)
(* What the SQL of a migration does to the catalogue of the database.  An  *)
(* object is a table, a column, an index or a constraint (or several that  *)
(* the same statements make); its shape says whether it is there and       *)
(* whether it binds every row.  A row may break a rule only while the rule *)
(* is absent: PostgreSQL checks new rows against a NOT VALID constraint.   *)
(*                                                                         *)
(* A database is a record of the shape of every object, the objects whose  *)
(* rule some row breaks (dirty), the migrations in schema_migrations       *)
(* (recorded), and, within a transaction, whether a statement failed (ok   *)
(* is FALSE) and whether the script passes over statements, because their  *)
(* migration is recorded (skip).                                           *)
(***************************************************************************)
EXTENDS Naturals, Sequences, FiniteSets, SequencesExt

Shapes == {"absent", "unvalidated", "inforce", "invalid"}

(* The statements, by what they do to the objects they name.               *)
Statement(do, on) == [do |-> do, on |-> on, by |-> {}, id |-> "", sql |-> <<>>]
Gate(S)           == Statement("gate", S)            \* RAISE when a row breaks the rule
Create(S)         == Statement("create", S)          \* ... IF NOT EXISTS; no row can break it
Add(S)            == Statement("add", S)             \* a rule that is validated at once
AddNew(S)         == Statement("addNew", S)          \* the same without IF NOT EXISTS
AddUnvalidated(S) == Statement("addUnvalidated", S)  \* ... NOT VALID
Validate(S)       == Statement("validate", S)
Drop(S)           == Statement("drop", S)
Backfill(S)       == Statement("backfill", S)        \* UPDATE the rows that break it
Exchange(S, T)    == [Statement("exchange", S) EXCEPT !.by = T]   \* if S is there: T instead

(* The statements around them in the scripts.                              *)
Require(S)         == Statement("require", S)        \* readback: throw when not in force
SkipIfRecorded(id) == [Statement("skipIfRecorded", {}) EXCEPT !.id = id]
Record(id)         == [Statement("record", {}) EXCEPT !.id = id]
RecordOnce(id)     == [Statement("recordOnce", {}) EXCEPT !.id = id]   \* ON CONFLICT DO NOTHING
Unless(S, sql)     == [Statement("unless", S) EXCEPT !.sql = sql]      \* complete(state): no SQL

There(d, S) == \E x \in S : d.shape[x] # "absent"
InForce(d, S) == \A x \in S : d.shape[x] = "inforce"

Fails(d, s) ==
    \/ s.do = "gate" /\ s.on \cap d.dirty # {}
    \/ s.do = "add" /\ \E x \in s.on \cap d.dirty : d.shape[x] = "absent"
    \/ s.do = "addNew" /\ (There(d, s.on) \/ s.on \cap d.dirty # {})
    \/ s.do = "validate" /\ \E x \in s.on \cap d.dirty : d.shape[x] = "unvalidated"
    \/ s.do = "exchange" /\ There(d, s.on) /\ s.by \cap d.dirty # {}
    \/ s.do = "require" /\ ~InForce(d, s.on)
    \/ s.do = "record" /\ s.id \in d.recorded

Turned(do, old) ==
    CASE do \in {"create", "add", "addNew"} /\ old = "absent"  -> "inforce"
      [] do = "addUnvalidated" /\ old = "absent"               -> "unvalidated"
      [] do = "validate" /\ old = "unvalidated"                -> "inforce"
      [] do = "drop"                                           -> "absent"
      [] OTHER                                                 -> old

ShapeAfter(d, s) ==
    IF s.do = "exchange" /\ There(d, s.on)
    THEN [x \in DOMAIN d.shape |-> IF x \in s.on THEN "absent"
                                   ELSE IF x \in s.by THEN "inforce" ELSE d.shape[x]]
    ELSE [x \in DOMAIN d.shape |-> IF x \in s.on THEN Turned(s.do, d.shape[x]) ELSE d.shape[x]]

After(d, s) ==
    IF ~d.ok THEN d
    ELSE IF s.do = "skipIfRecorded" THEN [d EXCEPT !.skip = s.id \in d.recorded]
    ELSE IF d.skip THEN d
    ELSE IF Fails(d, s) THEN [d EXCEPT !.ok = FALSE]
    ELSE [shape    |-> ShapeAfter(d, s),
          dirty    |-> IF s.do = "backfill" THEN d.dirty \ s.on ELSE d.dirty,
          recorded |-> IF s.do \in {"record", "recordOnce"} THEN d.recorded \cup {s.id} ELSE d.recorded,
          ok       |-> TRUE,
          skip     |-> FALSE]

(* One statement after the other.                                          *)
AllOf(d, sql) ==
    LET after[n \in 0 .. Len(sql)] == IF n = 0 THEN d ELSE After(after[n - 1], sql[n])
    IN  after[Len(sql)]

Executed(d, s) ==
    IF s.do # "unless" THEN After(d, s)
    ELSE IF InForce(d, s.on) THEN d ELSE AllOf(d, s.sql)

(* A transaction: all of its statements or none.                           *)
Transacted(d, statements) ==
    LET after[n \in 0 .. Len(statements)] ==
            IF n = 0 THEN d ELSE Executed(after[n - 1], statements[n])
    IN  after[Len(statements)]

-----------------------------------------------------------------------------
(* The same for some objects X and one migration, whatever the rest of the *)
(* database is: all that statements which do not fail may make of them.    *)
Excerpt(d, X, id) ==
    [shape |-> [x \in X |-> d.shape[x]], dirty |-> d.dirty \cap X, recorded |-> d.recorded \cap {id},
     ok |-> d.ok, skip |-> d.skip]

Confined(s, X, id) ==
    [do |-> IF s.do \in {"record", "recordOnce"} /\ s.id # id THEN "elsewhere" ELSE s.do,
     on |-> s.on \cap X, by |-> s.by \cap X, id |-> s.id, sql |-> <<>>]

ExcerptsAfter(D, s, X, id) ==
    IF s.do = "skipIfRecorded" /\ s.id # id
    THEN {[d EXCEPT !.skip = b] : d \in D, b \in BOOLEAN}
    ELSE {e \in {After(d, Confined(s, X, id)) : d \in D} : e.ok}

ExcerptsAfterAll(D, sql, X, id) ==
    LET after[n \in 0 .. Len(sql)] == IF n = 0 THEN D ELSE ExcerptsAfter(after[n - 1], sql[n], X, id)
    IN  after[Len(sql)]

(* Only an object of X that is not in force shows that the condition does  *)
(* not hold.                                                               *)
ExcerptsExecuted(D, s, X, id) ==
    IF s.do # "unless" THEN ExcerptsAfter(D, s, X, id)
    ELSE {d \in D : InForce(d, s.on \cap X)} \cup ExcerptsAfterAll(D, s.sql, X, id)

ExcerptsTransacted(D, statements, X, id) ==
    LET after[n \in 0 .. Len(statements)] ==
            IF n = 0 THEN D ELSE ExcerptsExecuted(after[n - 1], statements[n], X, id)
    IN  after[Len(statements)]
=============================================================================
