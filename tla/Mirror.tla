------------------------------- MODULE Mirror -------------------------------
(***************************************************************************)
(* The rows of one table as one backend process sees them: a PostgreSQL    *)
(* table (PostgresCollectionStore, ClassSessionsStore) and the in-memory   *)
(* copy that commands decide by (InMemoryDatabase).                        *)
(*                                                                         *)
(* The process runs one transaction at a time (InMemoryDatabase            *)
(* .transaction) while it answers GETs and single statements outside of it *)
(* and other instances write the same table.  A query and what is done to  *)
(* the mirror with its answer are two steps: the await lies between them.  *)
(***************************************************************************)
EXTENDS Naturals, FiniteSets

CONSTANTS RowIds,
          MaxWrites        \* bound: values written

ASSUME WritesAssumption == MaxWrites \in Nat \ {0}

VARIABLES db,              \* the committed rows
          tx,              \* the open transaction of this process
          mirror,          \* InMemoryDatabase.store
          fetched,         \* SELECT * answers under way, by who asked
          applying,        \* a statement that returned and is not in the mirror yet
          writes,          \* counts up to MaxWrites; names the values written
          committed        \* history: what transactions that committed wrote

mirrorVars == <<db, tx, mirror, fetched, applying, writes, committed>>

NoRow    == [val |-> 0, deleted |-> FALSE]
Active(row)  == row # NoRow /\ ~row.deleted
Removed(row) == [row EXCEPT !.deleted = TRUE]

Nothing == [op |-> "nothing"]
NoTx == [open |-> FALSE, locked |-> {}, own |-> <<>>, snap |-> <<>>, fresh |-> FALSE,
         seeded |-> {}, wrote |-> {}]

Readers == {"tx", "get"}
Writers == {"tx", "alone"}

MirrorInit ==
    /\ db \in [RowIds -> {NoRow, [val |-> 1, deleted |-> FALSE]}]
    /\ tx = NoTx
    /\ mirror = db
    /\ fetched = [x \in Readers |-> Nothing]
    /\ applying = [w \in Writers |-> Nothing]
    /\ writes = 1
    /\ committed = {<<r, db[r]>> : r \in RowIds}

(* What the transaction reads: its own writes over what is committed.      *)
View == [r \in RowIds |-> IF r \in DOMAIN tx.own THEN tx.own[r] ELSE db[r]]

(* The transaction awaits its statements one by one.                       *)
TxReady == tx.open /\ fetched["tx"] = Nothing /\ applying["tx"] = Nothing

Store(r, row) ==
    /\ db' = [db EXCEPT ![r] = row]
    /\ committed' = committed \cup {<<r, row>>}

-----------------------------------------------------------------------------
(* InMemoryDatabase.transaction, PostgresConnectionService.transaction.    *)
BeginTx ==
    /\ ~tx.open
    /\ tx' = [NoTx EXCEPT !.open = TRUE, !.snap = mirror]
    /\ UNCHANGED <<db, mirror, fetched, applying, writes, committed>>

LockRows ==
    /\ TxReady /\ tx.locked = {}
    /\ \E keys \in SUBSET {r \in RowIds : db[r] # NoRow} \ {{}} : tx' = [tx EXCEPT !.locked = keys]
    /\ UNCHANGED <<db, mirror, fetched, applying, writes, committed>>

(* COMMIT, and a COMMIT whose answer is lost: an exception here.           *)
CommitRows ==
    /\ db' = View
    /\ committed' = committed \cup tx.wrote
    /\ tx' = NoTx
    /\ UNCHANGED <<fetched, applying, writes>>

CommitTx == TxReady /\ CommitRows /\ UNCHANGED mirror

CommitUnanswered == TxReady /\ CommitRows /\ mirror' = tx.snap

(* An exception: the whole mirror is what it was when the transaction      *)
(* began.                                                                  *)
Restored == tx.snap

(* Mutant: only the database rolls back.                                   *)
NotRestored == mirror

AfterRollback == Restored

RollbackTx ==
    /\ TxReady
    /\ mirror' = AfterRollback
    /\ tx' = NoTx
    /\ UNCHANGED <<db, fetched, applying, writes, committed>>

-----------------------------------------------------------------------------
(* hydrate: in the transaction after its locks, or for a GET.              *)
AfterTheLocks == tx.locked # {}

(* Mutant: the refresh comes first.                                        *)
Anytime == TRUE

MayRefresh == AfterTheLocks

FetchInTx ==
    /\ TxReady /\ MayRefresh /\ tx.own = <<>>
    /\ fetched' = [fetched EXCEPT !["tx"] = View]
    /\ UNCHANGED <<db, tx, mirror, applying, writes, committed>>

FetchForGet ==
    /\ fetched["get"] = Nothing
    /\ fetched' = [fetched EXCEPT !["get"] = db]
    /\ UNCHANGED <<db, tx, mirror, applying, writes, committed>>

(* replaceExact.                                                           *)
Replace(x) ==
    /\ fetched[x] # Nothing
    /\ mirror' = fetched[x]
    /\ fetched' = [fetched EXCEPT ![x] = Nothing]
    /\ tx' = IF tx.open THEN [tx EXCEPT !.fresh = (x = "tx")] ELSE tx
    /\ UNCHANGED <<db, applying, writes, committed>>

-----------------------------------------------------------------------------
(* The statements of the stores: the row they find and the row they write. *)
(* updateIf, claimPayout and setPayAmount are updates that compare more    *)
(* columns; removeByField removes several rows.                            *)
Finds(op, row) ==
    CASE op = "insert"                      -> row = NoRow
      [] op \in {"update", "upsert", "remove"} -> Active(row)
      [] op \in {"restore", "bringBack"}       -> row.deleted

Written(op, row) ==
    IF op = "remove" THEN Removed(row) ELSE [val |-> writes + 1, deleted |-> FALSE]

(* seedExact, update, remove, restore of InMemoryDatabase: how the answer  *)
(* of each statement reaches the mirror.                                   *)
SeedExact(m, row)  == IF m = NoRow THEN row ELSE m
MirrorUpdate(m, row) == IF Active(m) THEN row ELSE m

InMirror(op, m, row) ==
    CASE op \in {"insert", "upsert", "bringBack"} -> SeedExact(m, row)
      [] op = "update"  -> MirrorUpdate(m, row)
      [] op = "remove"  -> IF Active(m) THEN Removed(m) ELSE m
      [] op = "restore" -> IF m = NoRow THEN m ELSE row

(* What upsertActive and ClassSessionsStore.restore leave as it was.       *)
SeedsOver(op) == op \in {"upsert", "bringBack"}

Execute(op, r) ==
    /\ TxReady
    /\ op # "insert" => r \in tx.locked
    /\ writes < MaxWrites
    /\ Finds(op, View[r])
    /\ tx' = [tx EXCEPT !.own = [x \in DOMAIN tx.own \cup {r} |->
                                    IF x = r THEN Written(op, View[r]) ELSE tx.own[x]],
                        !.wrote = @ \cup {<<r, Written(op, View[r])>>},
                        !.seeded = IF SeedsOver(op) THEN @ \cup {r} ELSE @]
    /\ applying' = [applying EXCEPT !["tx"] = [op |-> op, id |-> r, row |-> Written(op, View[r])]]
    /\ writes' = writes + 1
    /\ UNCHANGED <<db, mirror, fetched, committed>>

(* A command outside a transaction inserts a row.                          *)
InsertAlone(r) ==
    /\ applying["alone"] = Nothing
    /\ writes < MaxWrites
    /\ db[r] = NoRow /\ r \notin DOMAIN tx.own
    /\ Store(r, Written("insert", NoRow))
    /\ applying' = [applying EXCEPT !["alone"] = [op |-> "insert", id |-> r, row |-> Written("insert", NoRow)]]
    /\ writes' = writes + 1
    /\ UNCHANGED <<tx, mirror, fetched>>

Apply(w) ==
    /\ applying[w] # Nothing
    /\ LET s == applying[w] IN mirror' = [mirror EXCEPT ![s.id] = InMirror(s.op, @, s.row)]
    /\ applying' = [applying EXCEPT ![w] = Nothing]
    /\ UNCHANGED <<db, tx, fetched, writes, committed>>

(* A transaction of another instance, under the same advisory locks.       *)
WriteElsewhere(op, r) ==
    /\ writes < MaxWrites
    /\ r \notin tx.locked /\ r \notin DOMAIN tx.own
    /\ Finds(op, db[r])
    /\ Store(r, Written(op, db[r]))
    /\ writes' = writes + 1
    /\ UNCHANGED <<tx, mirror, fetched, applying>>

(* The process stops and another one starts: every table is hydrated.      *)
Restart ==
    /\ mirror' = db
    /\ tx' = NoTx
    /\ fetched' = [x \in Readers |-> Nothing]
    /\ applying' = [w \in Writers |-> Nothing]
    /\ UNCHANGED <<db, writes, committed>>

MirrorNext ==
    \/ BeginTx \/ LockRows \/ CommitTx \/ CommitUnanswered \/ RollbackTx
    \/ FetchInTx \/ FetchForGet \/ \E x \in Readers : Replace(x)
    \/ \E r \in RowIds :
         \/ \E op \in {"insert", "update", "upsert", "remove", "restore", "bringBack"} : Execute(op, r)
         \/ InsertAlone(r)
         \/ \E op \in {"insert", "update", "remove", "restore"} : WriteElsewhere(op, r)
    \/ \E w \in Writers : Apply(w)
    \/ Restart

MirrorSpec == MirrorInit /\ [][MirrorNext]_mirrorVars

-----------------------------------------------------------------------------
MirrorTypeOK ==
    /\ db \in [RowIds -> [val : 0 .. MaxWrites, deleted : BOOLEAN]]
    /\ mirror \in [RowIds -> [val : 0 .. MaxWrites, deleted : BOOLEAN]]
    /\ tx.locked \subseteq RowIds /\ DOMAIN tx.own \subseteq RowIds
    /\ ~tx.open => tx = NoTx

(* transaction, in-memory.database.ts: whatever GETs and other writes run  *)
(* beside it, a transaction that is undone leaves no row behind: every     *)
(* active row of the mirror was written by a transaction that committed or *)
(* by the open one.                                                        *)
NoGhostRows ==
    \A r \in RowIds : Active(mirror[r]) =>
        <<r, mirror[r]>> \in committed \cup tx.wrote

(* lockTargets and then the refresh, by every command: what it has locked  *)
(* is in the mirror as it is in the database, through all of its own       *)
(* writes, as long as no GET replaces the mirror meanwhile and but for the *)
(* rows a statement seeds over.                                            *)
LockedRowsAreCurrent ==
    tx.fresh /\ TxReady => \A r \in tx.locked \ tx.seeded : mirror[r] = View[r]
=============================================================================
