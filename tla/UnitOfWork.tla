----------------------------- MODULE UnitOfWork -----------------------------
(***************************************************************************)
(* A command inside CalendarUnitOfWork.run: it takes its advisory locks,   *)
(* refreshes what it validates and, later, writes and commits or is        *)
(* refused.  AdvisoryLocks models how the locks are taken, one by one; the *)
(* modules of the records start here, with the keys of one lockTargets     *)
(* call taken together and the refreshed rows kept in `saw`.               *)
(***************************************************************************)
EXTENDS Naturals, FiniteSets, TLC

CONSTANTS Instances        \* commands that can be under way at the same time

VARIABLES run              \* [Instances -> [cmd, held, saw]]

NoCommand == [op |-> "none"]
Idle      == [cmd |-> NoCommand, held |-> {}, saw |-> [at |-> "nothing"]]

NothingRuns == run = [p \in Instances |-> Idle]

(* Mutant: the locks are taken in shared mode.                             *)
SharedMode(p, keys) == TRUE

(* pg_advisory_xact_lock: nobody else holds the keys.                      *)
Free(p, keys) == \A q \in Instances \ {p} : run[q].held \cap keys = {}

(* lockTargets, and the refresh of the rows the command reads.             *)
Begin(p, cmd, keys, saw) ==
    /\ run[p].cmd.op = "none"
    /\ Free(p, keys)
    /\ run' = [run EXCEPT ![p] = [cmd |-> cmd, held |-> keys, saw |-> saw]]

Running(p, op) == run[p].cmd.op = op

(* The transaction ends; its locks are xact-scoped.                        *)
End(p) == run' = [run EXCEPT ![p] = Idle]

(* An exception: the transaction is rolled back.                           *)
Abort(p) == run[p].cmd.op # "none" /\ End(p)

(* No two commands hold the same key.                                      *)
LocksExclude == \A p, q \in Instances : p # q => run[p].held \cap run[q].held = {}
=============================================================================
