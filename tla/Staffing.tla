------------------------------ MODULE Staffing ------------------------------
(***************************************************************************)
(* What is recorded about the staff: contracts of teachers                 *)
(* (instructor-contracts.service) and the attendance of a working day      *)
(* (staff-attendance.service).  An account stops in Accounts; here it is   *)
(* only looked at.  Days are numbers, Open the end of an open period.      *)
(***************************************************************************)
EXTENDS UnitOfWork

CONSTANTS Teachers, ContractSlots,
          Open,            \* after every day a period may name
          StaffCommands,
          MaxStaffing      \* bound: commands that begin

VARIABLES employed,        \* users: active accounts that teach
          contract,        \* instructor_contracts: [from, to, active, version] or NoContract
          present,         \* staff_attendance of a day: status, or "none"
          staffings        \* counts up to MaxStaffing

staffVars == <<employed, contract, present, staffings>>

NoContract == [from |-> 0, to |-> 0, active |-> FALSE, version |-> 0]

ASSUME StaffCommandsAssumption ==
    \A c \in StaffCommands :
        /\ c.op # "none" /\ c.t \in Teachers
        /\ c.op \in {"contract", "amend"} => c.period \in [from : Nat, to : Nat]
        /\ c.op = "amend" => c.row \in ContractSlots /\ c.active \in BOOLEAN
        /\ c.op = "attend" => c.status \in {"present", "absent"}

StaffingInit ==
    /\ employed = Teachers
    /\ contract = [t \in Teachers |-> [i \in ContractSlots |-> NoContract]]
    /\ present = [t \in Teachers |-> "none"]
    /\ staffings = 0

StaffKeys(c) ==
    IF c.op \in {"contract", "amend"} THEN {<<"instructor", c.t>>} ELSE {<<"user", c.t>>}

(* Mutant: contracts are written without the teacher's lock.               *)
ContractsUnlocked(c) == IF c.op = "contract" THEN {} ELSE StaffKeys(c)

KeysOfStaffCommand(c) == StaffKeys(c)

BeginStaffCommand(p) ==
    /\ staffings < MaxStaffing
    /\ \E c \in StaffCommands :
         Begin(p, c, KeysOfStaffCommand(c), [employed |-> employed, contract |-> contract, present |-> present])
    /\ staffings' = staffings + 1
    /\ UNCHANGED <<employed, contract, present>>

RefuseStaffCommand(p) == Abort(p) /\ UNCHANGED staffVars

Was(p) == run[p].saw

(* An account is terminated or restored.                                   *)
EmployOrDismiss(p) ==
    LET c == run[p].cmd IN
    /\ Running(p, "dismiss")
    /\ employed' = IF c.t \in employed THEN employed \ {c.t} ELSE employed \cup {c.t}
    /\ End(p)
    /\ UNCHANGED <<contract, present, staffings>>

(* assertNoOverlap: with the active contracts of the teacher.              *)
Meets(a, b) == a.from <= b.to /\ b.from <= a.to

OnlyOneIn(rows, period, but) == \A i \in ContractSlots \ but : rows[i].active => ~Meets(rows[i], period)

CreateContract(p) ==
    LET c == run[p].cmd IN
    /\ Running(p, "contract")
    /\ c.t \in Was(p).employed /\ c.period.from <= c.period.to
    /\ OnlyOneIn(Was(p).contract[c.t], c.period, {})
    /\ \E i \in ContractSlots :
         /\ contract[c.t][i] = NoContract
         /\ contract' = [contract EXCEPT ![c.t][i] =
                            [from |-> c.period.from, to |-> c.period.to, active |-> TRUE, version |-> 1]]
    /\ End(p)
    /\ UNCHANGED <<employed, present, staffings>>

(* update: compared with the row that was read (updatedAt); a contract     *)
(* only ends with a last day.                                              *)
AmendContract(p) ==
    LET c   == run[p].cmd
        was == Was(p).contract[c.t][c.row]
    IN  /\ Running(p, "amend") /\ was # NoContract
        /\ c.period.from <= c.period.to
        /\ ~c.active => c.period.to # Open
        /\ c.active => OnlyOneIn(Was(p).contract[c.t], c.period, {c.row})
        /\ <<was.from, was.to, was.active>> # <<c.period.from, c.period.to, c.active>>
        /\ contract[c.t][c.row].version = was.version
        /\ contract' = [contract EXCEPT ![c.t][c.row] =
                           [from |-> c.period.from, to |-> c.period.to, active |-> c.active,
                            version |-> was.version + 1]]
        /\ End(p)
        /\ UNCHANGED <<employed, present, staffings>>

(* upsert: inserts, or updates the row it read; a row that is the same is  *)
(* returned as it is.                                                      *)
RecordAttendance(p) ==
    LET c == run[p].cmd IN
    /\ Running(p, "attend") /\ c.t \in Was(p).employed
    /\ present[c.t] = Was(p).present[c.t]
    /\ present' = [present EXCEPT ![c.t] = c.status]
    /\ End(p)
    /\ UNCHANGED <<employed, contract, staffings>>

RemoveAttendance(p) ==
    LET c == run[p].cmd IN
    /\ Running(p, "unattend") /\ Was(p).present[c.t] # "none" /\ present[c.t] # "none"
    /\ present' = [present EXCEPT ![c.t] = "none"]
    /\ End(p)
    /\ UNCHANGED <<employed, contract, staffings>>

StaffingNext ==
    \E p \in Instances :
        \/ BeginStaffCommand(p) \/ RefuseStaffCommand(p) \/ EmployOrDismiss(p)
        \/ CreateContract(p) \/ AmendContract(p)
        \/ RecordAttendance(p) \/ RemoveAttendance(p)

-----------------------------------------------------------------------------
StaffingTypeOK ==
    /\ employed \subseteq Teachers
    /\ \A t \in Teachers, i \in ContractSlots :
         contract[t][i] # NoContract => contract[t][i].from <= contract[t][i].to
    /\ \A t \in Teachers : present[t] \in {"none", "present", "absent"}

(* create, update: no index keeps contracts apart.  On every day a teacher *)
(* has one contract in force, whoever wrote or amended them.               *)
ContractsStayApart ==
    \A t \in Teachers : \A i, j \in ContractSlots :
        i # j /\ contract[t][i].active /\ contract[t][j].active => ~Meets(contract[t][i], contract[t][j])
=============================================================================
