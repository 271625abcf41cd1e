------------------------ MODULE MCPayoutSettlement ------------------------
(* Small instances of PayoutSettlement: two instances of the backend, one  *)
(* instructor with two sessions, two payouts.                              *)
EXTENDS PayoutSettlement, TLC

CONSTANTS i1, i2, t1, p1, p2, whole, first,
          Questions        \* what a run asks

MCInstances  == {i1, i2}
MCSessions   == 1..2
MCTeacher    == [s \in Sessions |-> t1]
MCWithin     == [period \in Periods |-> IF period = first THEN {1} ELSE Sessions]
MCAutoAmount == [s \in Sessions |-> 1]
MCOverrides  == {3}
MCAdjust     == {5}

(* Every command on payouts, and one that takes a session away.            *)
MCSettlementCommands == {"generate", "removeSession"} \cup PayoutOps

(* generate, and the commands that change whether a session is billable or *)
(* for how much.                                                           *)
MCPricingCommands == {"generate", "setPayAmount", "approveReport", "rejectReport", "clearAttendance", "removeSession"}

MCAllCommands == {"generate"} \cup PayoutOps \cup SessionOps

MCInstanceSymmetry == Permutations(MCInstances)
MCSymmetry == Permutations(MCInstances) \cup Permutations({p1, p2})
-----------------------------------------------------------------------------
(* A run may ask two questions at once: of two sessions and two payouts    *)
(* under the commands on payouts ("settlement"), and of one session and    *)
(* one payout under every command that matters to a session in a payout    *)
(* ("pricing").  "any" asks of everything its constants allow.             *)
VARIABLE question

Asked ==
    CASE question = "settlement" ->
           \A i \in Instances : cmd[i].op \in MCSettlementCommands \cup {"none"} /\ cmd[i].arg # first
      [] question = "pricing" ->
           /\ \A i \in Instances : /\ cmd[i].op \notin {"adjust", "unconfirm"}
                                   /\ cmd[i].target # 2 /\ cmd[i].arg # whole
           /\ Cardinality({p \in Payouts : payout[p].status # "absent"}) <= 1
      [] question = "any" -> TRUE

MCInit ==
    /\ question \in Questions
    /\ Init
    /\ question = "pricing" => report[2] = "submitted"

MCSpec == MCInit /\ [][Next /\ UNCHANGED question /\ Asked']_<<vars, question>>
=============================================================================
