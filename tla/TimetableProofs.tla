-------------------------- MODULE TimetableProofs --------------------------
(* Requests are decided once, and what was placed under the instructor's   *)
(* lock overlaps neither another such placement nor blocked time: the      *)
(* proofs, for any number of instances, sessions, requests and commands.   *)
EXTENDS Timetable, TLAPS

(* Every instance has a request field, every request a state.              *)
Shaped ==
    /\ DOMAIN run = Instances
    /\ \A p \in Instances : "req" \in DOMAIN run[p]
    /\ DOMAIN request = Requests
    /\ \A r \in Requests : "state" \in DOMAIN request[r]

(* FOR UPDATE: a request that an instance is approving is pending, and no  *)
(* other instance is approving it.                                         *)
Claimed ==
    /\ \A p \in Instances : run[p].req # NoRequest =>
          run[p].req \in Requests /\ request[run[p].req].state = "pending"
    /\ \A p, q \in Instances : run[p].req = run[q].req /\ run[p].req # NoRequest => p = q

Held == Shaped /\ Claimed

LEMMA IdleShape == "req" \in DOMAIN Idle /\ Idle.req = NoRequest
BY DEF Idle

LEMMA InitHeld == Init => Held
<1> SUFFICES ASSUME Init PROVE Held
  OBVIOUS
<1>1. DOMAIN run = Instances /\ \A p \in Instances : run[p] = Idle
  BY DEF Init
<1>2. /\ DOMAIN request = Requests
      /\ \A r \in Requests : request[r] = [state |-> "absent", cmd |-> NoCommand, ids |-> {}]
  BY DEF Init
<1>3. Shaped
  BY <1>1, <1>2, IdleShape DEF Shaped
<1>4. Claimed
  BY <1>1, IdleShape DEF Claimed
<1> QED BY <1>3, <1>4 DEF Held

(* A step that leaves requests and every claim as they are.                *)
LEMMA SameClaims ==
    ASSUME Held, NEW p \in Instances, NEW new,
           "req" \in DOMAIN new, new.req \in {run[p].req, NoRequest},
           run' = [run EXCEPT ![p] = new], request' = request
    PROVE  Held'
BY DEF Held, Shaped, Claimed

LEMMA BeginHeld ==
    ASSUME TimetableConstants, Held, NEW p \in Instances, NEW c, NEW r \in Requests \cup {NoRequest},
           r \in Requests => MustPending(r), Begin(p, c, r)
    PROVE  Held'
<1> DEFINE step == IF SeriesFirst(c) THEN "series" ELSE "keys"
           want == IF SeriesFirst(c) THEN {<<"series", session[c.id].series>>} ELSE KeysOf(c)
           new  == [Idle EXCEPT !.cmd = c, !.req = r, !.step = step, !.want = want]
<1>1. run' = [run EXCEPT ![p] = new] /\ request' = request
  BY DEF Begin, data
<1> HIDE DEF step, want
<1>2. "req" \in DOMAIN new /\ new.req = r
  BY DEF Idle
<1> HIDE DEF new
<1>3. \A q \in Instances : run'[q] = IF q = p THEN new ELSE run[q]
  BY <1>1 DEF Held, Shaped
<1>4. Shaped'
  BY <1>1, <1>2, <1>3 DEF Held, Shaped
<1>5. Claimed'
  BY <1>1, <1>2, <1>3 DEF Held, Claimed, MustPending, TimetableConstants
<1> QED BY <1>4, <1>5 DEF Held

LEMMA LockSeriesHeld ==
    ASSUME Held, NEW p \in Instances, LockSeries(p)
    PROVE  Held'
<1> DEFINE want == KeysOf(run[p].cmd)
           new  == [run[p] EXCEPT !.step = "keys", !.held = run[p].want, !.want = want]
<1>1. run' = [run EXCEPT ![p] = new] /\ request' = request
  BY DEF LockSeries, data, Held, Shaped
<1> HIDE DEF want
<1>2. "req" \in DOMAIN new /\ new.req = run[p].req
  BY DEF Held, Shaped
<1> HIDE DEF new
<1> QED BY <1>1, <1>2, SameClaims

LEMMA CheckHeld ==
    ASSUME Held, NEW p \in Instances, Check(p)
    PROVE  Held'
<1> DEFINE plan == PlanOf(run[p].cmd)
           new  == [run[p] EXCEPT !.step = "commit", !.held = run[p].held \cup run[p].want,
                                  !.want = {}, !.plan = plan]
<1>1. run' = [run EXCEPT ![p] = new] /\ request' = request
  BY DEF Check, data, Held, Shaped
<1> HIDE DEF plan
<1>2. "req" \in DOMAIN new /\ new.req = run[p].req
  BY DEF Held, Shaped
<1> HIDE DEF new
<1> QED BY <1>1, <1>2, SameClaims

LEMMA AbortHeld ==
    ASSUME Held, NEW p \in Instances, Abort(p)
    PROVE  Held'
<1>1. run' = [run EXCEPT ![p] = Idle] /\ request' = request
  BY DEF Abort, data
<1> QED BY <1>1, IdleShape, SameClaims

LEMMA CommitHeld ==
    ASSUME Held, NEW p \in Instances, Commit(p)
    PROVE  Held'
<1> DEFINE r == run[p].req
<1>1. run' = [run EXCEPT ![p] = Idle]
  BY DEF Commit
<1>2. request' = IF r = NoRequest THEN request ELSE [request EXCEPT ![r].state = "approved"]
  BY DEF Commit
<1>3. Shaped'
  BY <1>1, <1>2, IdleShape DEF Held, Shaped
<1>4. \A q \in Instances \ {p} : run'[q] = run[q]
  BY <1>1 DEF Held, Shaped
<1>5. run'[p].req = NoRequest
  BY <1>1, IdleShape DEF Held, Shaped
<1>6. \A s \in Requests : s # r => request'[s] = request[s]
  BY <1>2 DEF Held, Shaped
<1>7. Claimed'
  BY <1>4, <1>5, <1>6 DEF Held, Claimed
<1> QED BY <1>3, <1>7 DEF Held

(* A request nobody is approving may change.                               *)
LEMMA RequestHeld ==
    ASSUME Held, NEW r \in Requests, \A p \in Instances : run[p].req # r, NEW new,
           "state" \in DOMAIN new,
           request' = [request EXCEPT ![r] = new], run' = run
    PROVE  Held'
BY DEF Held, Shaped, Claimed

LEMMA RequestStep ==
    ASSUME TimetableConstants, Held, NEW r \in Requests, NEW c,
           Submit(r, c) \/ Amend(r, c) \/ Reject(r) \/ Withdraw(r)
    PROVE  /\ Held'
           /\ request[r].state \in {"absent", "pending"}
           /\ \A s \in Requests \ {r} : request'[s] = request[s]
<1>1. \A p \in Instances : run[p].req # r
  BY DEF Submit, Amend, Reject, Withdraw, Decide, MustPending, Held, Claimed, TimetableConstants
<1>2. request[r].state \in {"absent", "pending"}
  BY DEF Submit, Amend, Reject, Withdraw, Decide, MustPending
<1>3. CASE Submit(r, c)
  <2> DEFINE cmd == Stated(c)
             ids == IF c.op \in {"update", "remove"} THEN Targets(c) ELSE {}
             new == [state |-> "pending", cmd |-> cmd, ids |-> ids]
  <2>1. request' = [request EXCEPT ![r] = new] /\ run' = run
    BY <1>3 DEF Submit
  <2> HIDE DEF cmd, ids
  <2>2. "state" \in DOMAIN new
    OBVIOUS
  <2> HIDE DEF new
  <2> QED BY <1>1, <1>2, <2>1, <2>2, RequestHeld DEF Held, Shaped
<1>4. CASE Amend(r, c)
  <2> DEFINE cmd == Amended(request[r].cmd, c)
             new == [request[r] EXCEPT !.cmd = cmd]
  <2>1. request' = [request EXCEPT ![r] = new] /\ run' = run
    BY <1>4 DEF Amend
  <2> HIDE DEF cmd
  <2>2. "state" \in DOMAIN new
    BY DEF Held, Shaped
  <2> HIDE DEF new
  <2> QED BY <1>1, <1>2, <2>1, <2>2, RequestHeld DEF Held, Shaped
<1>5. ASSUME NEW state, Decide(r, state)
      PROVE  Held' /\ \A s \in Requests \ {r} : request'[s] = request[s]
  <2> DEFINE new == [request[r] EXCEPT !.state = state]
  <2>1. request' = [request EXCEPT ![r] = new] /\ run' = run
    BY <1>5 DEF Decide
  <2>2. "state" \in DOMAIN new
    BY DEF Held, Shaped
  <2> HIDE DEF new
  <2> QED BY <1>1, <2>1, <2>2, RequestHeld DEF Held, Shaped
<1> QED BY <1>2, <1>3, <1>4, <1>5 DEF Reject, Withdraw

(* Every step keeps the claims, and changes no request that is decided.    *)
LEMMA StepHeld ==
    ASSUME TimetableConstants, Held, Next
    PROVE  Held' /\ \A s \in Requests :
              request[s].state \in {"approved", "rejected", "withdrawn"} => request'[s] = request[s]
<1>1. ASSUME NEW p \in Instances, LockSeries(p)
      PROVE  Held' /\ request' = request
  BY <1>1, LockSeriesHeld DEF LockSeries, data
<1>2. ASSUME NEW p \in Instances, Check(p)
      PROVE  Held' /\ request' = request
  BY <1>2, CheckHeld DEF Check, data
<1>3. ASSUME NEW p \in Instances, Commit(p)
      PROVE  /\ Held'
             /\ \A s \in Requests : request[s].state # "pending" => request'[s] = request[s]
  <2>1. Held'
    BY <1>3, CommitHeld
  <2>2. request' = IF run[p].req = NoRequest THEN request
                   ELSE [request EXCEPT ![run[p].req].state = "approved"]
    BY <1>3 DEF Commit
  <2> QED BY <2>1, <2>2 DEF Held, Shaped, Claimed
<1>4. ASSUME NEW p \in Instances, Abort(p)
      PROVE  Held' /\ request' = request
  BY <1>4, AbortHeld DEF Abort, data
<1>5. ASSUME NEW p \in Instances, NEW c \in Commands, Begin(p, c, NoRequest)
      PROVE  Held' /\ request' = request
  BY <1>5, BeginHeld DEF Begin, data, TimetableConstants
<1>6. ASSUME NEW p \in Instances, NEW r \in Requests, Approve(p, r)
      PROVE  Held' /\ request' = request
  BY <1>6, BeginHeld DEF Approve, Begin, data
<1>7. ASSUME NEW r \in Requests, NEW c,
             Submit(r, c) \/ Amend(r, c) \/ Reject(r) \/ Withdraw(r)
      PROVE  /\ Held'
             /\ \A s \in Requests :
                   request[s].state \notin {"absent", "pending"} => request'[s] = request[s]
  BY <1>7, RequestStep
<1> QED BY <1>1, <1>2, <1>3, <1>4, <1>5, <1>6, <1>7 DEF Next

(* A claim stays with the instance that holds it, in every reachable state.*)
THEOREM Claims == Spec => []Held
<1>1. ASSUME Held, UNCHANGED vars PROVE Held'
  BY <1>1 DEF vars, data, Held, Shaped, Claimed
<1>2. Held /\ [Next]_vars => Held'
  BY <1>1, StepHeld, TimetableConstants
<1> QED BY InitHeld, <1>2, PTL DEF Spec

(* mustPending: whoever decides at the same time, a request that was       *)
(* approved, rejected or withdrawn never changes again.                    *)
THEOREM DecidedForGood == Spec => DecidedOnce
<1> DEFINE Kept == \A r \in Requests :
              request[r].state \in {"approved", "rejected", "withdrawn"} => request'[r] = request[r]
<1>1. Held /\ [Next]_vars => [Kept]_vars
  BY StepHeld, TimetableConstants
<1>2. Spec => [][Kept]_vars
  BY <1>1, Claims, PTL DEF Spec
<1> QED BY <1>2 DEF DecidedOnce

-----------------------------------------------------------------------------
(* The instructor's lock.                                                  *)

Steps == {"step", "cmd", "req", "held", "want", "plan"}

KnownCommand(c) == "op" \in DOMAIN c /\ c.op \in Operations

Formed ==
    /\ DOMAIN run = Instances
    /\ \A p \in Instances : DOMAIN run[p] = Steps /\ (run[p].step # "idle" => KnownCommand(run[p].cmd))
    /\ DOMAIN request = Requests
    /\ \A r \in Requests : /\ {"state", "cmd", "ids"} = DOMAIN request[r]
                           /\ request[r].state # "absent" => KnownCommand(request[r].cmd)

(* No two transactions hold the same key; a block is for an instructor who *)
(* is locked.                                                              *)
Exclusive == \A p, q \in Instances : p # q => run[p].held \cap run[q].held = {}

BlockLocked(p) ==
    run[p].step # "idle" /\ run[p].cmd.op = "block" =>
        /\ run[p].step # "series"
        /\ run[p].step = "keys" => run[p].want = LockOf(run[p].cmd.who)
        /\ run[p].step = "commit" =>
             LockOf(run[p].cmd.who) \subseteq run[p].held /\ DOMAIN run[p].plan = {}

(* What the last check of a command saw and its locks keep true until its  *)
(* commit: the time it places a session at is free of sessions placed      *)
(* under the lock and of blocks, and so is the time it blocks.             *)
Clash(row, t) ==
    Busy(session[t]) /\ session[t].who = row.who /\ Occupied(session[t]) \cap Occupied(row) # {}

RowIsFree(p, s) ==
    /\ \A t \in Sessions \ DOMAIN run[p].plan : Clash(run[p].plan[s], t) => secured[t] = {}
    /\ ~Unavailable(run[p].plan[s])

PlanIsFree(p) ==
    run[p].step = "commit" =>
        \A s \in DOMAIN run[p].plan \cap Sessions : SecuredBy(p, s) # {} => RowIsFree(p, s)

SlotIsFree(c) ==
    \A s \in Sessions :
        Busy(session[s]) /\ session[s].who = c.who /\ c.slot \in Occupied(session[s]) => secured[s] = {}

BlockIsFree(p) == run[p].step = "commit" /\ run[p].cmd.op = "block" => SlotIsFree(run[p].cmd)

Apart ==
    /\ Formed /\ Exclusive
    /\ \A p \in Instances : BlockLocked(p) /\ PlanIsFree(p) /\ BlockIsFree(p)
    /\ DOMAIN session = Sessions /\ DOMAIN secured = Sessions
    /\ SecuredNeverOverlap /\ SecuredNotBlocked

LEMMA IdleRun ==
    /\ DOMAIN Idle = Steps /\ Idle.step = "idle" /\ Idle.held = {} /\ Idle.want = {}
BY DEF Idle, Steps

LEMMA InitApart == Init => Apart
<1> SUFFICES ASSUME Init PROVE Apart
  OBVIOUS
<1>1. DOMAIN run = Instances /\ \A p \in Instances : run[p] = Idle
  BY DEF Init
<1>2. /\ DOMAIN request = Requests
      /\ \A r \in Requests : {"state", "cmd", "ids"} = DOMAIN request[r] /\ request[r].state = "absent"
  BY DEF Init
<1>3. \A s \in Sessions : secured[s] = {}
  BY DEF Init
<1>4. DOMAIN session = Sessions /\ DOMAIN secured = Sessions
  BY DEF Init
<1>5. Formed /\ Exclusive /\ \A p \in Instances : BlockLocked(p) /\ PlanIsFree(p) /\ BlockIsFree(p)
  BY <1>1, <1>2, IdleRun DEF Formed, Exclusive, BlockLocked, PlanIsFree, BlockIsFree
<1>6. SecuredNeverOverlap /\ SecuredNotBlocked
  BY <1>3 DEF SecuredNeverOverlap, SecuredNotBlocked
<1> QED BY <1>4, <1>5, <1>6 DEF Apart

(* A step of p that changes no session and no block: what is left to show  *)
(* is about p.                                                             *)
LEMMA RunStep ==
    ASSUME Apart, NEW p \in Instances, NEW new, run' = [run EXCEPT ![p] = new],
           UNCHANGED <<session, blocked, request, secured>>,
           DOMAIN new = Steps, new.step # "idle" => KnownCommand(new.cmd),
           \A q \in Instances \ {p} : new.held \cap run[q].held = {},
           BlockLocked(p)', PlanIsFree(p)', BlockIsFree(p)'
    PROVE  Apart'
<1>1. run'[p] = new /\ DOMAIN run' = Instances /\ \A q \in Instances \ {p} : run'[q] = run[q]
  BY DEF Apart, Formed
<1>2. Formed'
  BY <1>1 DEF Apart, Formed
<1>3. Exclusive'
  BY <1>1 DEF Apart, Exclusive
<1>4. ASSUME NEW q \in Instances \ {p}
      PROVE  BlockLocked(q)' /\ PlanIsFree(q)' /\ BlockIsFree(q)'
  <2>1. run'[q] = run[q] /\ BlockLocked(q) /\ PlanIsFree(q) /\ BlockIsFree(q)
    BY <1>1 DEF Apart
  <2>2. BlockLocked(q)'
    BY <2>1 DEF BlockLocked
  <2>3. PlanIsFree(q)'
    <3> SUFFICES ASSUME run[q].step = "commit", NEW s \in DOMAIN run[q].plan \cap Sessions,
                        SecuredBy(q, s)' # {}
                 PROVE  RowIsFree(q, s)'
      BY <2>1 DEF PlanIsFree
    <3>1. SecuredBy(q, s)' = SecuredBy(q, s)
      BY <2>1 DEF SecuredBy
    <3>2. RowIsFree(q, s)
      BY <2>1, <3>1 DEF PlanIsFree
    <3> QED BY <2>1, <3>2 DEF RowIsFree, Clash, Unavailable
  <2>4. BlockIsFree(q)'
    BY <2>1 DEF BlockIsFree, SlotIsFree
  <2> QED BY <2>2, <2>3, <2>4
<1>5. (SecuredNeverOverlap /\ SecuredNotBlocked)'
  BY DEF Apart, SecuredNeverOverlap, Overlap, SecuredNotBlocked, Unavailable
<1> QED BY <1>2, <1>3, <1>4, <1>5 DEF Apart

LEMMA AbortApart ==
    ASSUME Apart, NEW p \in Instances, Abort(p)
    PROVE  Apart'
<1>1. run' = [run EXCEPT ![p] = Idle] /\ UNCHANGED <<session, blocked, request, secured>>
  BY DEF Abort, data
<1>2. run'[p] = Idle
  BY <1>1 DEF Apart, Formed
<1>3. BlockLocked(p)' /\ PlanIsFree(p)' /\ BlockIsFree(p)'
  BY <1>2, IdleRun DEF BlockLocked, PlanIsFree, BlockIsFree
<1> QED BY <1>1, <1>3, IdleRun, RunStep

LEMMA BeginApart ==
    ASSUME Apart, NEW p \in Instances, NEW c, KnownCommand(c), NEW r, Begin(p, c, r)
    PROVE  Apart'
<1> DEFINE step == IF SeriesFirst(c) THEN "series" ELSE "keys"
           want == IF SeriesFirst(c) THEN {<<"series", session[c.id].series>>} ELSE KeysOf(c)
           new  == [Idle EXCEPT !.cmd = c, !.req = r, !.step = step, !.want = want]
<1>1. run' = [run EXCEPT ![p] = new] /\ UNCHANGED <<session, blocked, request, secured>>
  BY DEF Begin, data
<1>2. /\ step \in {"series", "keys"}
      /\ c.op = "block" => step = "keys" /\ want = LockOf(c.who)
  BY DEF SeriesFirst, KeysOf
<1> HIDE DEF step, want
<1>3. /\ DOMAIN new = Steps /\ new.step = step /\ new.cmd = c /\ new.held = {} /\ new.want = want
  BY DEF Idle, Steps
<1> HIDE DEF new
<1>4. run'[p] = new
  BY <1>1 DEF Apart, Formed
<1>5. BlockLocked(p)' /\ PlanIsFree(p)' /\ BlockIsFree(p)'
  BY <1>2, <1>3, <1>4 DEF BlockLocked, PlanIsFree, BlockIsFree, LockOf
<1> QED BY <1>1, <1>3, <1>5, RunStep

LEMMA LockSeriesApart ==
    ASSUME Apart, NEW p \in Instances, LockSeries(p)
    PROVE  Apart'
<1> DEFINE want == KeysOf(run[p].cmd)
           new  == [run[p] EXCEPT !.step = "keys", !.held = run[p].want, !.want = want]
<1>1. /\ run' = [run EXCEPT ![p] = new] /\ UNCHANGED <<session, blocked, request, secured>>
      /\ run[p].step = "series" /\ Free(p, run[p].want)
  BY DEF LockSeries, data, Apart, Formed
<1>2. DOMAIN run[p] = Steps /\ KnownCommand(run[p].cmd) /\ run[p].cmd.op # "block"
  BY <1>1 DEF Apart, Formed, BlockLocked
<1> HIDE DEF want
<1>3. DOMAIN new = Steps /\ new.step = "keys" /\ new.cmd = run[p].cmd /\ new.held = run[p].want
  BY <1>2 DEF Steps
<1> HIDE DEF new
<1>4. run'[p] = new
  BY <1>1 DEF Apart, Formed
<1>5. BlockLocked(p)' /\ PlanIsFree(p)' /\ BlockIsFree(p)'
  BY <1>2, <1>3, <1>4 DEF BlockLocked, PlanIsFree, BlockIsFree
<1>6. \A q \in Instances \ {p} : new.held \cap run[q].held = {}
  BY <1>1, <1>3 DEF Free
<1> QED BY <1>1, <1>2, <1>3, <1>5, <1>6, RunStep

(* The last check compares the plan with all other sessions and with the   *)
(* blocks, and a block with all sessions.                                  *)
LEMMA CheckApart ==
    ASSUME Apart, NEW p \in Instances, Check(p)
    PROVE  Apart'
<1> DEFINE c == run[p].cmd
           plan == PlanOf(c)
           new  == [run[p] EXCEPT !.step = "commit", !.held = run[p].held \cup run[p].want,
                                  !.want = {}, !.plan = plan]
<1>1. /\ run' = [run EXCEPT ![p] = new] /\ UNCHANGED <<session, blocked, request, secured>>
      /\ run[p].step = "keys" /\ Free(p, run[p].want) /\ Accepts(c, run[p].req, plan)
  BY DEF Check, data, Apart, Formed
<1>2. DOMAIN run[p] = Steps /\ KnownCommand(c)
  BY <1>1 DEF Apart, Formed
<1>3. ASSUME ~FreesTime(c, plan), c.op \notin {"remove", "block", "unblock"}
      PROVE  ~Conflicts(plan)
  BY <1>1, <1>2, <1>3 DEF Accepts, MayCreate, MayChange, MayReassign, KnownCommand, Operations
<1>4. c.op = "remove" => \A s \in DOMAIN plan : plan[s].status = "deleted" \/ ~Busy(plan[s])
  <2> SUFFICES ASSUME c.op = "remove", NEW s \in DOMAIN plan
               PROVE  plan[s].status = "deleted" \/ ~Busy(plan[s])
    OBVIOUS
  <2>1. plan = Removed(c)
    BY DEF PlanOf
  <2>2. s \in Targets(c) /\ plan[s] = [session[s] EXCEPT !.status = "deleted"]
    BY <2>1 DEF Removed
  <2> QED BY <2>2 DEF Busy, Statuses
<1>5. c.op \in {"block", "unblock"} => DOMAIN plan = {}
  BY DEF PlanOf, Empty
<1>6. c.op = "block" => SlotIsFree(c)
  BY <1>1 DEF Accepts, MayBlock, HitBy, SlotIsFree
<1>7. c.op = "block" => run[p].want = LockOf(c.who)
  BY <1>1 DEF Apart, BlockLocked
<1> HIDE DEF plan
<1>8. /\ DOMAIN new = Steps /\ new.step = "commit" /\ new.cmd = c /\ new.plan = plan
      /\ new.held = run[p].held \cup run[p].want
  BY <1>2 DEF Steps
<1> HIDE DEF new, c
<1>9. run'[p] = new
  BY <1>1 DEF Apart, Formed
<1>10. \A q \in Instances \ {p} : new.held \cap run[q].held = {}
  BY <1>1, <1>8 DEF Free, Apart, Exclusive
<1>11. BlockLocked(p)'
  BY <1>5, <1>7, <1>8, <1>9 DEF BlockLocked
<1>12. BlockIsFree(p)'
  BY <1>1, <1>6, <1>8, <1>9 DEF BlockIsFree, SlotIsFree
<1>13. PlanIsFree(p)'
  <2> SUFFICES ASSUME NEW s \in DOMAIN plan \cap Sessions, SecuredBy(p, s)' # {}
               PROVE  RowIsFree(p, s)'
    BY <1>8, <1>9 DEF PlanIsFree
  <2>1. Busy(plan[s]) /\ ~FreesTime(c, plan)
    BY <1>8, <1>9 DEF SecuredBy
  <2>2. plan[s].who # NoOne /\ plan[s].status # "deleted"
    BY <2>1 DEF Busy, Statuses
  <2>3. c.op \notin {"remove", "block", "unblock"}
    BY <1>4, <1>5, <2>1, <2>2
  <2>4. ~DoubleBooked(plan[s], Compared(plan)) /\ ~Unavailable(plan[s])
    BY <1>3, <2>1, <2>2, <2>3 DEF Conflicts
  <2>5. \A t \in Sessions \ DOMAIN plan : ~Clash(plan[s], t)
    BY <2>4 DEF DoubleBooked, Compared, Clash
  <2>6. PICK row, ids : row = plan[s] /\ ids = DOMAIN plan
    OBVIOUS
  <2>7. /\ run'[p].plan[s] = row /\ DOMAIN run'[p].plan = ids
    BY <1>8, <1>9, <2>6
  <2>8. ~Unavailable(row)' /\ \A t \in Sessions \ ids : ~Clash(row, t)'
    BY <1>1, <2>4, <2>5, <2>6 DEF Clash, Unavailable
  <2> QED BY <2>7, <2>8 DEF RowIsFree
<1> QED BY <1>1, <1>2, <1>8, <1>10, <1>11, <1>12, <1>13, RunStep DEF c

(* Requests change what is to be run, and only when nobody runs it.        *)
LEMMA RequestApart ==
    ASSUME Apart, NEW r \in Requests, NEW c,
           (KnownCommand(c) /\ (Submit(r, c) \/ Amend(r, c))) \/ Reject(r) \/ Withdraw(r)
    PROVE  Apart'
<1>1. UNCHANGED <<session, blocked, secured, run>>
  BY DEF Submit, Amend, Reject, Withdraw, Decide
<1>3. DOMAIN request = Requests /\ {"state", "cmd", "ids"} = DOMAIN request[r]
  BY DEF Apart, Formed
<1>4. PICK new : /\ request' = [request EXCEPT ![r] = new]
                 /\ {"state", "cmd", "ids"} = DOMAIN new /\ KnownCommand(new.cmd)
  <2>1. CASE KnownCommand(c) /\ Submit(r, c)
    <3> DEFINE cmd == Stated(c)
               ids == IF c.op \in {"update", "remove"} THEN Targets(c) ELSE {}
               row == [state |-> "pending", cmd |-> cmd, ids |-> ids]
    <3>1. request' = [request EXCEPT ![r] = row]
      BY <2>1 DEF Submit
    <3>2. KnownCommand(cmd)
      <4> DEFINE patch == Spread(FieldsOf(session[c.id]), c.patch)
      <4>1. cmd = c \/ cmd = [c EXCEPT !.patch = patch]
        BY DEF Stated
      <4> HIDE DEF patch, cmd
      <4>2. KnownCommand([c EXCEPT !.patch = patch])
        BY <2>1 DEF KnownCommand
      <4> QED BY <2>1, <4>1, <4>2
    <3> HIDE DEF cmd, ids
    <3>3. {"state", "cmd", "ids"} = DOMAIN row /\ row.cmd = cmd
      OBVIOUS
    <3> HIDE DEF row
    <3> QED BY <3>1, <3>2, <3>3
  <2>2. CASE KnownCommand(c) /\ Amend(r, c)
    <3> DEFINE old == request[r].cmd
               cmd == Amended(old, c)
               row == [request[r] EXCEPT !.cmd = cmd]
    <3>1. request' = [request EXCEPT ![r] = row] /\ request[r].state # "absent"
      BY <2>2 DEF Amend, MustPending
    <3>2. KnownCommand(old)
      BY <3>1 DEF Apart, Formed
    <3>3. KnownCommand(cmd)
      <4> DEFINE named == Spread(old.patch, c.patch)
                 patch == Spread([who |-> CourseInstructor[named.course]], named)
      <4>1. cmd = c \/ cmd = [old EXCEPT !.scope = c.scope, !.patch = patch]
        BY DEF Amended
      <4> HIDE DEF patch, cmd, old
      <4>2. KnownCommand([old EXCEPT !.scope = c.scope, !.patch = patch])
        BY <3>2 DEF KnownCommand
      <4> QED BY <2>2, <4>1, <4>2
    <3> HIDE DEF cmd
    <3>4. {"state", "cmd", "ids"} = DOMAIN row /\ row.cmd = cmd
      BY <1>3
    <3> HIDE DEF row
    <3> QED BY <3>1, <3>3, <3>4
  <2>3. ASSUME NEW state, Decide(r, state)
        PROVE  \E new : /\ request' = [request EXCEPT ![r] = new]
                        /\ {"state", "cmd", "ids"} = DOMAIN new /\ KnownCommand(new.cmd)
    <3> DEFINE row == [request[r] EXCEPT !.state = state]
    <3>1. request' = [request EXCEPT ![r] = row] /\ request[r].state # "absent"
      BY <2>3 DEF Decide, MustPending
    <3>2. {"state", "cmd", "ids"} = DOMAIN row /\ row.cmd = request[r].cmd
      BY <1>3
    <3>3. KnownCommand(request[r].cmd)
      BY <3>1 DEF Apart, Formed
    <3> HIDE DEF row
    <3> QED BY <3>1, <3>2, <3>3
  <2> QED BY <2>1, <2>2, <2>3 DEF Reject, Withdraw
<1>5. Formed'
  BY <1>1, <1>4 DEF Apart, Formed
<1>6. Exclusive' /\ DOMAIN session' = Sessions /\ DOMAIN secured' = Sessions
  BY <1>1 DEF Apart, Exclusive
<1>7. ASSUME NEW q \in Instances PROVE BlockLocked(q)' /\ PlanIsFree(q)' /\ BlockIsFree(q)'
  <2>1. BlockLocked(q) /\ PlanIsFree(q) /\ BlockIsFree(q)
    BY DEF Apart
  <2>2. BlockLocked(q)' /\ BlockIsFree(q)'
    BY <1>1, <2>1 DEF BlockLocked, BlockIsFree, SlotIsFree
  <2>3. PlanIsFree(q)'
    <3> SUFFICES ASSUME run[q].step = "commit", NEW s \in DOMAIN run[q].plan \cap Sessions,
                        SecuredBy(q, s)' # {}
                 PROVE  RowIsFree(q, s)'
      BY <1>1 DEF PlanIsFree
    <3>1. SecuredBy(q, s)' = SecuredBy(q, s)
      BY <1>1 DEF SecuredBy
    <3>2. RowIsFree(q, s)
      BY <2>1, <3>1 DEF PlanIsFree
    <3> QED BY <1>1, <3>2 DEF RowIsFree, Clash, Unavailable
  <2> QED BY <2>2, <2>3
<1>8. (SecuredNeverOverlap /\ SecuredNotBlocked)'
  BY <1>1 DEF Apart, SecuredNeverOverlap, Overlap, SecuredNotBlocked, Unavailable
<1> QED BY <1>5, <1>6, <1>7, <1>8 DEF Apart

(* Two transactions do not hold the same instructor.                       *)
LEMMA OneHolder ==
    ASSUME Apart, NEW p \in Instances, NEW q \in Instances \ {p}, NEW who, who # NoOne,
           LockOf(who) \subseteq run[p].held, LockOf(who) \subseteq run[q].held
    PROVE  FALSE
<1>1. <<"instructor", who>> \in LockOf(who)
  BY DEF LockOf
<1> QED BY <1>1 DEF Apart, Exclusive

LEMMA SecuredMeans ==
    ASSUME NEW p \in Instances, NEW s \in Sessions, SecuredBy(p, s) # {}
    PROVE  /\ Busy(run[p].plan[s]) /\ run[p].plan[s].who # NoOne
           /\ LockOf(run[p].plan[s].who) \subseteq run[p].held
           /\ SecuredBy(p, s) \subseteq {s} \cup (Sessions \ DOMAIN run[p].plan)
BY DEF SecuredBy, Busy

LEMMA CommitWrites ==
    ASSUME Apart, NEW p \in Instances, Commit(p)
    PROVE  /\ run[p].step = "commit" /\ run'[p] = Idle /\ DOMAIN run' = Instances
           /\ \A q \in Instances \ {p} : run'[q] = run[q]
           /\ DOMAIN session' = Sessions /\ DOMAIN secured' = Sessions
           /\ \A s \in Sessions \ DOMAIN run[p].plan :
                  session'[s] = session[s] /\ secured'[s] = secured[s]
           /\ \A s \in Sessions \cap DOMAIN run[p].plan :
                  session'[s] = run[p].plan[s] /\ secured'[s] = SecuredBy(p, s)
           /\ run[p].cmd.op # "block" => blocked' \subseteq blocked
           /\ run[p].cmd.op = "block" =>
                  blocked' = blocked \cup {<<run[p].cmd.who, run[p].cmd.slot>>}
<1>1. run' = [run EXCEPT ![p] = Idle] /\ run[p].step = "commit"
  BY DEF Commit
<1>2. /\ session' = [s \in Sessions |-> IF s \in DOMAIN run[p].plan THEN run[p].plan[s] ELSE session[s]]
      /\ secured' = [s \in Sessions |-> IF s \in DOMAIN run[p].plan THEN SecuredBy(p, s) ELSE secured[s]]
  BY DEF Commit
<1>3. blocked' = CASE run[p].cmd.op = "block"   -> blocked \cup {<<run[p].cmd.who, run[p].cmd.slot>>}
                   [] run[p].cmd.op = "unblock" -> blocked \ {<<run[p].cmd.who, run[p].cmd.slot>>}
                   [] OTHER -> blocked
  BY DEF Commit
<1>4. /\ run[p].cmd.op # "block" => blocked' \subseteq blocked
      /\ run[p].cmd.op = "block" => blocked' = blocked \cup {<<run[p].cmd.who, run[p].cmd.slot>>}
  BY <1>3
<1>5. run'[p] = Idle /\ DOMAIN run' = Instances /\ \A q \in Instances \ {p} : run'[q] = run[q]
  BY <1>1 DEF Apart, Formed
<1> QED BY <1>1, <1>2, <1>4, <1>5

(* What is new in the tables does not touch what another command has       *)
(* checked: it would need the same instructor's lock.                      *)
LEMMA CommitLeavesOthers ==
    ASSUME Apart, NEW p \in Instances, Commit(p), NEW q \in Instances \ {p}
    PROVE  BlockLocked(q)' /\ PlanIsFree(q)' /\ BlockIsFree(q)'
<1>1. /\ run[p].step = "commit" /\ run'[q] = run[q]
      /\ \A s \in Sessions \ DOMAIN run[p].plan :
             session'[s] = session[s] /\ secured'[s] = secured[s]
      /\ \A s \in Sessions \cap DOMAIN run[p].plan :
             session'[s] = run[p].plan[s] /\ secured'[s] = SecuredBy(p, s)
      /\ run[p].cmd.op # "block" => blocked' \subseteq blocked
      /\ run[p].cmd.op = "block" => blocked' = blocked \cup {<<run[p].cmd.who, run[p].cmd.slot>>}
  BY CommitWrites
<1>2. BlockLocked(q) /\ PlanIsFree(q) /\ BlockIsFree(q) /\ BlockLocked(p)
  BY DEF Apart
<1>3. BlockLocked(q)'
  BY <1>1, <1>2 DEF BlockLocked
<1>4. PlanIsFree(q)'
  <2> SUFFICES ASSUME run[q].step = "commit", NEW s \in DOMAIN run[q].plan \cap Sessions,
                      SecuredBy(q, s)' # {}
               PROVE  RowIsFree(q, s)'
    BY <1>1 DEF PlanIsFree
  <2>1. SecuredBy(q, s) # {}
    BY <1>1 DEF SecuredBy
  <2>2. RowIsFree(q, s)
    BY <1>2, <2>1 DEF PlanIsFree
  <2>3. PICK row, ids : row = run[q].plan[s] /\ ids = DOMAIN run[q].plan
    OBVIOUS
  <2>4. row.who # NoOne /\ LockOf(row.who) \subseteq run[q].held
    BY <2>1, <2>3, SecuredMeans
  <2>5. ASSUME NEW t \in Sessions \ ids, Clash(row, t)'
        PROVE  secured'[t] = {}
    <3>1. CASE t \notin DOMAIN run[p].plan
      <4>1. session'[t] = session[t] /\ secured'[t] = secured[t]
        BY <1>1, <3>1
      <4>2. Clash(row, t)
        BY <2>5, <4>1 DEF Clash
      <4> QED BY <2>2, <2>3, <2>5, <4>1, <4>2 DEF RowIsFree
    <3>2. CASE t \in DOMAIN run[p].plan
      <4>1. session'[t] = run[p].plan[t] /\ secured'[t] = SecuredBy(p, t)
        BY <1>1, <3>2
      <4>2. run[p].plan[t].who = row.who
        BY <2>5, <4>1 DEF Clash
      <4>3. ASSUME SecuredBy(p, t) # {} PROVE FALSE
        <5>1. LockOf(row.who) \subseteq run[p].held
          BY <4>2, <4>3, SecuredMeans
        <5> QED BY <2>4, <5>1, OneHolder
      <4> QED BY <4>1, <4>3
    <3> QED BY <3>1, <3>2
  <2>6. ~Unavailable(row)'
    <3>1. ~Unavailable(row)
      BY <2>2, <2>3 DEF RowIsFree
    <3>2. CASE run[p].cmd.op # "block"
      BY <1>1, <3>1, <3>2 DEF Unavailable
    <3>3. CASE run[p].cmd.op = "block"
      <4>1. LockOf(run[p].cmd.who) \subseteq run[p].held
        BY <1>1, <1>2, <3>3 DEF BlockLocked
      <4>2. run[p].cmd.who # row.who
        BY <2>4, <4>1, OneHolder
      <4> QED BY <1>1, <3>1, <3>3, <4>2 DEF Unavailable
    <3> QED BY <3>2, <3>3
  <2>7. run'[q].plan[s] = row /\ DOMAIN run'[q].plan = ids
    BY <1>1, <2>3
  <2> QED BY <2>5, <2>6, <2>7 DEF RowIsFree
<1>5. BlockIsFree(q)'
  <2> SUFFICES ASSUME run[q].step = "commit", run[q].cmd.op = "block", NEW s \in Sessions,
                      Busy(session'[s]), session'[s].who = run[q].cmd.who,
                      run[q].cmd.slot \in Occupied(session'[s])
               PROVE  secured'[s] = {}
    BY <1>1 DEF BlockIsFree, SlotIsFree
  <2>1. LockOf(run[q].cmd.who) \subseteq run[q].held /\ SlotIsFree(run[q].cmd)
    BY <1>2 DEF BlockLocked, BlockIsFree
  <2>2. CASE s \notin DOMAIN run[p].plan
    BY <1>1, <2>1, <2>2 DEF SlotIsFree
  <2>3. CASE s \in DOMAIN run[p].plan
    <3>1. session'[s] = run[p].plan[s] /\ secured'[s] = SecuredBy(p, s)
      BY <1>1, <2>3
    <3>2. ASSUME SecuredBy(p, s) # {} PROVE FALSE
      <4>1. run[p].plan[s].who # NoOne /\ LockOf(run[p].plan[s].who) \subseteq run[p].held
        BY <3>2, SecuredMeans
      <4> QED BY <2>1, <3>1, <4>1, OneHolder
    <3> QED BY <3>1, <3>2
  <2> QED BY <2>2, <2>3
<1> QED BY <1>3, <1>4, <1>5

LEMMA CommitOverlaps ==
    ASSUME Apart, NEW p \in Instances, Commit(p)
    PROVE  SecuredNeverOverlap'
<1>1. /\ run[p].step = "commit"
      /\ \A s \in Sessions \ DOMAIN run[p].plan :
             session'[s] = session[s] /\ secured'[s] = secured[s]
      /\ \A s \in Sessions \cap DOMAIN run[p].plan :
             session'[s] = run[p].plan[s] /\ secured'[s] = SecuredBy(p, s)
  BY CommitWrites
<1>2. ASSUME NEW s \in Sessions \cap DOMAIN run[p].plan, NEW t \in Sessions \ DOMAIN run[p].plan,
             Busy(session'[t]), session'[t].who = session'[s].who,
             Occupied(session'[t]) \cap Occupied(session'[s]) # {}, secured'[s] # {}
      PROVE  secured'[t] = {}
  <2>1. RowIsFree(p, s)
    BY <1>1, <1>2 DEF Apart, PlanIsFree
  <2>2. Clash(run[p].plan[s], t)
    BY <1>1, <1>2 DEF Clash
  <2> QED BY <1>1, <2>1, <2>2 DEF RowIsFree
<1> SUFFICES ASSUME NEW s \in Sessions, NEW t \in Sessions, Overlap(s, t)',
                    secured'[s] # {}, secured'[t] # {}, t \in secured'[s] \/ s \in secured'[t]
             PROVE  FALSE
  BY DEF SecuredNeverOverlap
<1>3. /\ s # t /\ Busy(session'[s]) /\ Busy(session'[t]) /\ session'[s].who = session'[t].who
      /\ Occupied(session'[s]) \cap Occupied(session'[t]) # {}
  BY DEF Overlap
<1>4. CASE s \in DOMAIN run[p].plan /\ t \in DOMAIN run[p].plan
  <2>1. SecuredBy(p, s) # {} /\ SecuredBy(p, t) # {} /\ secured'[s] = SecuredBy(p, s)
        /\ secured'[t] = SecuredBy(p, t)
    BY <1>1, <1>4
  <2> QED BY <1>3, <1>4, <2>1, SecuredMeans
<1>5. CASE s \in DOMAIN run[p].plan /\ t \notin DOMAIN run[p].plan
  BY <1>2, <1>3, <1>5
<1>6. CASE s \notin DOMAIN run[p].plan /\ t \in DOMAIN run[p].plan
  BY <1>2, <1>3, <1>6
<1>7. CASE s \notin DOMAIN run[p].plan /\ t \notin DOMAIN run[p].plan
  BY <1>1, <1>3, <1>7 DEF Apart, SecuredNeverOverlap, Overlap
<1> QED BY <1>4, <1>5, <1>6, <1>7

LEMMA CommitBlocks ==
    ASSUME Apart, NEW p \in Instances, Commit(p)
    PROVE  SecuredNotBlocked'
<1>1. /\ run[p].step = "commit"
      /\ \A s \in Sessions \ DOMAIN run[p].plan :
             session'[s] = session[s] /\ secured'[s] = secured[s]
      /\ \A s \in Sessions \cap DOMAIN run[p].plan :
             session'[s] = run[p].plan[s] /\ secured'[s] = SecuredBy(p, s)
      /\ run[p].cmd.op # "block" => blocked' \subseteq blocked
      /\ run[p].cmd.op = "block" => blocked' = blocked \cup {<<run[p].cmd.who, run[p].cmd.slot>>}
  BY CommitWrites
<1> SUFFICES ASSUME NEW s \in Sessions, Busy(session'[s]), secured'[s] # {},
                    NEW t \in Occupied(session'[s]), <<session'[s].who, t>> \in blocked'
             PROVE  FALSE
  BY DEF SecuredNotBlocked, Unavailable
<1>2. CASE s \in DOMAIN run[p].plan
  <2>1. run[p].cmd.op # "block"
    BY <1>1, <1>2 DEF Apart, BlockLocked
  <2>2. RowIsFree(p, s)
    BY <1>1, <1>2 DEF Apart, PlanIsFree
  <2> QED BY <1>1, <1>2, <2>1, <2>2 DEF RowIsFree, Unavailable
<1>3. CASE s \notin DOMAIN run[p].plan
  <2>1. <<session[s].who, t>> \notin blocked
    BY <1>1, <1>3 DEF Apart, SecuredNotBlocked, Unavailable
  <2>2. run[p].cmd.op = "block" /\ session[s].who = run[p].cmd.who /\ t = run[p].cmd.slot
    BY <1>1, <1>3, <2>1
  <2>3. SlotIsFree(run[p].cmd)
    BY <1>1, <2>2 DEF Apart, BlockIsFree
  <2> QED BY <1>1, <1>3, <2>2, <2>3 DEF SlotIsFree
<1> QED BY <1>2, <1>3

LEMMA CommitApart ==
    ASSUME Held, Apart, NEW p \in Instances, Commit(p)
    PROVE  Apart'
<1>1. /\ run'[p] = Idle /\ DOMAIN run' = Instances
      /\ \A q \in Instances \ {p} : run'[q] = run[q]
      /\ DOMAIN session' = Sessions /\ DOMAIN secured' = Sessions
  BY CommitWrites
<1>2. Formed'
  <2>1. /\ DOMAIN request' = Requests
        /\ \A r \in Requests : /\ {"state", "cmd", "ids"} = DOMAIN request'[r]
                               /\ request'[r].state # "absent" => KnownCommand(request'[r].cmd)
    <3> DEFINE r == run[p].req
               row == [request[r] EXCEPT !.state = "approved"]
    <3>1. request' = request \/ request' = [request EXCEPT ![r] = row]
      BY DEF Commit
    <3>2. r \in Requests => {"state", "cmd", "ids"} = DOMAIN row /\ row.cmd = request[r].cmd
      BY DEF Apart, Formed
    <3> HIDE DEF row
    <3>3. request' # request => r # NoRequest
      BY DEF Commit
    <3>4. r # NoRequest => r \in Requests /\ request[r].state # "absent"
      BY DEF Held, Claimed
    <3>5. CASE request' = request
      BY <3>5 DEF Apart, Formed
    <3>6. CASE request' = [request EXCEPT ![r] = row] /\ r \in Requests
      BY <3>2, <3>3, <3>4, <3>6 DEF Apart, Formed
    <3> QED BY <3>1, <3>3, <3>4, <3>5, <3>6
  <2> QED BY <1>1, <2>1, IdleRun DEF Apart, Formed
<1>3. Exclusive'
  BY <1>1, IdleRun DEF Apart, Exclusive
<1>4. BlockLocked(p)' /\ PlanIsFree(p)' /\ BlockIsFree(p)'
  BY <1>1, IdleRun DEF BlockLocked, PlanIsFree, BlockIsFree
<1> QED BY <1>1, <1>2, <1>3, <1>4, CommitLeavesOthers, CommitOverlaps, CommitBlocks DEF Apart

LEMMA NextApart == Held /\ Apart /\ [Next]_vars => Apart'
<1> SUFFICES ASSUME Held, Apart, [Next]_vars PROVE Apart'
  OBVIOUS
<1>1. CASE UNCHANGED vars
  <2>1. UNCHANGED <<session, blocked, request, secured, run>>
    BY <1>1 DEF vars, data
  <2>2. (Formed /\ Exclusive /\ SecuredNeverOverlap /\ SecuredNotBlocked)'
    BY <2>1 DEF Apart, Formed, Exclusive, SecuredNeverOverlap, Overlap, SecuredNotBlocked, Unavailable
  <2>3. ASSUME NEW p \in Instances PROVE (BlockLocked(p) /\ PlanIsFree(p) /\ BlockIsFree(p))'
    <3>1. BlockLocked(p) /\ PlanIsFree(p) /\ BlockIsFree(p)
      BY DEF Apart
    <3>2. (BlockLocked(p) /\ BlockIsFree(p))'
      BY <2>1, <3>1 DEF BlockLocked, BlockIsFree, SlotIsFree
    <3>3. PlanIsFree(p)'
      BY <2>1, <3>1 DEF PlanIsFree, SecuredBy, RowIsFree, Clash, Unavailable
    <3> QED BY <3>2, <3>3
  <2> QED BY <2>1, <2>2, <2>3 DEF Apart
<1>2. ASSUME NEW p \in Instances, LockSeries(p) \/ Check(p) \/ Commit(p) \/ Abort(p)
      PROVE  Apart'
  BY <1>2, LockSeriesApart, CheckApart, CommitApart, AbortApart
<1>3. ASSUME NEW p \in Instances, NEW c \in Commands, Begin(p, c, NoRequest)
      PROVE  Apart'
  <2>1. KnownCommand(c)
    BY TimetableConstants DEF TimetableConstants, KnownCommand
  <2> QED BY <1>3, <2>1, BeginApart
<1>4. ASSUME NEW p \in Instances, NEW r \in Requests, Approve(p, r)
      PROVE  Apart'
  <2>1. KnownCommand(request[r].cmd)
    BY <1>4 DEF Approve, MustPending, Apart, Formed
  <2> QED BY <1>4, <2>1, BeginApart DEF Approve
<1>5. ASSUME NEW r \in Requests, Reject(r) \/ Withdraw(r) \/ \E c \in Asks : Submit(r, c) \/ Amend(r, c)
      PROVE  Apart'
  <2>1. \A c \in Asks : KnownCommand(c)
    BY TimetableConstants DEF TimetableConstants, KnownCommand
  <2> QED BY <1>5, <2>1, RequestApart
<1> QED BY <1>1, <1>2, <1>3, <1>4, <1>5 DEF Next

LEMMA AlwaysApart == Spec => []Apart
<1>1. Held /\ Apart /\ [Next]_vars => Apart'
  BY NextApart
<1> QED BY <1>1, InitApart, Claims, PTL DEF Spec

(* detectConflicts under the instructor's lock: of two sessions placed by  *)
(* commands that held it, the later one was compared with the other, and   *)
(* they do not overlap.                                                    *)
THEOREM NeverOverlap == Spec => []SecuredNeverOverlap
<1>1. Apart => SecuredNeverOverlap
  BY DEF Apart
<1> QED BY <1>1, AlwaysApart, PTL

(* availability.upsert and detectConflicts: no session placed under the    *)
(* lock lies in blocked time, whichever of the two came first.             *)
THEOREM NeverBlocked == Spec => []SecuredNotBlocked
<1>1. Apart => SecuredNotBlocked
  BY DEF Apart
<1> QED BY <1>1, AlwaysApart, PTL
-----------------------------------------------------------------------------
(* The scope of a request.                                                 *)

(* What a command says, and a request once it states every field.          *)
GoodCommand(c) ==
    /\ KnownCommand(c)
    /\ c.op \in {"update", "assign", "remove"} => "id" \in DOMAIN c /\ c.id \in Sessions
    /\ c.op = "update" => "patch" \in DOMAIN c /\ Named(c.patch, "status", "scheduled") \in Statuses

Present(s) == session[s].status # "absent"

RowsFit == \A s \in Sessions : {"status", "series"} \subseteq DOMAIN session[s]

RequestsFit == \A r \in Requests : request[r].state # "absent" => GoodCommand(request[r].cmd)

(* A command that an approval runs is the one the request asks for.        *)
Asking(p) ==
    run[p].req # NoRequest => run[p].req \in Requests /\ run[p].cmd = request[run[p].req].cmd

(* A change or deletion holds, from its first lock on, the series of its   *)
(* session, and in the end the session itself: no other one can reach the  *)
(* same rows.                                                              *)
ScopeLocked(p) ==
    LET series == session[run[p].cmd.id].series
    IN  /\ run[p].step = "series" => run[p].want = {<<"series", series>>}
        /\ run[p].step # "series" =>
              /\ <<"session", run[p].cmd.id>> \in run[p].held \cup run[p].want
              /\ series # NoSeries => <<"series", series>> \in run[p].held
        /\ run[p].step = "commit" => run[p].want = {}

InScope(p, s) ==
    LET id == run[p].cmd.id
    IN  s = id \/ (session[id].series # NoSeries /\ session[s].series = session[id].series)

(* A row about to be written, by the operation that writes it.             *)
RowFits(p, s) ==
    LET op  == run[p].cmd.op
        row == run[p].plan[s]
    IN  /\ s \in Sessions
        /\ {"status", "series"} \subseteq DOMAIN row /\ row.status # "absent"
        /\ op = "create" => ~Present(s)
        /\ op # "create" => Present(s) /\ row.series = session[s].series
        /\ op \notin {"update", "remove"} => row.status # "deleted"
        /\ op \in {"update", "remove"} => InScope(p, s)
        /\ op = "remove" => row.status = "deleted" /\ session[s].status # "deleted"

PlanFits(p) ==
    /\ \A s \in DOMAIN run[p].plan : RowFits(p, s)
    /\ run[p].cmd.op \in {"update", "remove"} /\ run[p].req # NoRequest =>
          DOMAIN run[p].plan = request[run[p].req].ids

CommandFits(p) ==
    run[p].step # "idle" =>
        /\ GoodCommand(run[p].cmd)
        /\ run[p].cmd.op \in {"update", "assign", "remove"} => Present(run[p].cmd.id)
        /\ run[p].cmd.op \in {"update", "remove"} => ScopeLocked(p)
        /\ run[p].step = "commit" => PlanFits(p)

Creates(p) == run[p].step = "commit" /\ run[p].cmd.op = "create"

NewRowsApart ==
    \A p, q \in Instances :
        p # q /\ Creates(p) /\ Creates(q) => DOMAIN run[p].plan \cap DOMAIN run[q].plan = {}

Scoped ==
    /\ RowsFit /\ RequestsFit /\ NewRowsApart
    /\ \A p \in Instances : Asking(p) /\ CommandFits(p)
LEMMA InitScoped == Init => Scoped
<1> SUFFICES ASSUME Init PROVE Scoped
  OBVIOUS
<1>1. \A p \in Instances : run[p] = Idle
  BY DEF Init
<1>2. \A r \in Requests : request[r].state = "absent"
  BY DEF Init
<1>3. \A s \in Sessions : {"status", "series"} \subseteq DOMAIN session[s]
  BY DEF Init, NoRow
<1>4. \A p \in Instances : run[p].step = "idle" /\ run[p].req = NoRequest
  BY <1>1 DEF Idle
<1>5. \A p \in Instances : Asking(p) /\ CommandFits(p)
  BY <1>4 DEF Asking, CommandFits
<1> QED BY <1>2, <1>3, <1>4, <1>5 DEF Scoped, RowsFit, RequestsFit, NewRowsApart, Creates

(* A step of one command up to its commit: only its own part is at stake.  *)
LEMMA ScopedRunStep ==
    ASSUME Apart, Scoped, NEW p \in Instances, NEW new, run' = [run EXCEPT ![p] = new],
           UNCHANGED <<session, request>>,
           Asking(p)', CommandFits(p)',
           \A q \in Instances \ {p} : Creates(p)' /\ Creates(q) =>
               DOMAIN new.plan \cap DOMAIN run[q].plan = {}
    PROVE  Scoped'
<1>1. run'[p] = new /\ \A q \in Instances \ {p} : run'[q] = run[q]
  BY DEF Apart, Formed
<1>2. RowsFit' /\ RequestsFit'
  BY DEF Scoped, RowsFit, RequestsFit
<1>3. \A q \in Instances \ {p} : Creates(q)' = Creates(q)
  BY <1>1 DEF Creates
<1>4. NewRowsApart'
  BY <1>1, <1>3 DEF Scoped, NewRowsApart
<1>5. ASSUME NEW q \in Instances \ {p} PROVE Asking(q)' /\ CommandFits(q)'
  <2>1. run'[q] = run[q] /\ Asking(q) /\ CommandFits(q)
    BY <1>1 DEF Scoped
  <2> QED BY <2>1 DEF Asking, CommandFits, ScopeLocked, PlanFits, RowFits, InScope, Present
<1> QED BY <1>2, <1>4, <1>5 DEF Scoped

LEMMA AbortScoped ==
    ASSUME Apart, Scoped, NEW p \in Instances, Abort(p)
    PROVE  Scoped'
<1>1. run' = [run EXCEPT ![p] = Idle] /\ UNCHANGED <<session, request>>
  BY DEF Abort, data
<1>2. run'[p] = Idle
  BY <1>1 DEF Apart, Formed
<1>3. run'[p].step = "idle" /\ run'[p].req = NoRequest
  BY <1>2 DEF Idle
<1>4. Asking(p)' /\ CommandFits(p)' /\ ~Creates(p)'
  BY <1>3 DEF Asking, CommandFits, Creates
<1> QED BY <1>1, <1>4, ScopedRunStep

LEMMA OwnKey ==
    ASSUME NEW c, c.op \in {"update", "remove"}
    PROVE  <<"session", c.id>> \in KeysOf(c)
<1>1. <<"session", c.id>> \in SessionLocks(Targets(c))
  BY DEF SessionLocks, Targets
<1>2. CASE c.op = "update"
  BY <1>1, <1>2 DEF KeysOf
<1>3. CASE c.op = "remove"
  BY <1>1, <1>3 DEF KeysOf
<1> QED BY <1>2, <1>3

LEMMA BeginScoped ==
    ASSUME Apart, Scoped, NEW p \in Instances, NEW c, GoodCommand(c), NEW r,
           r # NoRequest => r \in Requests /\ c = request[r].cmd,
           Begin(p, c, r)
    PROVE  Scoped'
<1> DEFINE step == IF SeriesFirst(c) THEN "series" ELSE "keys"
           want == IF SeriesFirst(c) THEN {<<"series", session[c.id].series>>} ELSE KeysOf(c)
           new  == [Idle EXCEPT !.cmd = c, !.req = r, !.step = step, !.want = want]
<1>1. run' = [run EXCEPT ![p] = new] /\ UNCHANGED <<session, request>>
  BY DEF Begin, data
<1>2. want = (IF SeriesFirst(c) THEN {<<"series", session[c.id].series>>} ELSE KeysOf(c))
  OBVIOUS
<1>3. step = (IF SeriesFirst(c) THEN "series" ELSE "keys")
  OBVIOUS
<1> HIDE DEF step, want
<1>4. new.cmd = c /\ new.req = r /\ new.step = step /\ new.want = want /\ new.held = {}
  BY DEF Idle
<1> HIDE DEF new
<1>5. run'[p] = new
  BY <1>1 DEF Apart, Formed
<1>6. Asking(p)' /\ ~Creates(p)'
  BY <1>1, <1>3, <1>4, <1>5 DEF Asking, Creates
<1>7. c.op \in {"update", "assign", "remove"} => Present(c.id)
  BY DEF Begin, Applicable, Live, Present
<1>8. c.op \in {"update", "remove"} => ScopeLocked(p)'
  <2> SUFFICES ASSUME c.op \in {"update", "remove"} PROVE ScopeLocked(p)'
    OBVIOUS
  <2>1. <<"session", c.id>> \in KeysOf(c)
    BY OwnKey
  <2> QED BY <1>1, <1>2, <1>3, <1>4, <1>5, <2>1 DEF ScopeLocked, SeriesFirst
<1>9. CommandFits(p)'
  BY <1>1, <1>3, <1>4, <1>5, <1>7, <1>8 DEF CommandFits, Present
<1> QED BY <1>1, <1>6, <1>9, ScopedRunStep

LEMMA LockSeriesScoped ==
    ASSUME Apart, Scoped, NEW p \in Instances, LockSeries(p)
    PROVE  Scoped'
<1> DEFINE want == KeysOf(run[p].cmd)
           new  == [run[p] EXCEPT !.step = "keys", !.held = run[p].want, !.want = want]
<1>1. run' = [run EXCEPT ![p] = new] /\ UNCHANGED <<session, request>> /\ run[p].step = "series"
  BY DEF LockSeries, data, Apart, Formed
<1>2. want = KeysOf(run[p].cmd)
  OBVIOUS
<1> HIDE DEF want
<1>3. /\ new.cmd = run[p].cmd /\ new.req = run[p].req /\ new.step = "keys"
      /\ new.want = want /\ new.held = run[p].want
  BY DEF Apart, Formed, Steps
<1> HIDE DEF new
<1>4. run'[p] = new
  BY <1>1 DEF Apart, Formed
<1>5. Asking(p) /\ CommandFits(p)
  BY DEF Scoped
<1>6. Asking(p)' /\ ~Creates(p)'
  BY <1>1, <1>3, <1>4, <1>5 DEF Asking, Creates
<1>7. run[p].cmd.op \in {"update", "remove"} => ScopeLocked(p)'
  <2> SUFFICES ASSUME run[p].cmd.op \in {"update", "remove"} PROVE ScopeLocked(p)'
    OBVIOUS
  <2>1. <<"session", run[p].cmd.id>> \in want
    BY <1>2, OwnKey
  <2>2. run[p].want = {<<"series", session[run[p].cmd.id].series>>}
    BY <1>1, <1>5 DEF CommandFits, ScopeLocked
  <2> QED BY <1>1, <1>3, <1>4, <2>1, <2>2 DEF ScopeLocked
<1>8. CommandFits(p)'
  BY <1>1, <1>3, <1>4, <1>5, <1>7 DEF CommandFits, Present
<1> QED BY <1>1, <1>6, <1>8, ScopedRunStep

(* The rows a command reads and those it makes of them.                    *)
LEMMA TargetRows ==
    ASSUME RowsFit, NEW c, c.id \in Sessions, Live(c.id), NEW s \in Targets(c)
    PROVE  /\ s \in Sessions /\ Live(s)
           /\ s = c.id \/ (session[c.id].series # NoSeries /\ session[s].series = session[c.id].series)
BY DEF Targets, Companions

LEMMA ShiftedRow ==
    ASSUME RowsFit, NEW c, GoodCommand(c), c.op = "update", Live(c.id), NEW s \in Targets(c)
    PROVE  /\ {"status", "series"} \subseteq DOMAIN Shifted(c)[s]
           /\ Shifted(c)[s].status \notin {"absent", "deleted"}
           /\ Shifted(c)[s].series = session[s].series
<1>1. c.id \in Sessions /\ s \in Sessions
  BY TargetRows DEF GoodCommand
<1>2. PICK cur, row, primary : cur = session[c.id] /\ row = session[s] /\ primary = Merged(cur, c.patch)
  OBVIOUS
<1>3. {"status", "series"} \subseteq DOMAIN cur /\ {"status", "series"} \subseteq DOMAIN row
  BY <1>1, <1>2 DEF RowsFit
<1>4. cur.status \notin {"absent", "deleted"}
  BY <1>2 DEF Live
<1>5. /\ {"status", "series"} \subseteq DOMAIN primary /\ primary.series = cur.series
      /\ primary.status = Named(c.patch, "status", cur.status)
  BY <1>2, <1>3 DEF Merged
<1>6. primary.status \notin {"absent", "deleted"}
  BY <1>4, <1>5 DEF GoodCommand, Named, Statuses
<1>7. /\ {"status", "series"} \subseteq DOMAIN Follows(row, primary, cur)
      /\ Follows(row, primary, cur).series = row.series
      /\ Follows(row, primary, cur).status = primary.status
  BY <1>3 DEF Follows
<1>8. Shifted(c)[s] = IF s = c.id THEN primary ELSE Follows(row, primary, cur)
  BY <1>2 DEF Shifted
<1> QED BY <1>2, <1>5, <1>6, <1>7, <1>8

LEMMA ChangedRow ==
    ASSUME RowsFit, NEW c, GoodCommand(c), c.op = "update", Live(c.id)
    PROVE  /\ DOMAIN Changed(c) = Targets(c)
           /\ \A s \in Targets(c) :
                 /\ {"status", "series"} \subseteq DOMAIN Changed(c)[s]
                 /\ Changed(c)[s].status # "absent"
                 /\ Changed(c)[s].series = session[s].series
<1>1. DOMAIN Shifted(c) = Targets(c)
  BY DEF Shifted
<1>2. PICK rows : rows = Shifted(c)
  OBVIOUS
<1>3. DOMAIN Changed(c) = Targets(c)
  BY <1>1 DEF Changed, Rescheduled
<1>4. ASSUME NEW s \in Targets(c)
      PROVE  /\ {"status", "series"} \subseteq DOMAIN Changed(c)[s]
             /\ Changed(c)[s].status # "absent"
             /\ Changed(c)[s].series = session[s].series
  <2>1. Changed(c)[s] = IF Moves(s, rows[s]) THEN [rows[s] EXCEPT !.status = "scheduled"] ELSE rows[s]
    BY <1>1, <1>2 DEF Changed, Rescheduled
  <2>2. /\ {"status", "series"} \subseteq DOMAIN rows[s] /\ rows[s].status # "absent"
        /\ rows[s].series = session[s].series
    BY <1>2, ShiftedRow
  <2> QED BY <2>1, <2>2
<1> QED BY <1>3, <1>4

(* What RowFits asks of a plan, before it is one.                          *)
PlannedRow(c, s) ==
    LET row == PlanOf(c)[s]
    IN  /\ s \in Sessions
        /\ {"status", "series"} \subseteq DOMAIN row /\ row.status # "absent"
        /\ c.op = "create" => s \in Unused
        /\ c.op # "create" => Present(s) /\ row.series = session[s].series
        /\ c.op \notin {"update", "remove"} => row.status # "deleted"
        /\ c.op \in {"update", "remove"} =>
              s = c.id \/ (session[c.id].series # NoSeries /\ session[s].series = session[c.id].series)
        /\ c.op = "remove" => row.status = "deleted" /\ session[s].status # "deleted"

LEMMA PlannedRows ==
    ASSUME RowsFit, NEW c, GoodCommand(c), Applicable(c)
    PROVE  /\ \A s \in DOMAIN PlanOf(c) : PlannedRow(c, s)
           /\ c.op \in {"update", "remove"} => DOMAIN PlanOf(c) = Targets(c)
<1>1. CASE c.op = "create"
  <2>1. PlanOf(c) = Created(c)
    BY <1>1 DEF PlanOf
  <2>2. PICK ids, dates, series :
           Created(c) = [s \in ids |-> [status |-> "scheduled", at |-> dates[s], len |-> c.len,
                                        who |-> c.who, course |-> c.course, series |-> series]]
           /\ ids = NewIds(Cardinality(c.ats))
    BY DEF Created
  <2>3. ids \subseteq Unused /\ Unused \subseteq Sessions
    BY <2>2 DEF NewIds, Unused
  <2> QED BY <1>1, <2>1, <2>2, <2>3 DEF PlannedRow
<1>2. CASE c.op = "update"
  <2>1. PlanOf(c) = Changed(c) /\ c.id \in Sessions /\ Live(c.id)
    BY <1>2 DEF PlanOf, GoodCommand, Applicable
  <2>2. \A s \in Targets(c) :
           /\ s \in Sessions /\ Live(s)
           /\ s = c.id \/ (session[c.id].series # NoSeries /\ session[s].series = session[c.id].series)
    BY <2>1, TargetRows
  <2>3. /\ DOMAIN Changed(c) = Targets(c)
        /\ \A s \in Targets(c) :
              /\ {"status", "series"} \subseteq DOMAIN Changed(c)[s]
              /\ Changed(c)[s].status # "absent"
              /\ Changed(c)[s].series = session[s].series
    BY <1>2, <2>1, ChangedRow
  <2> QED BY <1>2, <2>1, <2>2, <2>3 DEF PlannedRow, Present, Live
<1>3. CASE c.op = "assign"
  <2>1. PlanOf(c) = Reassigned(c) /\ c.id \in Sessions /\ Live(c.id)
    BY <1>3 DEF PlanOf, GoodCommand, Applicable
  <2>2. PICK row : row = [session[c.id] EXCEPT !.who = c.who]
    OBVIOUS
  <2>3. /\ {"status", "series"} \subseteq DOMAIN row /\ row.status = session[c.id].status
        /\ row.series = session[c.id].series
    BY <2>1, <2>2 DEF RowsFit
  <2>4. DOMAIN Reassigned(c) = {c.id} /\ Reassigned(c)[c.id] = row
    BY <2>2 DEF Reassigned
  <2> QED BY <1>3, <2>1, <2>3, <2>4 DEF PlannedRow, Present, Live
<1>4. CASE c.op = "remove"
  <2>1. PlanOf(c) = Removed(c) /\ c.id \in Sessions /\ Live(c.id)
    BY <1>4 DEF PlanOf, GoodCommand, Applicable
  <2>2. \A s \in Targets(c) :
           /\ s \in Sessions /\ Live(s)
           /\ s = c.id \/ (session[c.id].series # NoSeries /\ session[s].series = session[c.id].series)
    BY <2>1, TargetRows
  <2>3. DOMAIN Removed(c) = Targets(c)
    BY DEF Removed
  <2>4. ASSUME NEW s \in Targets(c)
        PROVE  /\ {"status", "series"} \subseteq DOMAIN Removed(c)[s]
               /\ Removed(c)[s].status = "deleted" /\ Removed(c)[s].series = session[s].series
    <3>1. Removed(c)[s] = [session[s] EXCEPT !.status = "deleted"]
      BY DEF Removed
    <3> QED BY <2>2, <3>1 DEF RowsFit
  <2> QED BY <1>4, <2>1, <2>2, <2>3, <2>4 DEF PlannedRow, Present, Live
<1>5. CASE c.op \in {"block", "unblock"}
  <2>1. DOMAIN PlanOf(c) = {}
    BY <1>5 DEF PlanOf, Empty
  <2> QED BY <1>5, <2>1
<1> QED BY <1>1, <1>2, <1>3, <1>4, <1>5 DEF GoodCommand, KnownCommand, Operations

LEMMA CheckScoped ==
    ASSUME Apart, Scoped, NEW p \in Instances, Check(p)
    PROVE  Scoped'
<1> DEFINE plan == PlanOf(run[p].cmd)
           new  == [run[p] EXCEPT !.step = "commit", !.held = run[p].held \cup run[p].want,
                                  !.want = {}, !.plan = plan]
<1>1. run' = [run EXCEPT ![p] = new] /\ UNCHANGED <<session, request>> /\ run[p].step = "keys"
  BY DEF Check, data, Apart, Formed
<1>2. plan = PlanOf(run[p].cmd)
  OBVIOUS
<1> HIDE DEF plan
<1>3. /\ new.cmd = run[p].cmd /\ new.req = run[p].req /\ new.step = "commit"
      /\ new.want = {} /\ new.held = run[p].held \cup run[p].want /\ new.plan = plan
  BY DEF Apart, Formed, Steps
<1> HIDE DEF new
<1>4. run'[p] = new
  BY <1>1 DEF Apart, Formed
<1>5. PICK c : c = run[p].cmd
  OBVIOUS
<1>6. Asking(p) /\ CommandFits(p) /\ RowsFit
  BY DEF Scoped
<1>7. /\ GoodCommand(c) /\ Applicable(c) /\ Accepts(c, run[p].req, plan)
      /\ c.op \in {"update", "assign", "remove"} => Present(c.id)
      /\ c.op \in {"update", "remove"} => ScopeLocked(p)
  BY <1>1, <1>2, <1>5, <1>6 DEF Check, CommandFits
<1>8. /\ \A s \in DOMAIN plan : PlannedRow(c, s)
      /\ c.op \in {"update", "remove"} => DOMAIN plan = Targets(c)
  BY <1>2, <1>5, <1>6, <1>7, PlannedRows
<1>9. \A s \in DOMAIN plan : RowFits(p, s)'
  BY <1>1, <1>2, <1>3, <1>4, <1>5, <1>8 DEF PlannedRow, RowFits, InScope, Present, Unused
<1>10. c.op \in {"update", "remove"} /\ run[p].req # NoRequest => DOMAIN plan = request[run[p].req].ids
  <2>1. c.op \in {"update", "remove"} => SameTargets(c, run[p].req)
    BY <1>7 DEF Accepts, MayChange
  <2> QED BY <1>8, <2>1 DEF SameTargets
<1>11. PlanFits(p)'
  BY <1>1, <1>3, <1>4, <1>5, <1>9, <1>10 DEF PlanFits
<1>12. c.op \in {"update", "remove"} => ScopeLocked(p)'
  BY <1>1, <1>3, <1>4, <1>5, <1>7 DEF ScopeLocked
<1>13. CommandFits(p)' /\ Asking(p)'
  BY <1>1, <1>3, <1>4, <1>5, <1>6, <1>7, <1>11, <1>12 DEF CommandFits, Asking, Present
<1>14. ASSUME NEW q \in Instances \ {p}, Creates(p)', Creates(q)
       PROVE  DOMAIN new.plan \cap DOMAIN run[q].plan = {}
  <2>1. c.op = "create"
    BY <1>3, <1>4, <1>5, <1>14 DEF Creates
  <2>2. \A s \in DOMAIN plan : s \in Unused
    BY <1>8, <2>1 DEF PlannedRow
  <2> QED BY <1>3, <2>2 DEF Unused
<1> QED BY <1>1, <1>13, <1>14, ScopedRunStep

(* A spread does not name what neither part names.                         *)
LEMMA SpreadStatus ==
    ASSUME NEW base, NEW patch, "status" \notin DOMAIN patch
    PROVE  Named(Spread(base, patch), "status", "scheduled") = Named(base, "status", "scheduled")
BY DEF Spread, Named

LEMMA StatedGood ==
    ASSUME NEW c, GoodCommand(c), Requestable(c)
    PROVE  GoodCommand(Stated(c))
<1>1. CASE c.op = "update"
  <2>1. PICK patch : patch = Spread(FieldsOf(session[c.id]), c.patch)
    OBVIOUS
  <2>2. Named(patch, "status", "scheduled") = "scheduled"
    <3>1. "status" \notin DOMAIN c.patch /\ "status" \notin DOMAIN FieldsOf(session[c.id])
      BY <1>1 DEF Requestable, FieldsOf
    <3>2. Named(FieldsOf(session[c.id]), "status", "scheduled") = "scheduled"
      BY <3>1 DEF Named
    <3> QED BY <2>1, <3>1, <3>2, SpreadStatus
  <2>3. Stated(c) = [c EXCEPT !.patch = patch]
    BY <1>1, <2>1 DEF Stated
  <2>4. DOMAIN Stated(c) = DOMAIN c /\ Stated(c).op = c.op /\ Stated(c).id = c.id /\ Stated(c).patch = patch
    BY <1>1, <2>3 DEF GoodCommand, KnownCommand
  <2> QED BY <1>1, <2>2, <2>4 DEF GoodCommand, KnownCommand, Statuses
<1>2. CASE c.op # "update"
  BY <1>2 DEF Stated
<1> QED BY <1>1, <1>2

LEMMA AmendedGood ==
    ASSUME NEW old, GoodCommand(old), NEW c, GoodCommand(c), Requestable(c), Amendable(old, c)
    PROVE  GoodCommand(Amended(old, c))
<1>1. CASE old.op = "update"
  <2>1. PICK named : named = Spread(old.patch, c.patch)
    OBVIOUS
  <2>2. PICK who : who = [who |-> CourseInstructor[named.course]]
    OBVIOUS
  <2>3. PICK patch : patch = Spread(who, named)
    OBVIOUS
  <2>4. Named(patch, "status", "scheduled") \in Statuses
    <3>1. c.op = "update" /\ "status" \notin DOMAIN c.patch /\ "status" \notin DOMAIN who
      BY <1>1, <2>2 DEF Requestable, Amendable
    <3>2. Named(named, "status", "scheduled") = Named(old.patch, "status", "scheduled")
      BY <2>1, <3>1, SpreadStatus
    <3>3. Named(patch, "status", "scheduled") = Named(named, "status", "scheduled")
      BY <2>3, <3>1 DEF Spread, Named
    <3> QED BY <1>1, <3>2, <3>3 DEF GoodCommand
  <2>5. Amended(old, c) = [old EXCEPT !.scope = c.scope, !.patch = patch]
    BY <1>1, <2>1, <2>2, <2>3 DEF Amended
  <2>6. /\ DOMAIN Amended(old, c) = DOMAIN old /\ Amended(old, c).op = old.op
        /\ Amended(old, c).id = old.id /\ Amended(old, c).patch = patch
    BY <1>1, <2>5 DEF GoodCommand, KnownCommand
  <2> QED BY <1>1, <2>4, <2>6 DEF GoodCommand, KnownCommand
<1>2. CASE old.op # "update"
  BY <1>2 DEF Amended
<1> QED BY <1>1, <1>2

(* A request nobody is approving is made, amended or decided.              *)
LEMMA RequestScoped ==
    ASSUME TimetableConstants, Held, Apart, Scoped, NEW r \in Requests, NEW c,
           (GoodCommand(c) /\ (Submit(r, c) \/ Amend(r, c))) \/ Reject(r) \/ Withdraw(r)
    PROVE  Scoped'
<1>1. session' = session /\ run' = run
  BY DEF Submit, Amend, Reject, Withdraw, Decide
<1>2. \A p \in Instances : run[p].req # r
  BY DEF Submit, Amend, Reject, Withdraw, Decide, MustPending, Held, Claimed, TimetableConstants
<1>3. \A s \in Requests \ {r} : request'[s] = request[s]
  BY RequestStep
<1>4. GoodCommand(request'[r].cmd)
  <2>0. request[r].state # "absent" => GoodCommand(request[r].cmd)
    BY DEF Scoped, RequestsFit
  <2>1. CASE GoodCommand(c) /\ Submit(r, c)
    <3>1. request'[r].cmd = Stated(c) /\ Requestable(c)
      BY <2>1 DEF Submit, Apart, Formed
    <3> QED BY <2>1, <3>1, StatedGood
  <2>2. CASE GoodCommand(c) /\ Amend(r, c)
    <3>1. PICK cmd : cmd = Amended(request[r].cmd, c)
      OBVIOUS
    <3>2. request' = [request EXCEPT ![r].cmd = cmd]
      BY <2>2, <3>1 DEF Amend
    <3>3. request'[r].cmd = cmd
      BY <3>2 DEF Apart, Formed
    <3>4. GoodCommand(request[r].cmd) /\ Requestable(c) /\ Amendable(request[r].cmd, c)
      BY <2>0, <2>2 DEF Amend, MustPending
    <3> QED BY <2>2, <3>1, <3>3, <3>4, AmendedGood
  <2>3. ASSUME NEW state, Decide(r, state) PROVE GoodCommand(request'[r].cmd)
    <3>1. request'[r].cmd = request[r].cmd /\ request[r].state # "absent"
      BY <2>3 DEF Decide, MustPending, Apart, Formed
    <3> QED BY <2>0, <3>1
  <2> QED BY <2>1, <2>2, <2>3 DEF Reject, Withdraw
<1>5. RowsFit' /\ RequestsFit' /\ NewRowsApart'
  BY <1>1, <1>3, <1>4 DEF Scoped, RowsFit, RequestsFit, NewRowsApart, Creates
<1>6. ASSUME NEW p \in Instances PROVE Asking(p)' /\ CommandFits(p)'
  <2>1. Asking(p) /\ CommandFits(p)
    BY DEF Scoped
  <2>2. run[p].req # NoRequest => request'[run[p].req] = request[run[p].req]
    BY <1>2, <1>3, <2>1 DEF Asking
  <2> QED BY <1>1, <2>1, <2>2 DEF Asking, CommandFits, ScopeLocked, PlanFits, RowFits, InScope, Present
<1> QED BY <1>5, <1>6 DEF Scoped

(* Changes and deletions that are about to commit share no row: a row of   *)
(* both is in the series both have locked, or is the session both have.    *)
LEMMA ScopesApart ==
    ASSUME Apart, Scoped, NEW p \in Instances, NEW q \in Instances \ {p},
           run[p].step = "commit", run[q].step = "commit",
           run[p].cmd.op \in {"update", "remove"}, run[q].cmd.op \in {"update", "remove"}
    PROVE  DOMAIN run[p].plan \cap DOMAIN run[q].plan = {}
<1> SUFFICES ASSUME NEW s \in DOMAIN run[p].plan, s \in DOMAIN run[q].plan PROVE FALSE
  OBVIOUS
<1>1. \A i \in {p, q} : /\ ScopeLocked(i) /\ RowFits(i, s) /\ InScope(i, s)
                        /\ run[i].want = {}
  BY DEF Scoped, CommandFits, PlanFits, RowFits, ScopeLocked
<1>2. run[p].held \cap run[q].held = {}
  BY DEF Apart, Exclusive
<1>3. CASE session[s].series = NoSeries
  <2>1. \A i \in {p, q} : s = run[i].cmd.id
    BY <1>1, <1>3 DEF InScope
  <2>2. \A i \in {p, q} : <<"session", s>> \in run[i].held
    BY <1>1, <2>1 DEF ScopeLocked
  <2> QED BY <1>2, <2>2
<1>4. CASE session[s].series # NoSeries
  <2>1. \A i \in {p, q} : session[run[i].cmd.id].series = session[s].series
    BY <1>1 DEF InScope
  <2>2. \A i \in {p, q} : <<"series", session[s].series>> \in run[i].held
    BY <1>1, <1>4, <2>1 DEF ScopeLocked
  <2> QED BY <1>2, <2>2
<1> QED BY <1>3, <1>4

(* Rows never vanish and keep their series.                                *)
LEMMA CommitKeeps ==
    ASSUME Apart, Scoped, NEW p \in Instances, Commit(p), NEW s \in Sessions
    PROVE  /\ {"status", "series"} \subseteq DOMAIN session'[s]
           /\ Present(s) => Present(s)' /\ session'[s].series = session[s].series
           /\ ~Present(s) /\ Present(s)' => s \in DOMAIN run[p].plan /\ Creates(p)
<1>1. /\ run[p].step = "commit"
      /\ s \in DOMAIN run[p].plan => session'[s] = run[p].plan[s]
      /\ s \notin DOMAIN run[p].plan => session'[s] = session[s]
  BY CommitWrites
<1>2. s \in DOMAIN run[p].plan => RowFits(p, s)
  BY <1>1 DEF Scoped, CommandFits, PlanFits
<1> QED BY <1>1, <1>2 DEF RowFits, Present, Creates, Scoped, RowsFit

LEMMA CommitScoped ==
    ASSUME Held, Apart, Scoped, NEW p \in Instances, Commit(p)
    PROVE  Scoped'
<1>1. /\ run[p].step = "commit" /\ run'[p] = Idle
      /\ \A q \in Instances \ {p} : run'[q] = run[q]
      /\ \A s \in Sessions \ DOMAIN run[p].plan : session'[s] = session[s]
      /\ \A s \in Sessions \cap DOMAIN run[p].plan : session'[s] = run[p].plan[s]
  BY CommitWrites
<1>2. \A r \in Requests : /\ request'[r].cmd = request[r].cmd /\ request'[r].ids = request[r].ids
                          /\ request[r].state = "absent" => request'[r].state = "absent"
  <2>1. request' = IF run[p].req = NoRequest THEN request
                   ELSE [request EXCEPT ![run[p].req].state = "approved"]
    BY DEF Commit
  <2> QED BY <2>1 DEF Apart, Formed, Held, Claimed
<1>3. RowsFit' /\ RequestsFit'
  BY <1>2, CommitKeeps DEF Scoped, RowsFit, RequestsFit
<1>4. Idle.step = "idle" /\ Idle.req = NoRequest
  BY DEF Idle
<1>5. NewRowsApart'
  BY <1>1, <1>4 DEF Scoped, NewRowsApart, Creates
<1>6. Asking(p)' /\ CommandFits(p)'
  BY <1>1, <1>4 DEF Asking, CommandFits
<1>7. ASSUME NEW q \in Instances \ {p} PROVE Asking(q)' /\ CommandFits(q)'
  <2>1. run'[q] = run[q] /\ Asking(q) /\ CommandFits(q)
    BY <1>1 DEF Scoped
  <2>2. Asking(q)'
    BY <1>2, <2>1 DEF Asking
  <2> SUFFICES ASSUME run[q].step # "idle" PROVE CommandFits(q)'
    BY <2>1, <2>2 DEF CommandFits
  <2>3. PICK c : c = run[q].cmd
    OBVIOUS
  <2>4. /\ GoodCommand(c)
        /\ c.op \in {"update", "assign", "remove"} => c.id \in Sessions /\ Present(c.id)
        /\ c.op \in {"update", "remove"} => ScopeLocked(q)
        /\ run[q].step = "commit" => PlanFits(q)
    BY <2>1, <2>3 DEF CommandFits, GoodCommand
  <2>5. c.op \in {"update", "assign", "remove"} =>
           Present(c.id)' /\ session'[c.id].series = session[c.id].series
    <3> SUFFICES ASSUME c.op \in {"update", "assign", "remove"}
                 PROVE  Present(c.id)' /\ session'[c.id].series = session[c.id].series
      OBVIOUS
    <3>1. PICK id \in Sessions : id = c.id
      BY <2>4
    <3>2. Present(id)
      BY <2>4, <3>1
    <3>3. Present(id)' /\ session'[id].series = session[id].series
      BY <3>2, CommitKeeps
    <3> QED BY <3>1, <3>3 DEF Present
  <2>6. c.op \in {"update", "remove"} => ScopeLocked(q)'
    BY <2>1, <2>3, <2>4, <2>5 DEF ScopeLocked
  <2>7. ASSUME run[q].step = "commit", NEW s \in DOMAIN run[q].plan PROVE RowFits(q, s)'
    <3>1. RowFits(q, s) /\ s \in Sessions
      BY <2>4, <2>7 DEF PlanFits, RowFits
    <3>2. s \in DOMAIN run[p].plan => RowFits(p, s)
      BY <1>1 DEF Scoped, CommandFits, PlanFits
    <3>3. c.op = "create" => ~Present(s)'
      <4> SUFFICES ASSUME c.op = "create", Present(s)' PROVE FALSE
        OBVIOUS
      <4>1. ~Present(s)
        BY <2>3, <3>1 DEF RowFits
      <4>2. s \in DOMAIN run[p].plan /\ Creates(p)
        BY <3>1, <4>1, CommitKeeps
      <4>3. Creates(q)
        BY <2>3, <2>7 DEF Creates
      <4> QED BY <2>7, <4>2, <4>3 DEF Scoped, NewRowsApart
    <3>4. c.op # "create" => Present(s)' /\ session'[s].series = session[s].series
      BY <2>3, <3>1, CommitKeeps DEF RowFits
    <3>5. c.op = "remove" => session'[s].status # "deleted"
      <4> SUFFICES ASSUME c.op = "remove" PROVE session'[s].status # "deleted"
        OBVIOUS
      <4>1. session[s].status # "deleted" /\ Present(s)
        BY <2>3, <3>1 DEF RowFits
      <4>2. CASE s \notin DOMAIN run[p].plan
        BY <1>1, <3>1, <4>1, <4>2
      <4>3. CASE s \in DOMAIN run[p].plan
        <5>1. run[p].cmd.op \notin {"update", "remove"}
          BY <1>1, <2>3, <2>7, <4>3, ScopesApart
        <5> QED BY <1>1, <3>1, <3>2, <4>3, <5>1 DEF RowFits
      <4> QED BY <4>2, <4>3
    <3>6. c.op \in {"update", "remove"} => InScope(q, s)'
      <4> SUFFICES ASSUME c.op \in {"update", "remove"} PROVE InScope(q, s)'
        OBVIOUS
      <4>1. InScope(q, s)
        BY <2>3, <3>1 DEF RowFits
      <4> QED BY <2>1, <2>3, <2>5, <3>4, <4>1 DEF InScope
    <3> QED BY <2>1, <2>3, <3>1, <3>3, <3>4, <3>5, <3>6 DEF RowFits
  <2>8. run[q].step = "commit" => PlanFits(q)'
    <3> SUFFICES ASSUME run[q].step = "commit" PROVE PlanFits(q)'
      OBVIOUS
    <3>1. run[q].req # NoRequest => run[q].req \in Requests /\ request'[run[q].req].ids = request[run[q].req].ids
      BY <1>2, <2>1 DEF Asking
    <3> QED BY <2>1, <2>4, <2>7, <3>1 DEF PlanFits
  <2> QED BY <2>1, <2>2, <2>3, <2>4, <2>5, <2>6, <2>8 DEF CommandFits
<1> QED BY <1>3, <1>5, <1>6, <1>7 DEF Scoped

LEMMA NextScoped == Held /\ Apart /\ Scoped /\ [Next]_vars => Scoped'
<1> SUFFICES ASSUME Held, Apart, Scoped, [Next]_vars PROVE Scoped'
  OBVIOUS
<1>1. CASE UNCHANGED vars
  <2>1. UNCHANGED <<session, request, run>>
    BY <1>1 DEF vars, data
  <2>2. (RowsFit /\ RequestsFit /\ NewRowsApart)'
    BY <2>1 DEF Scoped, RowsFit, RequestsFit, NewRowsApart, Creates
  <2>3. ASSUME NEW p \in Instances PROVE (Asking(p) /\ CommandFits(p))'
    <3>1. Asking(p) /\ CommandFits(p)
      BY DEF Scoped
    <3> QED BY <2>1, <3>1 DEF Asking, CommandFits, ScopeLocked, PlanFits, RowFits, InScope, Present
  <2> QED BY <2>2, <2>3 DEF Scoped
<1>2. ASSUME NEW p \in Instances, LockSeries(p) \/ Check(p) \/ Commit(p) \/ Abort(p)
      PROVE  Scoped'
  BY <1>2, LockSeriesScoped, CheckScoped, CommitScoped, AbortScoped
<1>3. \A c \in Commands \cup Asks : GoodCommand(c)
  BY TimetableConstants DEF TimetableConstants, GoodCommand, KnownCommand
<1>4. ASSUME NEW p \in Instances, NEW c \in Commands, Begin(p, c, NoRequest)
      PROVE  Scoped'
  BY <1>3, <1>4, BeginScoped
<1>5. ASSUME NEW p \in Instances, NEW r \in Requests, Approve(p, r)
      PROVE  Scoped'
  <2>1. GoodCommand(request[r].cmd) /\ Begin(p, request[r].cmd, r)
    BY <1>5 DEF Approve, MustPending, Scoped, RequestsFit
  <2> QED BY <2>1, BeginScoped
<1>6. ASSUME NEW r \in Requests, Reject(r) \/ Withdraw(r) \/ \E c \in Asks : Submit(r, c) \/ Amend(r, c)
      PROVE  Scoped'
  BY <1>3, <1>6, RequestScoped, TimetableConstants
<1> QED BY <1>1, <1>2, <1>4, <1>5, <1>6 DEF Next

LEMMA AlwaysScoped == Spec => []Scoped
<1>1. Held /\ Apart /\ Scoped /\ [Next]_vars => Scoped'
  BY NextScoped
<1> QED BY <1>1, InitScoped, Claims, AlwaysApart, PTL DEF Spec

(* expectedTargetIds: an approved change writes no session its request did *)
(* not name, and an approved deletion deletes each of them, in whatever    *)
(* order series are edited, extended and deleted meanwhile.                *)
THEOREM ApprovalsKeepTheirScope == Spec => RequestedScope
<1> DEFINE Kept == \A r \in Requests :
              request[r].state = "pending" /\ request'[r].state = "approved" =>
                  /\ request[r].cmd.op \in {"update", "remove"} => Touched \subseteq request[r].ids
                  /\ request[r].cmd.op = "remove" => request[r].ids \subseteq Touched
<1>1. Held /\ Apart /\ Scoped /\ [Next]_vars => [Kept]_vars
  <2> SUFFICES ASSUME Held, Apart, Scoped, Next, NEW r \in Requests,
                      request[r].state = "pending", request'[r].state = "approved"
               PROVE  /\ request[r].cmd.op \in {"update", "remove"} => Touched \subseteq request[r].ids
                      /\ request[r].cmd.op = "remove" => request[r].ids \subseteq Touched
    OBVIOUS
  <2>1. PICK p \in Instances : Commit(p) /\ run[p].req = r
    <3>1. ASSUME NEW s \in Requests, Reject(s) \/ Withdraw(s) \/ \E c \in Asks : Submit(s, c) \/ Amend(s, c)
          PROVE  FALSE
      <4>1. \A t \in Requests \ {s} : request'[t] = request[t]
        BY <3>1, RequestStep, TimetableConstants
      <4>2. s = r
        BY <4>1
      <4>3. CASE \E c \in Asks : Submit(s, c) \/ Amend(s, c)
        BY <4>2, <4>3 DEF Submit, Amend, Apart, Formed
      <4>4. CASE Reject(s) \/ Withdraw(s)
        BY <4>2, <4>4 DEF Reject, Withdraw, Decide, Apart, Formed
      <4> QED BY <3>1, <4>3, <4>4
    <3>2. ASSUME NEW p \in Instances, LockSeries(p) \/ Check(p) \/ Abort(p)
          PROVE  FALSE
      BY <3>2 DEF LockSeries, Check, Abort, data
    <3>3. ASSUME NEW p \in Instances, NEW c, NEW s, Begin(p, c, s)
          PROVE  FALSE
      BY <3>3 DEF Begin, data
    <3>4. PICK p \in Instances : Commit(p)
      BY <3>1, <3>2, <3>3 DEF Next, Approve
    <3>5. request' = IF run[p].req = NoRequest THEN request
                     ELSE [request EXCEPT ![run[p].req].state = "approved"]
      BY <3>4 DEF Commit
    <3> QED BY <3>4, <3>5 DEF Apart, Formed
  <2>2. /\ run[p].step = "commit" /\ r # NoRequest
        /\ \A s \in Sessions \ DOMAIN run[p].plan : session'[s] = session[s]
        /\ \A s \in Sessions \cap DOMAIN run[p].plan : session'[s] = run[p].plan[s]
    BY <2>1, CommitWrites, TimetableConstants DEF TimetableConstants
  <2>3. run[p].cmd = request[r].cmd /\ PlanFits(p)
    BY <2>1, <2>2 DEF Scoped, Asking, CommandFits
  <2>4. CASE request[r].cmd.op \in {"update", "remove"}
    <3>1. DOMAIN run[p].plan = request[r].ids
      BY <2>1, <2>2, <2>3, <2>4 DEF PlanFits
    <3>2. Touched \subseteq request[r].ids
      BY <2>2, <3>1 DEF Touched
    <3>3. ASSUME request[r].cmd.op = "remove", NEW s \in request[r].ids PROVE s \in Touched
      <4>1. s \in Sessions /\ run[p].plan[s].status = "deleted" /\ session[s].status # "deleted"
        BY <2>3, <3>1, <3>3 DEF PlanFits, RowFits
      <4> QED BY <2>2, <3>1, <3>3, <4>1 DEF Touched
    <3> QED BY <3>2, <3>3
  <2> QED BY <2>4
<1>2. Spec => [][Kept]_vars
  BY <1>1, Claims, AlwaysApart, AlwaysScoped, PTL DEF Spec
<1> QED BY <1>2 DEF RequestedScope
=============================================================================
