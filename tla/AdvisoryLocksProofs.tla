------------------------ MODULE AdvisoryLocksProofs ------------------------
(* lockTargets is free of deadlock for every set of commands that ask for  *)
(* keys in one order, and for which commands there is such an order.       *)
EXTENDS AdvisoryLocks, SequenceTheorems, FiniteSetTheorems, TLAPS

Keys == Nat \X Nat

(* An order of keys: a set of pairs.                                       *)
StrictOrder(order) ==
    /\ \A k \in Keys : <<k, k>> \notin order
    /\ \A j, k, l \in Keys : <<j, k>> \in order /\ <<k, l>> \in order => <<j, l>> \in order

(* What a transaction that holds `keys` has yet to do asks for a key it    *)
(* holds, or asked for before, or for one that comes after all of these.   *)
Climbs(calls, keys, order) ==
    \A n \in DOMAIN calls : \A k \in calls[n] :
        \/ k \in keys
        \/ \E m \in DOMAIN calls : m < n /\ k \in calls[m]
        \/ /\ \A h \in keys : <<h, k>> \in order
           /\ \A m \in DOMAIN calls : \A j \in calls[m] :
                 m < n \/ (m = n /\ Before(j, k)) => <<j, k>> \in order

(* A program whose calls, one after the other, keep to the order.          *)
Ascends(p, order) == Climbs(p, {}, order)

-----------------------------------------------------------------------------
(* One call asks for its least key first.                                  *)
LEMMA LeastKey ==
  ASSUME NEW S \in SUBSET Keys, S # {}
  PROVE  \E k \in S : \A j \in S : j = k \/ Before(k, j)
<1> DEFINE kinds == {k[1] : k \in S}
<1>1. PICK a \in kinds : \A b \in kinds : ~(<<b, a>> \in OpToRel(<, Nat))
  <2>1. kinds \subseteq Nat /\ kinds # {}  BY DEF Keys
  <2>. QED  BY <2>1, NatLessThanWellFounded, WFMin
<1> DEFINE ids == {k[2] : k \in {j \in S : j[1] = a}}
<1>2. PICK c \in ids : \A b \in ids : ~(<<b, c>> \in OpToRel(<, Nat))
  <2>1. ids \subseteq Nat /\ ids # {}  BY DEF Keys
  <2>. QED  BY <2>1, NatLessThanWellFounded, WFMin
<1>3. PICK k \in S : k[1] = a /\ k[2] = c  OBVIOUS
<1>4. ASSUME NEW j \in S PROVE j = k \/ Before(k, j)
  <2>1. j \in Nat \X Nat /\ k \in Nat \X Nat /\ j[1] \in kinds  BY DEF Keys
  <2>2. ~(j[1] < k[1])  BY <1>1, <1>3, <2>1 DEF OpToRel
  <2>3. j[1] = k[1] => ~(j[2] < k[2])
    <3>1. j[1] = k[1] => j[2] \in ids  BY <1>3
    <3>. QED  BY <1>2, <1>3, <2>1, <3>1 DEF OpToRel
  <2>. QED  BY <2>1, <2>2, <2>3 DEF Before
<1>. QED  BY <1>4

-----------------------------------------------------------------------------
(* What holds of the lock table, whatever the programs ask for.            *)
LocksOK ==
    /\ program \in [Instances -> Seq(SUBSET Keys)]
    /\ held \in [Instances -> SUBSET Keys]
    /\ \A i \in Instances : \A n \in DOMAIN program[i] : program[i][n] # {}
    /\ \A i, j \in Instances : i # j => held[i] \cap held[j] = {}

LEMMA AskedKey ==
  ASSUME LocksOK, NEW i \in Instances, program[i] # <<>>
  PROVE  /\ 1 \in DOMAIN program[i] /\ Asked(i) \in program[i][1] /\ Asked(i) \in Keys
         /\ \A j \in program[i][1] : j = Asked(i) \/ Before(Asked(i), j)
<1>1. program[i] \in Seq(SUBSET Keys)  BY DEF LocksOK
<1>2. 1 \in DOMAIN program[i]  BY <1>1
<1>3. program[i][1] \in SUBSET Keys /\ program[i][1] # {}  BY <1>1, <1>2 DEF LocksOK
<1>. QED  BY <1>2, <1>3, LeastKey DEF Asked

(* What is left of a program when the key that is asked for is taken.      *)
Rest(calls, k) ==
    IF calls[1] = {k} THEN Tail(calls) ELSE <<calls[1] \ {k}>> \o Tail(calls)

LEMMA RestCalls ==
  ASSUME NEW calls \in Seq(SUBSET Keys), calls # <<>>, NEW k \in calls[1]
  PROVE  /\ Rest(calls, k) \in Seq(SUBSET Keys)
         /\ calls[1] = {k} =>
              /\ DOMAIN Rest(calls, k) = 1 .. Len(calls) - 1
              /\ \A n \in DOMAIN Rest(calls, k) : Rest(calls, k)[n] = calls[n + 1]
         /\ calls[1] # {k} =>
              /\ DOMAIN Rest(calls, k) = 1 .. Len(calls)
              /\ Rest(calls, k)[1] = calls[1] \ {k}
              /\ \A n \in DOMAIN Rest(calls, k) : n # 1 => Rest(calls, k)[n] = calls[n]
<1>1. Len(calls) \in Nat \ {0} /\ DOMAIN calls = 1 .. Len(calls) /\ calls[1] \in SUBSET Keys
  OBVIOUS
<1>2. /\ Tail(calls) \in Seq(SUBSET Keys) /\ Len(Tail(calls)) = Len(calls) - 1
      /\ \A n \in 1 .. Len(calls) - 1 : Tail(calls)[n] = calls[n + 1]
  BY <1>1, HeadTailProperties
<1>3. CASE calls[1] = {k}  BY <1>1, <1>2, <1>3 DEF Rest
<1>4. CASE calls[1] # {k}
  <2> DEFINE one == <<calls[1] \ {k}>>
  <2>1. one \in Seq(SUBSET Keys) /\ Len(one) = 1 /\ one[1] = calls[1] \ {k}  BY <1>1
  <2>2. Rest(calls, k) = one \o Tail(calls)  BY <1>4 DEF Rest
  <2>. HIDE DEF one
  <2>3. /\ Rest(calls, k) \in Seq(SUBSET Keys) /\ Len(Rest(calls, k)) = Len(calls)
        /\ \A n \in 1 .. Len(calls) : Rest(calls, k)[n] =
              IF n <= 1 THEN one[n] ELSE Tail(calls)[n - 1]
    <3>1. one \in Seq(SUBSET Keys) /\ Tail(calls) \in Seq(SUBSET Keys)  BY <1>2, <2>1
    <3>2. /\ one \o Tail(calls) \in Seq(SUBSET Keys)
          /\ Len(one \o Tail(calls)) = Len(one) + Len(Tail(calls))
          /\ \A n \in 1 .. Len(one) + Len(Tail(calls)) : (one \o Tail(calls))[n] =
                IF n <= Len(one) THEN one[n] ELSE Tail(calls)[n - Len(one)]
      BY <3>1, ConcatProperties
    <3>. QED  BY <1>1, <1>2, <2>1, <2>2, <3>2
  <2>. QED  BY <1>1, <1>2, <1>4, <2>1, <2>3
<1>. QED  BY <1>3, <1>4

(* The programs of commands are programs.                                  *)
LEMMA LocksStep ==
  ASSUME LocksOK, [Next]_vars
  PROVE  LocksOK'
<1>1. CASE UNCHANGED vars  BY <1>1 DEF vars, LocksOK
<1>2. ASSUME NEW i \in Instances, NEW p \in Programs, Begin(i, p)
      PROVE  LocksOK'
  <2>1. p \in Seq(SUBSET Keys) /\ \A n \in DOMAIN p : p[n] # {}
    BY ProgramsAssumption DEF Keys
  <2>. QED  BY <1>2, <2>1 DEF LocksOK, Begin
<1>3. ASSUME NEW i \in Instances, Commit(i) \/ Rollback(i)
      PROVE  LocksOK'
  <2>1. <<>> \in Seq(SUBSET Keys) /\ DOMAIN <<>> = {}  OBVIOUS
  <2>. QED  BY <1>3, <2>1 DEF LocksOK, Commit, Rollback
<1>4. ASSUME NEW i \in Instances, Acquire(i)
      PROVE  LocksOK'
  <2> DEFINE k == Asked(i)
  <2>1. program[i] \in Seq(SUBSET Keys) /\ program[i] # <<>> /\ k \in program[i][1] /\ k \in Keys
    BY <1>4, AskedKey DEF Acquire, LocksOK
  <2>2. program' = [program EXCEPT ![i] = Rest(program[i], k)]
        /\ held' = [held EXCEPT ![i] = held[i] \cup {k}]
    BY <1>4 DEF Acquire, Rest, LocksOK
  <2>3. Free(k, i)  BY <1>4 DEF Acquire
  <2>. HIDE DEF k
  <2>4. /\ Rest(program[i], k) \in Seq(SUBSET Keys)
        /\ \A n \in DOMAIN Rest(program[i], k) : Rest(program[i], k)[n] # {}
    <3>1. \A n \in 1 .. Len(program[i]) : program[i][n] # {}  BY <2>1 DEF LocksOK
    <3>2. Len(program[i]) \in Nat \ {0}  BY <2>1
    <3>3. CASE program[i][1] = {k}
      <4>1. \A n \in 1 .. Len(program[i]) - 1 : n + 1 \in 1 .. Len(program[i])  BY <3>2
      <4>2. /\ Rest(program[i], k) \in Seq(SUBSET Keys)
            /\ DOMAIN Rest(program[i], k) = 1 .. Len(program[i]) - 1
            /\ \A n \in DOMAIN Rest(program[i], k) : Rest(program[i], k)[n] = program[i][n + 1]
        BY <2>1, <3>3, RestCalls
      <4>. QED  BY <3>1, <4>1, <4>2
    <3>4. CASE program[i][1] # {k}
      <4>1. program[i][1] \ {k} # {}  BY <2>1, <3>4
      <4>. QED  BY <2>1, <3>1, <3>4, <4>1, RestCalls
    <3>. QED  BY <3>3, <3>4
  <2>. QED  BY <2>1, <2>2, <2>3, <2>4 DEF LocksOK, Free
<1>. QED  BY <1>1, <1>2, <1>3, <1>4 DEF Next

-----------------------------------------------------------------------------
(* Every transaction keeps to the order.                                   *)
KeepOrder(order) == \A i \in Instances : Climbs(program[i], held[i], order)

(* Taking the least key of the current call leaves a program that climbs.  *)
LEMMA ClimbOn ==
  ASSUME NEW order, NEW calls \in Seq(SUBSET Keys), calls # <<>>, NEW keys \in SUBSET Keys,
         NEW k \in calls[1], \A j \in calls[1] : j = k \/ Before(k, j),
         Climbs(calls, keys, order)
  PROVE  Climbs(Rest(calls, k), keys \cup {k}, order)
<1> DEFINE rest == Rest(calls, k)
<1> DEFINE at(n) == IF calls[1] = {k} THEN n + 1 ELSE n
<1>1. Len(calls) \in Nat \ {0} /\ DOMAIN calls = 1 .. Len(calls)  OBVIOUS
(* The calls that are left, by the place they had.                         *)
<1>2. \A n \in DOMAIN rest : /\ n \in Nat /\ at(n) \in DOMAIN calls
                             /\ rest[n] \subseteq calls[at(n)]
                             /\ at(n) = 1 => k \notin rest[n]
  BY <1>1, RestCalls
<1>3. \A m \in DOMAIN calls : \A j \in calls[m] \ {k} :
          \E n \in DOMAIN rest : at(n) = m /\ j \in rest[n]
  <2>. SUFFICES ASSUME NEW m \in DOMAIN calls, NEW j \in calls[m] \ {k}
                PROVE  \E n \in DOMAIN rest : at(n) = m /\ j \in rest[n]
    OBVIOUS
  <2>1. CASE calls[1] = {k}
    <3>1. m # 1  BY <2>1
    <3>2. m - 1 \in DOMAIN rest /\ rest[m - 1] = calls[m]  BY <1>1, <2>1, <3>1, RestCalls
    <3>. QED  BY <1>1, <2>1, <3>2
  <2>2. CASE calls[1] # {k}
    <3>1. m \in DOMAIN rest /\ (rest[m] = calls[m] \/ rest[m] = calls[m] \ {k})
      BY <1>1, <2>2, RestCalls
    <3>. QED  BY <2>2, <3>1
  <2>. QED  BY <2>1, <2>2
<1>4. \A m, n \in DOMAIN rest : (m < n <=> at(m) < at(n)) /\ (m = n <=> at(m) = at(n))
  BY <1>2
<1>. HIDE DEF rest, at
<1>. SUFFICES ASSUME NEW n \in DOMAIN rest, NEW l \in rest[n], l \notin keys \cup {k},
                     ~ \E m \in DOMAIN rest : m < n /\ l \in rest[m]
              PROVE  /\ \A h \in keys \cup {k} : <<h, l>> \in order
                     /\ \A m \in DOMAIN rest : \A j \in rest[m] :
                           m < n \/ (m = n /\ Before(j, l)) => <<j, l>> \in order
  BY DEF Climbs, rest
<1>5. at(n) \in DOMAIN calls /\ l \in calls[at(n)]  BY <1>2
<1>6. ~ \E m \in DOMAIN calls : m < at(n) /\ l \in calls[m]  BY <1>3, <1>4
<1>7. /\ \A h \in keys : <<h, l>> \in order
      /\ \A m \in DOMAIN calls : \A j \in calls[m] :
            m < at(n) \/ (m = at(n) /\ Before(j, l)) => <<j, l>> \in order
  BY <1>5, <1>6 DEF Climbs
<1>8. <<k, l>> \in order
  <2>1. 1 \in DOMAIN calls  BY <1>1
  <2>2. CASE at(n) = 1  BY <1>5, <1>7, <2>1, <2>2
  <2>3. CASE at(n) # 1  BY <1>1, <1>5, <1>7, <2>1, <2>3
  <2>. QED  BY <2>2, <2>3
<1>9. ASSUME NEW m \in DOMAIN rest, NEW j \in rest[m], m < n \/ (m = n /\ Before(j, l))
      PROVE  <<j, l>> \in order
  BY <1>2, <1>4, <1>7, <1>9
<1>. QED  BY <1>7, <1>8, <1>9

LEMMA OrderStep ==
  ASSUME NEW order, \A p \in Programs : Ascends(p, order),
         LocksOK, KeepOrder(order), [Next]_vars
  PROVE  KeepOrder(order)'
<1>1. CASE UNCHANGED vars  BY <1>1 DEF vars, KeepOrder
<1>2. ASSUME NEW i \in Instances, NEW p \in Programs, Begin(i, p)
      PROVE  KeepOrder(order)'
  BY <1>2 DEF KeepOrder, Begin, Ascends, LocksOK
<1>3. ASSUME NEW i \in Instances, Commit(i) \/ Rollback(i)
      PROVE  KeepOrder(order)'
  <2>1. Climbs(<<>>, {}, order)  BY DEF Climbs
  <2>. QED  BY <1>3, <2>1 DEF KeepOrder, Commit, Rollback, LocksOK
<1>4. ASSUME NEW i \in Instances, Acquire(i)
      PROVE  KeepOrder(order)'
  <2> DEFINE k == Asked(i)
  <2>1. /\ program[i] \in Seq(SUBSET Keys) /\ program[i] # <<>> /\ held[i] \in SUBSET Keys
        /\ k \in program[i][1] /\ \A j \in program[i][1] : j = k \/ Before(k, j)
    BY <1>4, AskedKey DEF Acquire, LocksOK
  <2>2. program' = [program EXCEPT ![i] = Rest(program[i], k)]
        /\ held' = [held EXCEPT ![i] = held[i] \cup {k}]
    BY <1>4 DEF Acquire, Rest, LocksOK
  <2>. HIDE DEF k
  <2>3. Climbs(Rest(program[i], k), held[i] \cup {k}, order)
    BY <2>1, ClimbOn DEF KeepOrder
  <2>. QED  BY <2>2, <2>3 DEF KeepOrder, LocksOK
<1>. QED  BY <1>1, <1>2, <1>3, <1>4 DEF Next

-----------------------------------------------------------------------------
(* In a circle of waiting transactions there would be one that asks for a  *)
(* key after which no other of them asks; but the one it waits for asks    *)
(* for a key that comes after what it holds.                               *)
LEMMA NoCircle ==
  ASSUME NEW order, StrictOrder(order), IsFiniteSet(Instances), LocksOK, KeepOrder(order)
  PROVE  NoWaitCycle
<1>. SUFFICES ASSUME NEW D \in SUBSET Instances, D # {},
                     \A i \in D : \E j \in D : WaitsFor(i, j)
              PROVE  FALSE
  BY DEF NoWaitCycle
<1>1. ASSUME NEW i \in D, NEW j \in D, WaitsFor(i, j)
      PROVE  <<Asked(i), Asked(j)>> \in order /\ Asked(i) \in Keys /\ Asked(j) \in Keys
  <2>1. PICK l \in D : WaitsFor(j, l)  OBVIOUS
  <2>2. Asked(j) \in held[l] /\ l # j /\ program[j] # <<>>  BY <2>1 DEF WaitsFor
  <2>3. Asked(j) \notin held[j]  BY <2>2 DEF LocksOK
  <2>4. 1 \in DOMAIN program[j] /\ Asked(j) \in program[j][1] /\ Asked(j) \in Keys
    BY <2>2, AskedKey
  <2>5. \A m \in DOMAIN program[j] : ~(m < 1)  BY DEF LocksOK
  <2>6. \A h \in held[j] : <<h, Asked(j)>> \in order
    BY <2>3, <2>4, <2>5 DEF KeepOrder, Climbs
  <2>. QED  BY <1>1, <2>4, <2>6, AskedKey DEF WaitsFor
<1> DEFINE Above(i) == {j \in D : <<Asked(i), Asked(j)>> \in order}
<1>2. PICK i \in D : \A j \in D : ~(<<Above(j), Above(i)>> \in StrictSubsetOrdering(D))
  <2> DEFINE T == {Above(i) : i \in D}
  <2>1. IsFiniteSet(D)  BY FS_Subset
  <2>2. IsWellFoundedOn(StrictSubsetOrdering(D), SUBSET D)
    BY <2>1, FS_StrictSubsetOrderingWellFounded, FS_FiniteSubsetsOfFinite
  <2>3. T \subseteq SUBSET D /\ T # {}  OBVIOUS
  <2>4. PICK x \in T : \A y \in T : ~(<<y, x>> \in StrictSubsetOrdering(D))
    BY <2>2, <2>3, WFMin
  <2>. QED  BY <2>4
<1>3. PICK j \in D : WaitsFor(i, j)  OBVIOUS
<1>4. \A a \in D : Asked(a) \in Keys  BY <1>1
<1>5. Above(j) \subseteq Above(i)
  BY <1>1, <1>3, <1>4 DEF StrictOrder
<1>6. j \in Above(i) /\ j \notin Above(j)
  BY <1>1, <1>3, <1>4 DEF StrictOrder
<1>7. <<Above(j), Above(i)>> \in StrictSubsetOrdering(D)
  BY <1>5, <1>6 DEF StrictSubsetOrdering
<1>. QED  BY <1>2, <1>7

(* lockTargets and the programs built of it: whatever number of commands   *)
(* runs, none waits in a circle, provided there is one order of keys that  *)
(* every command keeps to over all its calls.                              *)
THEOREM OrderedLocking ==
  ASSUME IsFiniteSet(Instances), NEW order, StrictOrder(order),
         \A p \in Programs : Ascends(p, order)
  PROVE  Spec => []NoWaitCycle
<1>1. Init => LocksOK /\ KeepOrder(order)
  <2>1. <<>> \in Seq(SUBSET Keys) /\ DOMAIN <<>> = {}  OBVIOUS
  <2>. QED  BY <2>1 DEF Init, LocksOK, KeepOrder, Climbs
<1>2. LocksOK /\ KeepOrder(order) /\ [Next]_vars => LocksOK' /\ KeepOrder(order)'
  BY LocksStep, OrderStep
<1>3. LocksOK /\ KeepOrder(order) => NoWaitCycle
  BY NoCircle
<1>. QED  BY <1>1, <1>2, <1>3, PTL DEF Spec
-----------------------------------------------------------------------------
(* The order that most commands keep to: the series first, then the kinds  *)
(* of LOCK_KIND, except that the name of a subject comes before courses.   *)
(* subjectNameLockKey hashes a name into the same ids as those of subjects *)
(* (kind 14), and openClass asks for the name, then the course, then the   *)
(* subject: the hashes have to be none of the ids.                         *)
Stage(k, names) == IF k[1] = 9 THEN 0 ELSE IF k[1] = 14 /\ k[2] \in names THEN 12 ELSE k[1]

LockOrder(names) ==
    {jk \in Keys \X Keys :
        LET j == jk[1] k == jk[2] IN
        \/ Stage(j, names) < Stage(k, names)
        \/ Stage(j, names) = Stage(k, names) /\ Before(j, k)}

(* The commands that keep to it, with any arguments.  The others nest a    *)
(* command that asks for less than they hold: an assignment that sets the  *)
(* course's default instructor, a registration with a relative, and the    *)
(* conversion of a counselling card.                                       *)
KeepsStages(p, names) ==
    \/ \E t \in Nat, S \in SUBSET Nat : p = GenerateProgram(t, S)
    \/ \E d \in Nat : p = PayoutProgram(d)
    \/ \E c, u \in Nat : p = CourseProgram(c, u)
    \/ \E s, c \in Nat : p = EnrollProgram(s, c)
    \/ \E s, c, card \in Nat : p = EnrollOnCardProgram(s, c, card)
    \/ \E s, c, from, to \in Nat : p = AssignProgram(s, c, from, to, FALSE)
    \/ \E name \in names, subject \in Nat \ names, c, u, room \in Nat, S \in SUBSET Nat :
          p = OpenClassProgram(name, subject, c, u, room, S)
    \/ \E series, s, c, t, room \in Nat, S \in SUBSET Nat :
          p = UpdateProgram(series, s, c, t, room, S)
    \/ \E series \in Nat, S \in SUBSET Nat : p = RemoveProgram(series, S)

LEMMA LockOrderIsStrict ==
  ASSUME NEW names
  PROVE  StrictOrder(LockOrder(names))
<1>1. \A k \in Keys : Stage(k, names) \in Nat  BY DEF Stage, Keys
<1>2. ASSUME NEW j \in Keys, NEW k \in Keys
      PROVE  <<j, k>> \in LockOrder(names) <=>
                \/ Stage(j, names) < Stage(k, names)
                \/ Stage(j, names) = Stage(k, names) /\ Before(j, k)
  BY DEF LockOrder
<1>3. \A k \in Keys : ~Before(k, k)  BY DEF Before, Keys
<1>4. \A j, k, l \in Keys : Before(j, k) /\ Before(k, l) => Before(j, l)  BY DEF Before, Keys
<1>. QED  BY <1>1, <1>2, <1>3, <1>4 DEF StrictOrder

(* A call is in order when each of its keys has the stage of its kind, or  *)
(* is the name of a subject that comes after all the others.               *)
LEMMA PlainCall ==
  ASSUME NEW names, NEW S \in SUBSET Keys,
         \A k \in S : Stage(k, names) = k[1] \/ (k[1] = 14 /\ \A j \in S : j = k \/ j[1] < 12)
  PROVE  \A j, k \in S : Before(j, k) => <<j, k>> \in LockOrder(names)
<1>. SUFFICES ASSUME NEW j \in S, NEW k \in S, Before(j, k)
              PROVE  <<j, k>> \in LockOrder(names)
  OBVIOUS
<1>1. j \in Keys /\ k \in Keys  OBVIOUS
<1>2. j # k  BY <1>1 DEF Before, Keys
<1>3. CASE Stage(j, names) = j[1] /\ Stage(k, names) = k[1]
  BY <1>1, <1>3 DEF LockOrder, Before
<1>4. CASE k[1] = 14 /\ j[1] < 12
  <2>1. Stage(k, names) \in {12, 14} /\ Stage(j, names) \in {0, j[1]}  BY <1>4 DEF Stage
  <2>2. Stage(j, names) < Stage(k, names)  BY <1>1, <1>4, <2>1 DEF Keys
  <2>. QED  BY <1>1, <2>2 DEF LockOrder
<1>5. CASE j[1] = 14 /\ k[1] < 12
  BY <1>1, <1>5 DEF Before, Keys
<1>. QED  BY <1>2, <1>3, <1>4, <1>5

LEMMA OneCall ==
  ASSUME NEW order, NEW S, \A j, k \in S : Before(j, k) => <<j, k>> \in order
  PROVE  Ascends(<<S>>, order)
BY DEF Ascends, Climbs

LEMMA TwoCalls ==
  ASSUME NEW order, NEW S, NEW T,
         \A j, k \in S : Before(j, k) => <<j, k>> \in order,
         \A j, k \in T : Before(j, k) => <<j, k>> \in order,
         \A j \in S, k \in T : k \in S \/ <<j, k>> \in order
  PROVE  Ascends(<<S, T>>, order)
<1> DEFINE p == <<S, T>>
<1>1. DOMAIN p = {1, 2} /\ p[1] = S /\ p[2] = T  OBVIOUS
<1>. HIDE DEF p
<1>2. Climbs(p, {}, order)  BY <1>1 DEF Climbs
<1>. QED  BY <1>2 DEF Ascends, p

LEMMA StagesAscend ==
  ASSUME NEW names \in SUBSET Nat, NEW p, KeepsStages(p, names)
  PROVE  Ascends(p, LockOrder(names))
<1>. USE DEF Instructor, Room, Student, Session, User, Series, Card, Payout, Course, Subject
<1> DEFINE order == LockOrder(names)
<1> DEFINE Sessions(S) == {Session(s) : s \in S}
<1>1. ASSUME NEW j \in Keys, NEW k \in Keys, Stage(j, names) < Stage(k, names)
      PROVE  <<j, k>> \in order
  BY <1>1 DEF LockOrder
<1>2. \A S \in SUBSET Nat : /\ Sessions(S) \in SUBSET Keys
                            /\ \A k \in Sessions(S) : k[1] = 4 /\ Stage(k, names) = 4
  <2>1. \A s \in Nat : /\ Session(s) \in Keys /\ Session(s)[1] = 4
                       /\ Stage(Session(s), names) = 4
    BY DEF Keys, Stage
  <2>. QED  BY <2>1
<1>. HIDE DEF order
<1>3. ASSUME NEW t \in Nat, NEW S \in SUBSET Nat, p = GenerateProgram(t, S)
      PROVE  Ascends(p, order)
  <2>1. Instructor(t) \in Keys /\ Instructor(t)[1] = 1 /\ Stage(Instructor(t), names) = 1
    BY DEF Keys, Stage
  <2>2. \A k \in Sessions(S) : <<Instructor(t), k>> \in order
    <3>. SUFFICES ASSUME NEW k \in Sessions(S) PROVE <<Instructor(t), k>> \in order  OBVIOUS
    <3>1. k \in Keys /\ Stage(k, names) = 4  BY <1>2
    <3>. QED  BY <1>1, <2>1, <3>1
  <2>3. \A j, k \in {Instructor(t)} : Before(j, k) => <<j, k>> \in order
    BY <2>1 DEF Before
  <2>4. \A j, k \in Sessions(S) : Before(j, k) => <<j, k>> \in order
    BY <1>2, PlainCall DEF order
  <2>. HIDE DEF Sessions
  <2>5. Ascends(<<{Instructor(t)}, Sessions(S)>>, order)  BY <2>2, <2>3, <2>4, TwoCalls
  <2>. QED  BY <1>3, <2>5 DEF GenerateProgram, Sessions
<1>4. ASSUME NEW S \in SUBSET Keys, \A k \in S : k[1] \in {1, 2, 3, 4, 5, 12, 13}
      PROVE  \A j, k \in S : Before(j, k) => <<j, k>> \in order
  <2>1. \A k \in S : Stage(k, names) = k[1]  BY <1>4 DEF Stage
  <2>. QED  BY <2>1, PlainCall DEF order
<1>5. ASSUME \E d \in Nat : p = PayoutProgram(d) PROVE Ascends(p, order)
  <2>1. PICK d \in Nat : p = <<{Payout(d)}>>  BY <1>5 DEF PayoutProgram
  <2>. QED  BY <2>1, <1>4, OneCall DEF Keys
<1>6. ASSUME \E c, u \in Nat : p = CourseProgram(c, u) PROVE Ascends(p, order)
  <2>1. PICK c, u \in Nat : p = <<{Course(c), User(u)}>>  BY <1>6 DEF CourseProgram
  <2>. QED  BY <2>1, <1>4, OneCall DEF Keys
<1>7. ASSUME \E s, c \in Nat : p = EnrollProgram(s, c) PROVE Ascends(p, order)
  <2>1. PICK s, c \in Nat : p = <<{Student(s), Course(c)}>>  BY <1>7 DEF EnrollProgram
  <2>. QED  BY <2>1, <1>4, OneCall DEF Keys
<1>8. ASSUME \E s, c, card \in Nat : p = EnrollOnCardProgram(s, c, card) PROVE Ascends(p, order)
  <2>1. PICK s, c, card \in Nat : p = <<{Student(s), Course(c), Card(card)}>>
    BY <1>8 DEF EnrollOnCardProgram
  <2>. QED  BY <2>1, <1>4, OneCall DEF Keys
<1>9. ASSUME NEW s \in Nat, NEW c \in Nat, NEW from \in Nat, NEW to \in Nat,
             p = AssignProgram(s, c, from, to, FALSE)
      PROVE  Ascends(p, order)
  <2> DEFINE S == {Session(s), Course(c), Instructor(from), Instructor(to)}
  <2>1. S \in SUBSET Keys /\ \A k \in S : k[1] \in {1, 4, 13}  BY DEF Keys
  <2>2. p = <<S>> \o <<>>  BY <1>9 DEF AssignProgram
  <2>. HIDE DEF S
  <2>3. p = <<S>>
    <3>1. <<S>> \in Seq(SUBSET Keys)  BY <2>1
    <3>. QED  BY <2>2, <3>1, ConcatEmptySeq
  <2>. QED  BY <1>4, <2>1, <2>3, OneCall
<1>10. ASSUME NEW name \in names, NEW subject \in Nat \ names, NEW c \in Nat, NEW u \in Nat,
              NEW room \in Nat, NEW X \in SUBSET Nat,
              p = OpenClassProgram(name, subject, c, u, room, X)
       PROVE  Ascends(p, order)
  <2> DEFINE S == {Subject(name), User(u), Instructor(u), Room(room)} \cup {Student(x) : x \in X}
  <2> DEFINE T == {Course(c), Subject(subject), User(u)}
  <2>1. /\ S \in SUBSET Keys /\ T \in SUBSET Keys
        /\ \A k \in S : (Stage(k, names) = k[1] /\ k[1] \in {1, 2, 3, 5}) \/ k = Subject(name)
        /\ \A k \in T : (Stage(k, names) = k[1] /\ k[1] \in {13, 14}) \/ k = User(u)
    BY DEF Keys, Stage
  <2>2. Stage(Subject(name), names) = 12 /\ Subject(name)[1] = 14 /\ User(u) \in S
        /\ Stage(User(u), names) = 5 /\ User(u)[1] = 5
    BY DEF Stage
  <2>3. p = <<S, T>>  BY <1>10 DEF OpenClassProgram
  <2>. HIDE DEF S, T
  <2>4. \A j, k \in S : Before(j, k) => <<j, k>> \in order
    <3>1. \A k \in S : Stage(k, names) = k[1] \/ (k[1] = 14 /\ \A j \in S : j = k \/ j[1] < 12)
      BY <2>1, <2>2
    <3>. QED  BY <2>1, <3>1, PlainCall DEF order
  <2>5. \A j, k \in T : Before(j, k) => <<j, k>> \in order
    <3>1. \A k \in T : Stage(k, names) = k[1]  BY <2>1, <2>2
    <3>. QED  BY <2>1, <3>1, PlainCall DEF order
  <2>6. \A j \in S, k \in T : k \in S \/ <<j, k>> \in order
    <3>. SUFFICES ASSUME NEW j \in S, NEW k \in T, k \notin S PROVE Stage(j, names) < Stage(k, names)
      BY <1>1, <2>1
    <3>. QED  BY <2>1, <2>2
  <2>. QED  BY <2>3, <2>4, <2>5, <2>6, TwoCalls
<1>11. ASSUME NEW series \in Nat, NEW T \in SUBSET Keys, \A k \in T : k[1] \in {1, 2, 3, 4, 5, 12, 13}
       PROVE  Ascends(<<{Series(series)}, T>>, order)
  <2>1. Series(series) \in Keys /\ Stage(Series(series), names) = 0  BY DEF Keys, Stage
  <2>2. \A k \in T : Stage(k, names) > 0  BY <1>11 DEF Stage
  <2>3. \A j \in {Series(series)}, k \in T : <<j, k>> \in order  BY <1>1, <2>1, <2>2
  <2>4. \A j, k \in {Series(series)} : ~Before(j, k)  BY DEF Before
  <2>. QED  BY <1>4, <1>11, <2>3, <2>4, TwoCalls
<1>12. ASSUME NEW series \in Nat, NEW s \in Nat, NEW c \in Nat, NEW t \in Nat, NEW room \in Nat,
              NEW X \in SUBSET Nat, p = UpdateProgram(series, s, c, t, room, X)
       PROVE  Ascends(p, order)
  <2> DEFINE T == {Instructor(t), Room(room), Session(s), User(t), Course(c)}
                    \cup {Student(x) : x \in X}
  <2>1. T \in SUBSET Keys /\ \A k \in T : k[1] \in {1, 2, 3, 4, 5, 12, 13}  BY DEF Keys
  <2>2. p = <<{Series(series)}, T>>  BY <1>12 DEF UpdateProgram
  <2>. QED  BY <1>11, <2>1, <2>2
<1>13. ASSUME NEW series \in Nat, NEW X \in SUBSET Nat, p = RemoveProgram(series, X)
       PROVE  Ascends(p, order)
  <2>1. p = <<{Series(series)}, Sessions(X)>>  BY <1>13 DEF RemoveProgram
  <2>2. \A k \in Sessions(X) : k[1] \in {1, 2, 3, 4, 5, 12, 13}  BY <1>2
  <2>. QED  BY <1>2, <1>11, <2>1, <2>2
<1>. QED  BY <1>3, <1>5, <1>6, <1>7, <1>8, <1>9, <1>10, <1>12, <1>13 DEF KeepsStages, order

(* generate, pay, course updates, enrollments, assignments that leave the  *)
(* course alone, new classes, changes and removals of lessons: any number  *)
(* of them, about any records, never wait in a circle.                     *)
THEOREM NoDeadlock ==
  ASSUME IsFiniteSet(Instances), NEW names \in SUBSET Nat,
         \A p \in Programs : KeepsStages(p, names)
  PROVE  Spec => []NoWaitCycle
BY StagesAscend, LockOrderIsStrict, OrderedLocking
=============================================================================
