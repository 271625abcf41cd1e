----------------------------- MODULE Challenges -----------------------------
(***************************************************************************)
(* One-time codes that prove an address or a number is one's own: at       *)
(* sign-up and account recovery (signup-email-challenges.service.ts,       *)
(* signup-phone-challenges.service.ts) and before a change of profile or   *)
(* password (profile-verifications.service.ts).                            *)
(*                                                                         *)
(* One address and purpose ("signup") and one user and channel ("profile") *)
(* stand for all: rows of others are never touched.  Which code was sent   *)
(* is left out; a confirmation carries the right code or a wrong one.  A   *)
(* cooldown that has not passed, or a delivery that fails, is a refusal.   *)
(***************************************************************************)
EXTENDS UnitOfWork

CONSTANTS Challenges,
          MaxAttempts,     \* MAX_ATTEMPTS
          MaxResends       \* MAX_RESENDS

ASSUME ChallengeConstants == MaxAttempts \in Nat \ {0} /\ MaxResends \in Nat

VARIABLES challenge,       \* the rows of the three challenge tables
          guesses,         \* history: wrong codes given for the code last sent
          usedBy           \* history: what each challenge was consumed for

challengeVars == <<challenge, guesses, usedBy>>

Fresh(family, status) ==
    [family |-> family, status |-> status, attempts |-> 0, resends |-> 0, late |-> FALSE]

NoChallenge == Fresh("signup", "absent")

ChallengesInit ==
    /\ challenge = [x \in Challenges |-> NoChallenge]
    /\ guesses = [x \in Challenges |-> 0]
    /\ usedBy = [x \in Challenges |-> {}]

-----------------------------------------------------------------------------
UserLock == {<<"user", "owner">>}
RowLock(c) == {<<"challenge", c.id>>}

ChallengeKeys(c) ==
    CASE c.op = "create" /\ c.family = "profile" -> UserLock
      [] c.op = "create" /\ c.family = "signup"  -> {}
      [] c.op \in {"confirm", "resend"} /\ challenge[c.id].family = "profile" -> UserLock \cup RowLock(c)
      [] c.op = "changePassword" -> UserLock
      [] OTHER -> RowLock(c)

(* Mutant: confirm checks the code before it takes the locks.              *)
UnlockedConfirm(c) == IF c.op = "confirm" THEN {} ELSE ChallengeKeys(c)

KeysOfChallenge(c) == ChallengeKeys(c)

Rows(p) == run[p].saw.rows
Row(p)  == Rows(p)[run[p].cmd.id]

-----------------------------------------------------------------------------
(* create: the rows the new code replaces expire, whatever they have       *)
(* become since they were read.                                            *)
Replaced(rows, family) ==
    {x \in Challenges : /\ rows[x].family = family
                        /\ rows[x].status \in (IF family = "profile" THEN {"pending", "verified"}
                                                                     ELSE {"pending"})}

(* uq_profile_verification_active_requester_channel.                       *)
OneActive(rows) == \A x, y \in Replaced(rows, "profile") : x = y

CreateChallenge(p) ==
    LET family == run[p].cmd.family IN
    /\ Running(p, "create")
    /\ \E new \in Challenges :
         /\ challenge[new].status = "absent"
         /\ challenge' = [x \in Challenges |->
                            IF x = new THEN Fresh(family, "pending")
                            ELSE IF x \in Replaced(Rows(p), family)
                                 THEN [challenge[x] EXCEPT !.status = "expired"]
                                 ELSE challenge[x]]
    /\ OneActive(challenge')
    /\ End(p)
    /\ UNCHANGED <<guesses, usedBy>>

-----------------------------------------------------------------------------
(* confirm.                                                                *)
FindExpired(p) ==
    LET x == run[p].cmd.id IN
    /\ run[p].cmd.op \in {"confirm", "resend"}
    /\ Row(p).status = "pending" /\ Row(p).late
    /\ challenge' = [challenge EXCEPT ![x].status = "expired"]
    /\ End(p)
    /\ UNCHANGED <<guesses, usedBy>>

WrongCode(p) ==
    LET x == run[p].cmd.id
        n == Row(p).attempts + 1
    IN  /\ Running(p, "confirm") /\ ~run[p].cmd.right
        /\ Row(p).status = "pending" /\ ~Row(p).late
        /\ challenge' = [challenge EXCEPT ![x].attempts = n,
                                         ![x].status = IF n >= MaxAttempts THEN "locked" ELSE @]
        /\ guesses' = [guesses EXCEPT ![x] = @ + 1]
        /\ End(p)
        /\ UNCHANGED usedBy

RightCode(p) ==
    LET x == run[p].cmd.id IN
    /\ Running(p, "confirm") /\ run[p].cmd.right
    /\ Row(p).status = "pending" /\ ~Row(p).late
    /\ challenge[x].status = "pending"
    /\ challenge' = [challenge EXCEPT ![x].status = "verified"]
    /\ End(p)
    /\ UNCHANGED <<guesses, usedBy>>

(* resend, for profiles: another code, another set of attempts.            *)
Resendable(row) == row.resends < MaxResends

(* Mutant: the limit counts the codes and not the resends.                 *)
OneMore(row) == row.resends <= MaxResends

MayResend(row) == Resendable(row)

Resend(p) ==
    LET x == run[p].cmd.id IN
    /\ Running(p, "resend") /\ Row(p).family = "profile"
    /\ Row(p).status = "pending" /\ ~Row(p).late /\ MayResend(Row(p))
    /\ challenge' = [challenge EXCEPT ![x].resends = Row(p).resends + 1,
                                     ![x].attempts = 0, ![x].late = FALSE]
    /\ guesses' = [guesses EXCEPT ![x] = 0]
    /\ End(p)
    /\ UNCHANGED usedBy

-----------------------------------------------------------------------------
(* A confirmed challenge is consumed by what it was asked for, in the same *)
(* transaction.                                                            *)
Usable(row) == row.status = "verified" /\ ~row.late

(* Mutant: what is confirmed stays usable until it expires.                *)
UsableAgain(row) == row.status \in {"verified", "consumed"} /\ ~row.late

CanConsume(row) == Usable(row)

Consume(p, x, family, purpose) ==
    /\ Rows(p)[x].family = family
    /\ CanConsume(Rows(p)[x]) /\ CanConsume(challenge[x])
    /\ challenge' = [challenge EXCEPT ![x].status = "consumed"]
    /\ usedBy' = [usedBy EXCEPT ![x] = @ \cup {purpose}]
    /\ UNCHANGED guesses

(* signup and recovery: each account signed up or recovered is another use.*)
ConsumeForSignup(p) ==
    /\ Running(p, "signUp")
    /\ Consume(p, run[p].cmd.id, "signup", run[p].cmd.purpose)
    /\ End(p)

(* credentials.change.                                                     *)
ConsumeForPassword(p) ==
    /\ Running(p, "changePassword")
    /\ Consume(p, run[p].cmd.id, "profile", run[p].cmd.purpose)
    /\ End(p)

TimePasses ==
    /\ \E x \in Challenges : /\ challenge[x].status \in {"pending", "verified"} /\ ~challenge[x].late
                             /\ challenge' = [challenge EXCEPT ![x].late = TRUE]
    /\ UNCHANGED <<run, guesses, usedBy>>

ChallengeStep(p) ==
    \/ CreateChallenge(p) \/ FindExpired(p) \/ WrongCode(p) \/ RightCode(p) \/ Resend(p)
    \/ ConsumeForSignup(p) \/ ConsumeForPassword(p)

-----------------------------------------------------------------------------
ChallengesTypeOK ==
    /\ challenge \in [Challenges -> [family : {"signup", "profile"},
                        status : {"absent", "pending", "verified", "expired", "locked", "consumed"},
                        attempts : 0 .. MaxAttempts, resends : 0 .. MaxResends, late : BOOLEAN]]
    /\ guesses \in [Challenges -> Nat]

(* confirm's locks: however the requests interleave, a code can be guessed *)
(* at most MaxAttempts times before another one is sent.                   *)
BoundedGuesses == \A x \in Challenges : guesses[x] <= MaxAttempts
=============================================================================
