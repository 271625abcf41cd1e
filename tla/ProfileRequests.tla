-------------------------- MODULE ProfileRequests --------------------------
(***************************************************************************)
(* Changes of one's own profile: requested with a consumed challenge, or,  *)
(* for a new telephone number while no SMS provider is configured, without *)
(* one; decided by somebody else, applied to the version of the profile    *)
(* they were made for (profile-change-requests.service.ts).                *)
(* Administrators write the same fields directly.                          *)
(*                                                                         *)
(* One requester, whose profile is one field; a requester who is the       *)
(* representative has his request applied at once.                         *)
(***************************************************************************)
EXTENDS Challenges

CONSTANTS ProfileRequestIds, FirstRequest, Values, ProfileCommands,
          PhoneValues,     \* the values that are another telephone number
          MaxBegins        \* bound: commands that begin

NoProof == 0               \* verificationChallengeId: null

(* The commands there are; the first request is backed by challenge 1.     *)
ASSUME ProfileConstants ==
    /\ ProfileCommands \subseteq
           [op : {"create"}, family : {"signup", "profile"}]
           \cup [op : {"confirm"}, id : Challenges, right : BOOLEAN]
           \cup [op : {"resend"}, id : Challenges]
           \cup [op : {"signUp", "changePassword"}, id : Challenges, purpose : STRING]
           \cup [op : {"ask"}, id : Challenges \cup {NoProof}, request : ProfileRequestIds, value : Values]
           \cup [op : {"approve", "reject", "withdraw"}, request : ProfileRequestIds]
           \cup [op : {"editProfile"}, value : Values]
    /\ 1 \in Challenges /\ NoProof \notin Challenges
    /\ 1 \in Values /\ PhoneValues \subseteq Values
    /\ IsFiniteSet(ProfileRequestIds)

VARIABLES person,          \* the requester's users row
          profileRequest,  \* profile_change_requests
          begun            \* counts up to MaxBegins

profileVars == <<challengeVars, person, profileRequest, begun>>

NoProfileRequest ==
    [status |-> "absent", base |-> 0, before |-> 0, value |-> 0, applied |-> 0, proof |-> NoProof]
FirstPending ==
    [status |-> "pending", base |-> 0, before |-> 0, value |-> 1, applied |-> 0, proof |-> 1]

(* Nothing yet, or a first request that is pending and, for the second, a  *)
(* challenge that was confirmed since.                                     *)
ProfilesInit ==
    /\ begun = 0
    /\ guesses = [x \in Challenges |-> 0]
    /\ \/ /\ ChallengesInit
          /\ person \in [active : {TRUE}, super : BOOLEAN, profileVersion : {0}, value : {0}]
          /\ profileRequest = [r \in ProfileRequestIds |-> NoProfileRequest]
       \/ /\ challenge = [x \in Challenges |->
                             Fresh("profile", IF x = 1 THEN "consumed" ELSE "verified")]
          /\ usedBy = [x \in Challenges |-> IF x = 1 THEN {FirstRequest} ELSE {}]
          /\ person = [active |-> TRUE, super |-> FALSE, profileVersion |-> 0, value |-> 0]
          /\ profileRequest = [r \in ProfileRequestIds |->
                                  IF r = FirstRequest THEN FirstPending ELSE NoProfileRequest]

RequestLock(c) == {<<"profileRequest", c.request>>}

ProfileKeys(c) ==
    CASE c.op = "ask" -> UserLock \cup (IF c.id = NoProof THEN {} ELSE RowLock(c))
      [] c.op \in {"approve", "reject", "withdraw"} -> UserLock \cup RequestLock(c)
      [] c.op = "editProfile" -> UserLock
      [] OTHER -> KeysOfChallenge(c)

(* A command names rows that exist, a new request one that does not.       *)
Addressed(c) ==
    /\ "id" \in DOMAIN c /\ c.id # NoProof => challenge[c.id].status # "absent"
    /\ "request" \in DOMAIN c => (c.op = "ask") = (profileRequest[c.request].status = "absent")

BeginProfileCommand(p) ==
    /\ begun < MaxBegins
    /\ \E c \in ProfileCommands :
         /\ Addressed(c)
         /\ Begin(p, c, ProfileKeys(c),
                  [rows |-> challenge, person |-> person, requests |-> profileRequest])
    /\ begun' = begun + 1
    /\ UNCHANGED <<challengeVars, person, profileRequest>>

RefuseProfileCommand(p) == Abort(p) /\ UNCHANGED profileVars

Person(p)   == run[p].saw.person
SawRequests(p) == run[p].saw.requests
Asked(p)    == SawRequests(p)[run[p].cmd.request]

-----------------------------------------------------------------------------
(* create: one pending request per requester, in what it read and, by      *)
(* uq_profile_change_requests_pending_requester, in what it writes to.     *)
NonePending(rs) == \A r \in ProfileRequestIds : rs[r].status # "pending"

(* A challenge that is given is consumed.  None need be given for another  *)
(* telephone number if the environment names no SMS provider, which may be *)
(* so or not whenever it is asked (smsChallengeAvailable): such a request  *)
(* is accepted here or refused.                                            *)
ProveContact(p) ==
    LET c == run[p].cmd IN
    \/ c.id = NoProof /\ c.value \in PhoneValues /\ UNCHANGED challengeVars
    \/ c.id # NoProof /\ Consume(p, c.id, "profile", c.request)

AskProfileChange(p) ==
    LET c == run[p].cmd IN
    /\ Running(p, "ask") /\ ~Person(p).super
    /\ NonePending(SawRequests(p)) /\ NonePending(profileRequest)
    /\ c.value # Person(p).value
    /\ profileRequest[c.request].status = "absent"
    /\ profileRequest' = [profileRequest EXCEPT ![c.request] =
            [status |-> "pending", base |-> Person(p).profileVersion, before |-> Person(p).value,
             value |-> c.value, applied |-> 0, proof |-> c.id]]
    /\ ProveContact(p)
    /\ End(p)
    /\ UNCHANGED <<person, begun>>

(* applyApprovedInTx.                                                      *)
Applicable(rq, seen) == seen.active /\ rq.base = seen.profileVersion

Apply(rq, seen) ==
    /\ Applicable(rq, seen) /\ person.profileVersion = seen.profileVersion
    /\ person' = [person EXCEPT !.value = rq.value, !.profileVersion = seen.profileVersion + 1]

(* Mutant: the fields are written and the version is not.                  *)
ApplyUnversioned(rq, seen) ==
    /\ Applicable(rq, seen) /\ person.profileVersion = seen.profileVersion
    /\ person' = [person EXCEPT !.value = rq.value]

ApplyRequest(rq, seen) == Apply(rq, seen)

(* create by the representative: inserted and applied in one transaction.  *)
AskAndApply(p) ==
    LET c  == run[p].cmd
        rq == [status |-> "approved", base |-> Person(p).profileVersion, before |-> Person(p).value,
               value |-> c.value, applied |-> Person(p).profileVersion + 1, proof |-> c.id]
    IN  /\ Running(p, "ask") /\ Person(p).super
        /\ NonePending(SawRequests(p))
        /\ c.value # Person(p).value
        /\ profileRequest[c.request].status = "absent"
        /\ ApplyRequest(rq, Person(p))
        /\ profileRequest' = [profileRequest EXCEPT ![c.request] = rq]
        /\ ProveContact(p)
        /\ End(p)
        /\ UNCHANGED begun

(* decide.                                                                 *)
StillPending(p) == Asked(p).status = "pending" /\ profileRequest[run[p].cmd.request].status = "pending"

ApproveProfile(p) ==
    /\ Running(p, "approve") /\ StillPending(p)
    /\ ApplyRequest(Asked(p), Person(p))
    /\ profileRequest' = [profileRequest EXCEPT ![run[p].cmd.request].status = "approved",
                                               ![run[p].cmd.request].applied = Person(p).profileVersion + 1]
    /\ End(p)
    /\ UNCHANGED <<challengeVars, begun>>

RejectProfile(p) ==
    /\ Running(p, "reject") /\ StillPending(p)
    /\ profileRequest' = [profileRequest EXCEPT ![run[p].cmd.request].status = "rejected"]
    /\ End(p)
    /\ UNCHANGED <<challengeVars, person, begun>>

(* withdraw: the row is deleted.                                           *)
WithdrawProfile(p) ==
    /\ Running(p, "withdraw") /\ StillPending(p)
    /\ profileRequest' = [profileRequest EXCEPT ![run[p].cmd.request].status = "withdrawn"]
    /\ End(p)
    /\ UNCHANGED <<challengeVars, person, begun>>

(* adminUpdateUser, updateInstructor: the same fields, no profileVersion.  *)
EditProfile(p) ==
    /\ Running(p, "editProfile")
    /\ person' = [person EXCEPT !.value = run[p].cmd.value]
    /\ End(p)
    /\ UNCHANGED <<challengeVars, profileRequest, begun>>

(* terminateUser, which takes the same lock.                               *)
LoseAccount ==
    /\ person.active /\ \A p \in Instances : run[p].held \cap UserLock = {}
    /\ person' = [person EXCEPT !.active = FALSE]
    /\ UNCHANGED <<run, challengeVars, profileRequest, begun>>

ProfilesNext ==
    \/ \E p \in Instances :
         \/ BeginProfileCommand(p) \/ RefuseProfileCommand(p)
         \/ AskProfileChange(p) \/ AskAndApply(p) \/ ApproveProfile(p) \/ RejectProfile(p)
         \/ WithdrawProfile(p) \/ EditProfile(p)
         \/ ChallengeStep(p) /\ UNCHANGED <<person, profileRequest, begun>>
    \/ TimePasses /\ UNCHANGED <<person, profileRequest, begun>>
    \/ LoseAccount

-----------------------------------------------------------------------------
ProfilesTypeOK ==
    /\ ChallengesTypeOK
    /\ person.value \in Values \cup {0} /\ person.profileVersion \in 0 .. Cardinality(ProfileRequestIds)
    /\ \A r \in ProfileRequestIds :
          profileRequest[r].status \in {"absent", "pending", "approved", "rejected", "withdrawn"}

(* consumeForRequest in the transaction of create, under the locks: a      *)
(* confirmed challenge serves one purpose, once; the challenge a request   *)
(* names served that request and nothing else, not even a sign-up or a     *)
(* change of password; and a request that names none asks for another      *)
(* telephone number.                                                       *)
Proven(r) ==
    LET rq == profileRequest[r] IN
    IF rq.proof = NoProof THEN rq.value \in PhoneValues ELSE usedBy[rq.proof] = {r}

OneProofEach ==
    /\ \A x \in Challenges : Cardinality(usedBy[x]) <= 1
    /\ \A r \in ProfileRequestIds : profileRequest[r].status # "absent" => Proven(r)

(* The versions of a profile are its approved requests, each applied to    *)
(* the one before: no approval is lost and none is applied twice.          *)
Approved == {r \in ProfileRequestIds : profileRequest[r].status = "approved"}

ApprovalsAreAChain ==
    /\ {profileRequest[r].applied : r \in Approved} = 1 .. person.profileVersion
    /\ Cardinality(Approved) = person.profileVersion
    /\ \A r \in Approved : profileRequest[r].applied = profileRequest[r].base + 1
=============================================================================
