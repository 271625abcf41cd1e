------------------------------ MODULE Counsel ------------------------------
(***************************************************************************)
(* Counselling cards, their rounds and the conversion of a card into an    *)
(* enrollment (counsel.service).                                           *)
(*                                                                         *)
(* Of a card's form the next contact stands for all that a round's         *)
(* snapshot holds; Unset is null.  Rounds of a card are numbered from 0.   *)
(***************************************************************************)
EXTENDS Studies

CONSTANTS Forms, RoundSlots, Contacts, Unset,
          CardSeeds,
          CounselCommands

VARIABLES card,            \* counsel_forms: [status, student, next]
          round,           \* counsel_rounds of a card: [no, next], or NoRound
          converted,       \* history: how often a card was converted,
          reopened,        \*   and how often an edit took it out of "registered"
          retouched        \* history: cards whose next contact was edited after the last round

cardRows == <<card, round>>
counselVars == <<cardRows, converted, reopened, retouched>>

NoRound == [no |-> 99, next |-> Unset]

CounselStatuses == {"requested", "pending", "registered", "dropped"}

(* What a client may send: validated before a command begins; 99 is more   *)
(* than any round's number.                                                *)
ASSUME CounselCommandsAssumption ==
    /\ IsFiniteSet(RoundSlots) /\ Cardinality(RoundSlots) < 99
    /\ \A c \in CounselCommands :
         /\ c.op \in {"openCard", "editCard", "convert", "enrollCard", "addRound", "editRound", "dropRound",
                      "removeCard"}
         /\ c.f \in Forms
         /\ c.op \in {"openCard", "enrollCard"} => c.s \in Pupils
         /\ c.op \in {"convert", "enrollCard"} => c.c \in StudyCourses /\ c.r \in Roadmaps \cup {NoRoadmap}
         /\ c.op \in {"openCard", "addRound", "editRound"} => c.next \in Contacts \cup {Unset}
         /\ c.op = "editCard" => \/ c.what = "status" /\ c.value \in CounselStatuses
                                 \/ c.what = "student" /\ c.value \in Pupils
                                 \/ c.what = "next" /\ c.value \in Contacts \cup {Unset}
         /\ c.op \in {"editRound", "dropRound"} => c.row \in RoundSlots

CounselInit ==
    /\ \E seed \in CardSeeds : card = seed.card /\ round = seed.round
    /\ converted = [f \in Forms |-> 0] /\ reopened = [f \in Forms |-> 0]
    /\ retouched = {}

-----------------------------------------------------------------------------
(* updateForm and createForm look for the student before the lock.  The    *)
(* nested enrollments.create of convert adds its own keys; the card's      *)
(* student cannot change meanwhile.                                        *)
CounselKeys(c) ==
    CASE c.op = "openCard" -> {}
      [] c.op = "convert"  -> Lock("counselForm", {c.f}) \cup EnrollKeys(card[c.f].student, c.c, c.r)
      [] c.op = "enrollCard" -> Lock("counselForm", {c.f}) \cup EnrollKeys(c.s, c.c, c.r)
      [] OTHER             -> Lock("counselForm", {c.f})

CardsSnapshot == [pupil |-> pupil, subject |-> subject, course |-> course, roadmap |-> roadmap,
                  enrolled |-> enrolled, card |-> card, round |-> round]

BeginCounselCommand(p) ==
    /\ studies < MaxStudies
    /\ \E c \in CounselCommands :
         Begin(p, c, CounselKeys(c), CardsSnapshot)
    /\ studies' = studies + 1
    /\ UNCHANGED <<studyRows, revived, resumed, counselVars>>

RefuseCounselCommand(p) == Abort(p) /\ UNCHANGED <<studyVars, counselVars>>

HasCard(p, f) == Read(p).card[f].status \notin {"absent", "removed"}

-----------------------------------------------------------------------------
(* createForm, also from registerWithCounsel.                              *)
OpenCard(p) ==
    LET c == run[p].cmd IN
    /\ Running(p, "openCard") /\ Read(p).pupil[c.s] # "removed"
    /\ card[c.f].status = "absent"
    /\ card' = [card EXCEPT ![c.f] = [status |-> "requested", student |-> c.s, next |-> c.next]]
    /\ End(p)
    /\ UNCHANGED <<studyVars, round, converted, reopened, retouched>>

(* updateForm: any status, student or contact, also of a card that was     *)
(* converted.                                                              *)
EditCard(p) ==
    LET c == run[p].cmd IN
    /\ Running(p, "editCard") /\ HasCard(p, c.f)
    /\ card' = [card EXCEPT ![c.f][c.what] = c.value]
    /\ retouched' = IF c.what = "next" THEN retouched \cup {c.f} ELSE retouched
    /\ reopened' = IF card[c.f].status = "registered" /\ card'[c.f].status # "registered"
                     THEN [reopened EXCEPT ![c.f] = @ + 1] ELSE reopened
    /\ End(p)
    /\ UNCHANGED <<studyVars, round, converted>>

(* convert: the enrollment of the card's student, and the card's status,   *)
(* compared with the one that was read.                                    *)
Convertible(status) == status \notin {"registered", "dropped"}

Convert(p) ==
    LET c == run[p].cmd IN
    /\ Running(p, "convert") /\ HasCard(p, c.f) /\ Convertible(Read(p).card[c.f].status)
    /\ EnrollAs(Read(p), Read(p).card[c.f].student, c.c, c.r, c.f)
    /\ card[c.f].status = Read(p).card[c.f].status
    /\ card' = [card EXCEPT ![c.f].status = "registered"]
    /\ converted' = [converted EXCEPT ![c.f] = @ + 1]
    /\ End(p)
    /\ UNCHANGED <<pupil, subject, course, roadmap, studies, revived, resumed, round, reopened, retouched>>

(* enrollments.create with a card of that student: the card stays as it    *)
(* is.                                                                     *)
EnrollWithCard(p) ==
    LET c == run[p].cmd IN
    /\ Running(p, "enrollCard") /\ HasCard(p, c.f) /\ Read(p).card[c.f].student = c.s
    /\ EnrollAs(Read(p), c.s, c.c, c.r, c.f)
    /\ End(p)
    /\ UNCHANGED <<pupil, subject, course, roadmap, studies, revived, resumed, counselVars>>

-----------------------------------------------------------------------------
(* Rounds.  The latest is the one with the highest number; what it says is *)
(* what the card says.                                                     *)
Rounds(rows) == {i \in RoundSlots : rows[i] # NoRound}
Latest(rows) == {i \in Rounds(rows) : \A j \in Rounds(rows) : rows[j].no <= rows[i].no}

(* createRound: without a next contact of its own it keeps the card's.     *)
AddRound(p) ==
    LET c    == run[p].cmd
        seen == Read(p).round[c.f]
        next == IF c.given THEN c.next ELSE Read(p).card[c.f].next
    IN  /\ Running(p, "addRound") /\ HasCard(p, c.f)
        /\ \E i \in RoundSlots, n \in 0 .. Cardinality(RoundSlots) :
             /\ round[c.f][i] = NoRound
             /\ \A j \in Rounds(seen) : seen[j].no < n
             /\ n # 0 => \E j \in Rounds(seen) : seen[j].no = n - 1
             /\ round' = [round EXCEPT ![c.f][i] = [no |-> n, next |-> next]]
        /\ card' = IF c.given THEN [card EXCEPT ![c.f].next = next] ELSE card
        /\ retouched' = retouched \ {c.f}
        /\ End(p)
        /\ UNCHANGED <<studyVars, converted, reopened>>

(* updateRound: the card follows when the round is the latest.             *)
EditRound(p) ==
    LET c == run[p].cmd IN
    /\ Running(p, "editRound") /\ HasCard(p, c.f)
    /\ c.row \in Rounds(Read(p).round[c.f]) /\ round[c.f][c.row] # NoRound
    /\ round' = [round EXCEPT ![c.f][c.row].next = c.next]
    /\ IF c.row \in Latest(round'[c.f])
         THEN card' = [card EXCEPT ![c.f].next = c.next] /\ retouched' = retouched \ {c.f}
         ELSE UNCHANGED <<card, retouched>>
    /\ End(p)
    /\ UNCHANGED <<studyVars, converted, reopened>>

(* removeRound: when it was the latest, the card says what the one before  *)
(* said, or has no next contact when there is none.                        *)
NextAfter(f, was, gone) ==
    IF gone \notin Latest(was) THEN card[f].next
    ELSE LET left == [was EXCEPT ![gone] = NoRound]
         IN  IF Rounds(left) = {} THEN Unset ELSE left[CHOOSE i \in Latest(left) : TRUE].next

(* Mutant: the card keeps the contact of the round that is gone.           *)
NextAsBefore(f, was, gone) == card[f].next

NextOfCard(f, was, gone) == NextAfter(f, was, gone)

DropRound(p) ==
    LET c == run[p].cmd IN
    /\ Running(p, "dropRound") /\ HasCard(p, c.f) /\ c.row \in Rounds(Read(p).round[c.f])
    /\ round' = [round EXCEPT ![c.f][c.row] = NoRound]
    /\ card' = [card EXCEPT ![c.f].next = NextOfCard(c.f, Read(p).round[c.f], c.row)]
    /\ retouched' = IF c.row \in Latest(Read(p).round[c.f]) THEN retouched \ {c.f} ELSE retouched
    /\ End(p)
    /\ UNCHANGED <<studyVars, converted, reopened>>

(* removeForm, with its rounds.                                            *)
RemoveCard(p) ==
    LET c == run[p].cmd IN
    /\ Running(p, "removeCard") /\ HasCard(p, c.f)
    /\ card' = [card EXCEPT ![c.f].status = "removed"]
    /\ round' = [round EXCEPT ![c.f] = [i \in RoundSlots |->
                    IF i \in Rounds(Read(p).round[c.f]) THEN NoRound ELSE @[i]]]
    /\ End(p)
    /\ UNCHANGED <<studyVars, converted, reopened, retouched>>

CounselNext ==
    \E p \in Instances :
        \/ BeginCounselCommand(p) \/ RefuseCounselCommand(p)
        \/ OpenCard(p) \/ EditCard(p) \/ Convert(p) \/ EnrollWithCard(p)
        \/ AddRound(p) \/ EditRound(p) \/ DropRound(p) \/ RemoveCard(p)

-----------------------------------------------------------------------------
CounselTypeOK ==
    \A f \in Forms :
        /\ card[f].student \in Pupils /\ card[f].next \in Contacts \cup {Unset}
        /\ \A i \in Rounds(round[f]) : round[f][i].next \in Contacts \cup {Unset}

(* convert: a card becomes one enrollment, however many instances convert  *)
(* it and whatever a retry does; again only after an edit reopened it.     *)
OneConversion == \A f \in Forms : converted[f] <= reopened[f] + 1

(* createRound, updateRound, removeRound: the next contact of a card, from *)
(* which the list of cards to call is made, is the one its latest round    *)
(* agreed on, unless somebody edited the card since.                       *)
Follows(cards, rounds, but) ==
    \A f \in Forms : cards[f].status \notin {"absent", "removed"} /\ f \notin but =>
        \A i \in Latest(rounds[f]) : cards[f].next = rounds[f][i].next

CardFollowsLatestRound == Follows(card, round, retouched)

(* The cards there are before the first command are such cards, their      *)
(* rounds numbered apart.                                                  *)
ASSUME CardSeedsAssumption ==
    \A seed \in CardSeeds :
        /\ seed.card \in [Forms -> [status : CounselStatuses \cup {"absent", "removed"}, student : Pupils,
                                    next : Contacts \cup {Unset}]]
        /\ seed.round \in [Forms -> [RoundSlots -> [no : 0 .. 98, next : Contacts \cup {Unset}] \cup {NoRound}]]
        /\ \A f \in Forms : /\ seed.card[f].status = "absent" => Rounds(seed.round[f]) = {}
                            /\ \A i, j \in Rounds(seed.round[f]) : seed.round[f][i].no = seed.round[f][j].no => i = j
        /\ Follows(seed.card, seed.round, {})
=============================================================================
