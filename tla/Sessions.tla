------------------------------ MODULE Sessions ------------------------------
(***************************************************************************)
(* Browser sessions: refresh tokens that are rotated on every use, and the *)
(* access tokens signed with them (refresh-tokens.service.ts, login,       *)
(* refresh and logout of auth.controller.ts), over accounts whose          *)
(* authority changes at any time (Authority).                              *)
(*                                                                         *)
(* A token row is named by its position; who holds a raw token may present *)
(* it as often as he likes, also after it was rotated.  The row lock of    *)
(* rotate makes its check and its writes one step; the reads before it,    *)
(* the signing after it and the list of rows revokeAllForUser works        *)
(* through are steps of their own.  login and refresh hold the account's   *)
(* row of the mirror itself (findByWebId, findById) and run in no          *)
(* transaction: whenever they wait, the row can change in place under them *)
(* (RowWritten), also to what a transaction under way has written.         *)
(***************************************************************************)
EXTENDS Authority, Sequences

CONSTANTS Requests,        \* requests that can be under way at the same time
          MaySignIn,       \* the claims of an active staff account
          MaxTokens,       \* bound: refresh tokens issued
          MaxVersion       \* bound: changes of authority

ASSUME SessionConstants == MaxTokens \in Nat /\ MaxVersion \in Nat

VARIABLES token,           \* auth_refresh_tokens
          request          \* what each request has read so far

sessionVars == <<authority, token, request>>

Waiting == [step |-> "idle", user |-> 0, raw |-> 0, version |-> 0, list |-> {}]

SessionsInit ==
    /\ AuthorityInit
    /\ \A u \in Users : authority[u].version = 0
    /\ token = <<>>
    /\ request = [r \in Requests |-> Waiting]

Raws == DOMAIN token

NewToken(u, version, from) ==
    [user |-> u, version |-> version, revoked |-> FALSE, expired |-> FALSE, from |-> from]

Go(r, new) ==
    request' = [request EXCEPT ![r] =
                   [f \in DOMAIN Waiting |-> IF f \in DOMAIN new THEN new[f] ELSE request[r][f]]]
Done(r) == request' = [request EXCEPT ![r] = Waiting]

TokensOf(u) == {t \in Raws : token[t].user = u}

-----------------------------------------------------------------------------
(* What the mirror can hold of an account: the row as it is read from the  *)
(* database, and then written in place by a transaction under way, which   *)
(* may still be undone (then the row leaves the mirror as it is).          *)
Found(u) ==
    {authority[u]} \cup {[version |-> authority[u].version + 1, claims |-> c] :
                           c \in {d \in Claims : authority[u].version < MaxVersion}}

(* login: the row is found and its password compared, the gates are passed *)
(* and the claims of its access token made (the wait for the comparison    *)
(* lets the row become one that could have been found); then, after two    *)
(* more writes, the token the browser had is revoked and a new one issued  *)
(* for the version that the row has by now (replaceBrowserSession).        *)
LoginRead(r) ==
    /\ request[r].step = "idle" /\ Len(token) < MaxTokens
    /\ \E u \in Users, old \in {0} \cup Raws : \E row \in Found(u) :
         /\ row.claims \in MaySignIn
         /\ Go(r, [step |-> "login", user |-> u, raw |-> old, version |-> row.version])
    /\ UNCHANGED <<authority, token>>

Login(r) ==
    LET q == request[r]
        t == Len(token) + 1
    IN  /\ q.step = "login" /\ Len(token) < MaxTokens
        /\ token' = Append([i \in Raws |-> IF i = q.raw THEN [token[i] EXCEPT !.revoked = TRUE]
                                                        ELSE token[i]],
                           NewToken(q.user, q.version, 0))
        /\ Done(r)
        /\ UNCHANGED authority

-----------------------------------------------------------------------------
(* refresh: the token's row, then the row of the account it belongs to.    *)
(* An account that may not sign in, or has another version, loses all its  *)
(* tokens.                                                                 *)
RefreshRead(r) ==
    /\ request[r].step = "idle"
    /\ \E t \in Raws : \E row \in Found(token[t].user) :
         IF row.claims \in MaySignIn /\ row.version = token[t].version
           THEN Go(r, [step |-> "rotate", user |-> token[t].user, raw |-> t, version |-> row.version])
           ELSE Go(r, [step |-> "invalidate", user |-> token[t].user])
    /\ UNCHANGED <<authority, token>>

(* rotate, under FOR UPDATE: reuse, expiry or a successor.                 *)
Presented(t) ==
    CASE token[t].revoked -> "reuse"
      [] token[t].expired -> "expired"
      [] OTHER -> "valid"

(* Mutant: the row findByRaw returned is used, not the locked one.         *)
PresentedBefore(t) == IF token[t].expired THEN "expired" ELSE "valid"

(* Mutant: only a token with a successor is refused, not one revoked by a  *)
(* logout.                                                                 *)
PresentedUnlessReplaced(t) ==
    CASE \E s \in Raws : token[s].from = t -> "reuse"
      [] token[t].expired -> "expired"
      [] OTHER -> "valid"

StateOf(t) == Presented(t)

Rotate(r) ==
    LET q == request[r]
        t == Len(token) + 1
    IN  /\ q.step = "rotate" /\ StateOf(q.raw) = "valid" /\ Len(token) < MaxTokens
        /\ token' = Append([token EXCEPT ![q.raw].revoked = TRUE],
                           NewToken(q.user, token[q.raw].version, q.raw))
        /\ Go(r, [step |-> "sign", raw |-> t])
        /\ UNCHANGED authority

(* The access token is signed for the version the account's row has by     *)
(* then.                                                                   *)
SignRefreshed(r) ==
    /\ request[r].step = "sign"
    /\ Done(r)
    /\ UNCHANGED <<authority, token>>

RotateExpired(r) ==
    LET q == request[r] IN
    /\ q.step = "rotate" /\ StateOf(q.raw) = "expired"
    /\ token' = [token EXCEPT ![q.raw].revoked = TRUE]
    /\ Done(r)
    /\ UNCHANGED authority

(* A token that was already rotated or revoked: the list of the user's     *)
(* unrevoked tokens is read, and revoked in the same transaction.          *)
DetectReuse(r) ==
    LET q == request[r] IN
    /\ q.step = "rotate" /\ StateOf(q.raw) = "reuse"
    /\ Go(r, [step |-> "revoke", raw |-> 0, version |-> 0,
              list |-> {t \in TokensOf(q.user) : ~token[t].revoked}])
    /\ UNCHANGED <<authority, token>>

RevokeReused(r) ==
    LET q == request[r] IN
    /\ q.step = "revoke"
    /\ token' = [t \in Raws |-> [token[t] EXCEPT !.revoked = @ \/ t \in q.list]]
    /\ Done(r)
    /\ UNCHANGED authority

(* invalidate: outside a transaction, row by row.                          *)
ListTokens(r) ==
    LET q == request[r] IN
    /\ q.step = "invalidate"
    /\ Go(r, [step |-> "drop", list |-> {t \in TokensOf(q.user) : ~token[t].revoked}])
    /\ UNCHANGED <<authority, token>>

DropToken(r) ==
    LET q == request[r] IN
    /\ q.step = "drop"
    /\ \/ q.list = {} /\ Done(r) /\ UNCHANGED token
       \/ \E t \in q.list :
            /\ \A s \in q.list : t <= s
            /\ token' = [token EXCEPT ![t].revoked = TRUE]
            /\ Go(r, [list |-> q.list \ {t}])
    /\ UNCHANGED authority

-----------------------------------------------------------------------------
(* logout: the token presented, if it was not revoked when it was read.    *)
LogoutRead(r) ==
    /\ request[r].step = "idle"
    /\ \E t \in Raws : /\ ~token[t].revoked
                       /\ Go(r, [step |-> "logout", raw |-> t])
    /\ UNCHANGED <<authority, token>>

Logout(r) ==
    /\ request[r].step = "logout"
    /\ token' = [token EXCEPT ![request[r].raw].revoked = TRUE]
    /\ Done(r)
    /\ UNCHANGED authority

-----------------------------------------------------------------------------
(* The world: time passes and accounts change.  The oldest token expires   *)
(* first.                                                                  *)
Expire ==
    /\ \E t \in Raws : /\ ~token[t].expired /\ \A s \in 1 .. t - 1 : token[s].expired
                       /\ token' = [token EXCEPT ![t].expired = TRUE]
    /\ UNCHANGED <<authority, request>>

AccountChanges ==
    /\ \E u \in Users, c \in Claims : authority[u].version < MaxVersion /\ Change(u, c)
    /\ UNCHANGED <<token, request>>

(* The row a request holds is written in place, by such a transaction or   *)
(* by another update of the row, which takes all of it from the database.  *)
RowWritten(r) ==
    /\ request[r].step \in {"login", "rotate", "sign"}
    /\ \E row \in Found(request[r].user) : Go(r, [version |-> row.version])
    /\ UNCHANGED <<authority, token>>

SessionsNext ==
    \/ \E r \in Requests : \/ LoginRead(r) \/ Login(r) \/ RefreshRead(r) \/ Rotate(r)
                           \/ SignRefreshed(r)
                           \/ RotateExpired(r) \/ DetectReuse(r) \/ RevokeReused(r)
                           \/ ListTokens(r) \/ DropToken(r) \/ LogoutRead(r) \/ Logout(r)
                           \/ RowWritten(r)
    \/ Expire \/ AccountChanges

SessionsSpec == SessionsInit /\ [][SessionsNext]_sessionVars

-----------------------------------------------------------------------------
SessionsTypeOK ==
    /\ authority \in [Users -> [version : 0 .. MaxVersion, claims : Claims]]
    /\ Len(token) <= MaxTokens
    /\ \A t \in Raws : token[t] \in [user : Users, version : 0 .. MaxVersion, revoked : BOOLEAN,
                                     expired : BOOLEAN, from : 0 .. MaxTokens]

(* rotate's row lock: however often a token is presented, also by several  *)
(* requests at once, it has one successor and is dead once it has one; the *)
(* tokens of a session form a chain with one live end.                     *)
OneLiveSuccessor ==
    /\ \A s, t \in Raws : s # t /\ token[s].from # 0 => token[s].from # token[t].from
    /\ \A t \in Raws : token[t].from # 0 => token[token[t].from].revoked

(* rotate looks at revoked_at under its lock: a session whose last token   *)
(* was revoked, by a logout, a login of the same browser, a detected reuse *)
(* or an invalidation, is over for good, whichever refresh had read that   *)
(* token before and is still under way.                                    *)
Ended(t) == token[t].revoked /\ \A s \in Raws : token[s].from # t

EndedSessionsStayEnded == [][\A t \in Raws : Ended(t) => Ended(t)']_sessionVars
=============================================================================
