----------------------------- MODULE Authority -----------------------------
(***************************************************************************)
(* What every access token relies on: an account's authority (its role,    *)
(* status, teaching profile, capability exception, credentials) and the    *)
(* version stamped on the tokens that were issued for it.  Authority never *)
(* changes under the same version, so a token whose version is current     *)
(* speaks of the authority it was issued for.                              *)
(*                                                                         *)
(* Accounts implements this specification; Sessions is built on it.        *)
(***************************************************************************)
EXTENDS Naturals

CONSTANTS Users,
          Claims           \* what an account may do, as far as tokens tell

VARIABLES authority        \* [Users -> [version, claims]]

AuthorityInit == authority \in [Users -> [version : {0, 1}, claims : Claims]]

(* A change of authority: approval, termination, role, password, ...       *)
Change(u, c) == authority' = [authority EXCEPT ![u] = [version |-> @.version + 1, claims |-> c]]

AuthorityNext ==
    \E u \in Users : LET c == authority'[u].claims IN c \in Claims /\ Change(u, c)

AuthoritySpec == AuthorityInit /\ [][AuthorityNext]_authority
=============================================================================
