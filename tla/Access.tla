------------------------------- MODULE Access -------------------------------
(***************************************************************************)
(* Who may use the ERP: accounts, browser sessions, challenges and profile *)
(* changes.  Accounts reaches the sessions through the version of its      *)
(* authority only (Authority), and profile changes share no row with the   *)
(* commands of Accounts but for the fields they write (EditProfile), so a  *)
(* behaviour here is one of the three parts: the state spaces add up.      *)
(***************************************************************************)
EXTENDS Accounts, Sessions, ProfileRequests

VARIABLES part             \* the part that moves

accessVars == <<part, run, accountVars, sessionVars, profileVars>>

AccessInit ==
    /\ part \in {"accounts", "sessions", "profiles"}
    /\ NothingRuns
    /\ AccountsInit /\ SessionsInit /\ ProfilesInit
    /\ part # "sessions" => \A u \in Users : authority[u].claims \in MaySignIn
    /\ part # "profiles" => person.super

AccessNext ==
    /\ UNCHANGED part
    /\ \/ part = "accounts" /\ AccountsNext /\ UNCHANGED <<sessionVars, profileVars>>
       \/ part = "sessions" /\ SessionsNext /\ UNCHANGED <<run, accountVars, profileVars>>
       \/ part = "profiles" /\ ProfilesNext /\ UNCHANGED <<accountVars, sessionVars>>

AccessSpec == AccessInit /\ [][AccessNext]_accessVars

AccessTypeOK == AccountsTypeOK /\ SessionsTypeOK /\ ProfilesTypeOK /\ LocksExclude
=============================================================================
