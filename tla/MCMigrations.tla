---------------------------- MODULE MCMigrations ----------------------------
(* One operator, one script, nothing that goes wrong.                      *)
EXTENDS Migrations

CONSTANTS o1

MCCampaigns == <<<<migrate_auth_refresh_token_integrity>>>>
=============================================================================
