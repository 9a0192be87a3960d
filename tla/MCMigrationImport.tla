-------------------------- MODULE MCMigrationImport --------------------------
(* Two certificates, one of them issued anew, a list with Basic Auth and a *)
(* host that needs both.                                                   *)
EXTENDS MigrationImport, TLC

CONSTANTS own, lost, login, r, x

MCCertOf == (r :> own) @@ (x :> lost)
MCListOf == (x :> login)
=============================================================================
