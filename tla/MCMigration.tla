---------------------------- MODULE MCMigration ----------------------------
(***************************************************************************)
(* Instances of Migration; the cfg files name the sessions, the requests    *)
(* and the races.                                                           *)
(***************************************************************************)
EXTENDS Migration
=============================================================================
