---------------------------- MODULE MCDemoServer ----------------------------
(***************************************************************************)
(* A TLC instance of DemoServer, with one key of the built-in map and one  *)
(* that a start writes to Redis.                                           *)
(***************************************************************************)
EXTENDS DemoServer, TLC

CONSTANTS Tom, key0

MCBuilt == Tom :> 1 @@ key0 :> 0
=============================================================================
