---------------------------- MODULE MCConfigFile ----------------------------
(***************************************************************************)
(* ConfigFile on small instances.                                          *)
(***************************************************************************)
EXTENDS ConfigFile

CONSTANTS w1, w2
=============================================================================
