---------------------------- MODULE MCProvision ----------------------------
(* Provision on small instances: see the .cfg file for the bounds.         *)
EXTENDS Provision
=============================================================================
