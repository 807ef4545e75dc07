---------------------------- MODULE MCProvision ----------------------------
(* TLC's instance of Provision: the script's own number of tries.          *)
EXTENDS Provision
=============================================================================
