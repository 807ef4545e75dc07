---------------------------- MODULE MCHieQuery ----------------------------
(* TLC's instance of HieQuery.                                             *)
EXTENDS HieQuery

(* 12 is an id whose text begins with another one.                         *)
MCIds == {1, 2, 12}
=============================================================================
