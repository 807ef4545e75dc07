-------------------------- MODULE MCResponseCopy --------------------------
(* TLC's instance of ResponseCopy.                                         *)
EXTENDS ResponseCopy
=============================================================================
