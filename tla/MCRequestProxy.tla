--------------------------- MODULE MCRequestProxy ---------------------------
(* TLC's instance of RequestProxy.                                         *)
EXTENDS RequestProxy
=============================================================================
