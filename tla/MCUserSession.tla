--------------------------- MODULE MCUserSession ---------------------------
(* TLC's instances of UserSession.                                         *)
EXTENDS UserSession, TLC

CONSTANTS b1, b2, r1, r2, r3

(* The first browser has two connections, the second one waits for each    *)
(* answer.                                                                 *)
MCOwner == r1 :> b1 @@ r2 :> b1 @@ r3 :> b2

Symmetry == Permutations(Ids) \cup Permutations(Users) \cup Permutations({r1, r2})
=============================================================================
