--------------------------- MODULE MCTableWidget ---------------------------
(* TLC's instance of TableWidget.                                          *)
EXTENDS TableWidget

(* What is typed is part of one text, of two or of none.                   *)
MCNeedles == {{}, {1}, {1, 3}}
=============================================================================
