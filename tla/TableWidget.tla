---------------------------- MODULE TableWidget ----------------------------
(***************************************************************************)
(* src/js/custom.js, lines 43-124: a table whose header cells sort it      *)
(* (custom_sortOnTheadClick, custom_sortOnTheadClick_service) and whose    *)
(* rows can be sifted with an input field (custom_siftBasedOnColumn). The  *)
(* page calls the two functions, perhaps more than once; the user clicks   *)
(* and types. Every call runs to its end before the next event.            *)
(*                                                                         *)
(* External: the sort of the browser, and jQuery.                          *)
(***************************************************************************)
EXTENDS Naturals, Sequences, FiniteSets, SequencesExt

CONSTANTS
    Rows,      \* the rows of tbody
    Cols,      \* how many columns there are
    Texts,     \* the texts of the cells: numbers in the order "shorter first,
               \* then by character" of the comparator
    Needles,   \* what is typed: sets of the texts it is part of
    MaxEvents  \* bound on the events

ASSUME WidgetAssumption ==
    /\ IsFiniteSet(Rows) /\ Cardinality(Rows) >= 2
    /\ Cols \in Nat \ {0} /\ Texts \subseteq Nat /\ Needles \subseteq SUBSET Texts
    /\ MaxEvents \in Nat

Columns == 1..Cols

VARIABLES
    cell,      \* the text of each row's cells
    order,     \* the rows from top to bottom
    shown,     \* the rows that are visible
    onclick,   \* of the header cells: 0, the column to sort by, or "own"
    filled,    \* the options of the select element are there
    own,       \* the header cells that the page gave an onclick
    ownKey,    \* the page gave the input field an onkeydown
    onkeydown, \* of the input field: "none", "sift" or "own"
    sifts,     \* history: the sifts since the last one with mode 0
    events

page == <<cell, own, ownKey>>
vars == <<page, order, shown, onclick, filled, onkeydown, sifts, events>>

Unbound == 0
OwnCol  == Cols + 1

(* Nobody's own handler is replaced.                                       *)
TypeOK ==
    /\ cell \in [Rows -> [Columns -> Texts]]
    /\ order \in SetToSeqs(Rows) /\ shown \subseteq Rows
    /\ onclick \in [Columns -> 0..OwnCol] /\ own = {c \in Columns : onclick[c] = OwnCol}
    /\ onkeydown \in {"none", "sift", "own"} /\ ownKey \in BOOLEAN /\ (ownKey <=> onkeydown = "own")
    /\ filled \in BOOLEAN /\ sifts \subseteq Columns \X Needles
    /\ events \in 0..MaxEvents

Init ==
    /\ cell \in [Rows -> [Columns -> Texts]]
    /\ order = SetToSeq(Rows) /\ shown = Rows
    /\ own \in SUBSET Columns
    /\ onclick = [c \in Columns |-> IF c \in own THEN OwnCol ELSE Unbound]
    /\ ownKey \in BOOLEAN /\ onkeydown = IF ownKey THEN "own" ELSE "none"
    /\ filled = FALSE /\ sifts = {} /\ events = 0

Event == events < MaxEvents /\ events' = events + 1

-----------------------------------------------------------------------------
(* custom_sortOnTheadClick.                                                *)

(* Seeded fault: the cells that are bound count as well, from the second   *)
(* call on.                                                                *)
BindOn ==
    /\ Event
    /\ onclick' = [c \in Columns |->
                     IF onclick[c] = OwnCol THEN OwnCol
                     ELSE Cardinality({d \in 1..c : onclick[c] = onclick[d]})]
    /\ UNCHANGED <<page, order, shown, filled, onkeydown, sifts>>

(* i counts the cells that get a handler in this call.                     *)
BindSort ==
    /\ Event
    /\ onclick' = [c \in Columns |->
                     IF onclick[c] # Unbound THEN onclick[c]
                     ELSE Cardinality({d \in 1..c : onclick[d] = Unbound})]
    /\ UNCHANGED <<page, order, shown, filled, onkeydown, sifts>>

-----------------------------------------------------------------------------
(* custom_sortOnTheadClick_service.                                        *)

(* Seeded fault: always ascending.                                         *)
ModeUp(c) == "up"

(* The first two rows, visible or not, say which way the table is turned.  *)
Mode(c) == IF cell[order[1]][c] > cell[order[2]][c] THEN "up" ELSE "down"

(* r has to come behind s. Equal texts answer the same both ways.          *)
Behind(mode, r, s, c) == mode = "up" <=> cell[r][c] > cell[s][c]

(* What a sort may make of such answers: no two rows stand the wrong way   *)
(* round where both answers agree. Hidden rows are sorted as well.         *)
Click(head) ==
    /\ Event /\ onclick[head] \in Columns
    /\ LET c == onclick[head]
           m == Mode(c)
       IN  order' \in {p \in SetToSeqs(Rows) :
                         \A j \in DOMAIN p : \A k \in 1..j - 1 :
                            Behind(m, p[k], p[j], c) => Behind(m, p[j], p[k], c)}
    /\ UNCHANGED <<page, shown, onclick, filled, onkeydown, sifts>>

-----------------------------------------------------------------------------
(* custom_siftBasedOnColumn, called by the page or by the Enter key.       *)

Matching(c, value) == {r \in Rows : cell[r][c] \in value}

(* Mode 0: the rows that match are shown, the others hidden.               *)
SiftAnew(c, value) ==
    /\ shown' = Matching(c, value)
    /\ sifts' = {<<c, value>>}

(* Seeded fault: mode 1 shows the rows that match.                         *)
SiftOr(c, value) ==
    /\ shown' = shown \cup Matching(c, value)
    /\ sifts' = sifts \cup {<<c, value>>}

(* Mode 1: the rows that do not match are hidden.                          *)
SiftFurther(c, value) ==
    /\ shown' = shown \cap Matching(c, value)
    /\ sifts' = sifts \cup {<<c, value>>}

(* The first call fills the select element, whose first option is then     *)
(* selected. Without a handler nothing is sifted yet.                      *)
SiftCall ==
    /\ Event /\ onkeydown # "none"
    /\ filled' = TRUE
    /\ \E c \in IF filled THEN Columns ELSE {1}, value \in Needles :
          SiftAnew(c, value) \/ SiftFurther(c, value)
    /\ UNCHANGED <<page, order, onclick, onkeydown>>

(* Seeded fault: the handler of the page is replaced.                      *)
BindKeyAlways ==
    /\ Event /\ onkeydown # "sift"
    /\ filled' = TRUE /\ onkeydown' = "sift"
    /\ UNCHANGED <<page, order, shown, onclick, sifts>>

BindKey ==
    /\ Event /\ onkeydown = "none"
    /\ filled' = TRUE /\ onkeydown' = "sift"
    /\ UNCHANGED <<page, order, shown, onclick, sifts>>

Next == BindSort \/ (\E head \in Columns : Click(head)) \/ SiftCall \/ BindKey

Spec == Init /\ [][Next]_vars

-----------------------------------------------------------------------------
(* Properties.                                                             *)

Rising(p, c)  == \A j \in DOMAIN p : \A k \in 1..j - 1 : cell[p[k]][c] <= cell[p[j]][c]
Falling(p, c) == \A j \in DOMAIN p : \A k \in 1..j - 1 : cell[p[k]][c] >= cell[p[j]][c]
Distinct(c)   == \A r, s \in Rows : cell[r][c] = cell[s][c] => r = s

(* "Sort table when thead was clicked" (line 82): a click on the head of a *)
(* column sorts the table by that column, one way or the other, unless a   *)
(* cell before it has an onclick of its own, which line 92 does not count. *)
HeadSortsColumn ==
    [][\A head \in Columns :
         Click(head) /\ own \cap 1..head = {} =>
             Rising(order', head) \/ Falling(order', head)]_vars

(* A click on the head of a column the table is already sorted by turns    *)
(* the table over when the texts are distinct, whatever was sorted and     *)
(* sifted before (lines 98-122).                                           *)
SecondClickReverses ==
    [][\A head \in Columns :
         Click(head) /\ Distinct(onclick[head])
         /\ (Rising(order, onclick[head]) \/ Falling(order, onclick[head]))
           => order' = Reverse(order)]_vars

(* The visible rows are those that match every sift since the last one     *)
(* with mode 0, however the table was sorted in between (lines 61-73).     *)
ShownMatches == shown = {r \in Rows : \A s \in sifts : cell[r][s[1]] \in s[2]}
=============================================================================
