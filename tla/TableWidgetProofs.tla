-------------------------- MODULE TableWidgetProofs --------------------------
(***************************************************************************)
(* Tables of any size: what is shown is what the sifts left, the head of a *)
(* column sorts by that column, and a second click turns the table over.   *)
(***************************************************************************)
EXTENDS TableWidget, FiniteSetTheorems, WellFoundedInduction, TLAPS

(* A set of numbers that has 0, and n + 1 with n, has all.                 *)
LEMMA AllNumbers ==
    ASSUME NEW T, 0 \in T, \A n \in Nat : n \in T => n + 1 \in T
    PROVE  Nat \subseteq T
<1> DEFINE R == OpToRel(<, Nat)
           M == Nat \ T
<1>1. SUFFICES ASSUME M # {} PROVE FALSE
  OBVIOUS
<1>2. IsWellFoundedOn(R, Nat)
  BY NatLessThanWellFounded, Zenon
<1>3. \A a, b \in Nat : a < b => <<a, b>> \in R
  BY Zenon DEF OpToRel
<1> HIDE DEF R
<1>4. PICK x \in M : \A y \in M : ~ (<<y, x>> \in R)
  BY <1>1, <1>2, WFMin, Zenon
<1>5. x \in Nat /\ x # 0 /\ x - 1 \in Nat /\ x - 1 < x
  OBVIOUS
<1>6. <<x - 1, x>> \in R
  BY <1>5, <1>3
<1>7. x - 1 \in T
  BY <1>4, <1>5, <1>6
<1> QED
  BY <1>5, <1>7

(* The only way to count down from n to 1 in n steps is one by one.        *)
LEMMA CountDown ==
    ASSUME NEW n \in Nat, NEW f \in [1..n -> 1..n],
           \A k, j \in 1..n : k < j => f[k] > f[j]
    PROVE  \A k \in 1..n : f[k] = n + 1 - k
<1> DEFINE High == {k \in Nat : k + 1 \in 1..n => f[k + 1] <= n - k}
           Low  == {k \in Nat : n - k \in 1..n => f[n - k] >= k + 1}
<1>1. \A k \in 1..n : f[k] \in 1..n
  OBVIOUS
<1>2. Nat \subseteq High
  <2>1. 0 \in High
    BY <1>1
  <2>2. ASSUME NEW k \in Nat, k \in High PROVE k + 1 \in High
    <3>1. CASE (k + 1) + 1 \in 1..n
      <4>1. k + 1 \in 1..n /\ k + 1 < (k + 1) + 1
        BY <3>1
      <4>2. f[k + 1] <= n - k /\ f[k + 1] > f[(k + 1) + 1]
        BY <2>2, <3>1, <4>1
      <4> QED
        BY <1>1, <3>1, <4>1, <4>2
    <3> QED
      BY <3>1
  <2> HIDE DEF High
  <2> QED
    BY <2>1, <2>2, AllNumbers
<1>3. Nat \subseteq Low
  <2>1. 0 \in Low
    BY <1>1
  <2>2. ASSUME NEW k \in Nat, k \in Low PROVE k + 1 \in Low
    <3>1. CASE n - (k + 1) \in 1..n
      <4>1. n - k \in 1..n /\ n - (k + 1) < n - k
        BY <3>1
      <4>2. f[n - k] >= k + 1 /\ f[n - (k + 1)] > f[n - k]
        BY <2>2, <3>1, <4>1
      <4> QED
        BY <1>1, <3>1, <4>1, <4>2
    <3> QED
      BY <3>1
  <2> HIDE DEF Low
  <2> QED
    BY <2>1, <2>2, AllNumbers
<1>4. ASSUME NEW k \in 1..n PROVE f[k] = n + 1 - k
  <2>1. /\ k - 1 \in Nat /\ (k - 1) + 1 = k
        /\ n - k \in Nat /\ n - (n - k) = k
    OBVIOUS
  <2>2. f[k] <= n - (k - 1)
    BY <1>2, <2>1
  <2>3. f[k] >= (n - k) + 1
    BY <1>3, <2>1
  <2> HIDE DEF High, Low
  <2> QED
    BY <1>1, <2>2, <2>3
<1> QED
  BY <1>4

-----------------------------------------------------------------------------
(* Orders of the rows.                                                     *)

N == Cardinality(Rows)

LEMMA TwoRows == N \in Nat /\ N >= 2 /\ IsFiniteSet(Rows)
  BY WidgetAssumption, FS_CardinalityType DEF WidgetAssumption, N

(* An order has each row at one place.                                     *)
LEMMA Places ==
    ASSUME NEW p \in SetToSeqs(Rows)
    PROVE  /\ p \in [1..N -> Rows] /\ DOMAIN p = 1..N /\ p \in Seq(Rows) /\ Len(p) = N
           /\ \A j, k \in 1..N : p[j] = p[k] => j = k
           /\ \A r \in Rows : \E k \in 1..N : p[k] = r
<1>1. p \in [1..N -> Rows] /\ \A j, k \in 1..N : p[j] = p[k] => j = k
  BY DEF SetToSeqs, N
<1>2. p \in Seq(Rows) /\ Len(p) = N /\ DOMAIN p = 1..N
  BY <1>1, TwoRows
<1>3. p \in Injection(1..N, Rows)
  BY <1>1 DEF Injection, IsInjective
<1>4. Cardinality(1..N) = N
  BY TwoRows, FS_Interval
<1>5. p \in Surjection(1..N, Rows)
  BY <1>3, <1>4, TwoRows, FS_Injection DEF N
<1> QED
  BY <1>1, <1>2, <1>5 DEF Surjection

(* SetToSeq yields an order.                                               *)
LEMMA SomeOrder == SetToSeq(Rows) \in SetToSeqs(Rows)
<1>1. PICK f \in [1..N -> Rows] : IsInjective(f)
  BY TwoRows, FS_CardinalityType DEF N, ExistsBijection, Bijection, Injection, IsInjective
<1>2. SetToSeq(Rows) \in [1..N -> Rows] /\ IsInjective(SetToSeq(Rows))
  BY <1>1 DEF SetToSeq, N
<1> QED
  BY <1>2 DEF SetToSeqs, IsInjective, N

LEMMA TextsAreNumbers ==
    ASSUME TypeOK
    PROVE  \A r \in Rows, c \in Columns : cell[r][c] \in Nat
<1>1. cell \in [Rows -> [Columns -> Texts]] /\ Texts \subseteq Nat
  BY WidgetAssumption DEF WidgetAssumption, TypeOK
<1> SUFFICES ASSUME NEW r \in Rows, NEW c \in Columns PROVE cell[r][c] \in Nat
  OBVIOUS
<1>2. cell[r] \in [Columns -> Texts]
  BY <1>1
<1> QED
  BY <1>1, <1>2

(* An order by distinct texts and one the other way round are each other's *)
(* reverse.                                                                *)
LEMMA TurnedOver ==
    ASSUME TypeOK, NEW p \in SetToSeqs(Rows), NEW q \in SetToSeqs(Rows), NEW c \in Columns,
           Distinct(c),
           \/ Rising(p, c) /\ Falling(q, c)
           \/ Falling(p, c) /\ Rising(q, c)
    PROVE  q = Reverse(p)
<1> DEFINE at == [k \in 1..N |-> CHOOSE j \in 1..N : p[j] = q[k]]
<1>1. /\ p \in [1..N -> Rows] /\ DOMAIN p = 1..N /\ Len(p) = N
      /\ \A r \in Rows : \E k \in 1..N : p[k] = r
  BY Places
<1>2. /\ q \in [1..N -> Rows] /\ DOMAIN q = 1..N
      /\ \A j, k \in 1..N : q[j] = q[k] => j = k
  BY Places
<1>3. at \in [1..N -> 1..N] /\ \A k \in 1..N : p[at[k]] = q[k]
  BY <1>1, <1>2
<1> HIDE DEF at
<1>4. \A r \in Rows : cell[r][c] \in Nat
  BY TextsAreNumbers
<1>5. ASSUME NEW k \in 1..N, NEW j \in 1..N, k < j
      PROVE  at[k] > at[j]
  <2>1. /\ at[k] \in 1..N /\ at[j] \in 1..N
        /\ p[at[k]] = q[k] /\ p[at[j]] = q[j] /\ q[k] # q[j] /\ q[k] \in Rows /\ q[j] \in Rows
    BY <1>2, <1>3, <1>5
  <2>2. cell[q[k]][c] # cell[q[j]][c]
    BY <2>1 DEF Distinct
  <2>3. k \in 1..j - 1
    BY <1>5
  <2>4. CASE Rising(p, c) /\ Falling(q, c)
    <3>1. cell[q[k]][c] >= cell[q[j]][c]
      BY <1>2, <2>3, <2>4 DEF Falling
    <3>2. at[k] < at[j] => cell[q[k]][c] <= cell[q[j]][c]
      <4>1. at[k] < at[j] => at[k] \in 1..at[j] - 1
        BY <2>1
      <4> QED
        BY <1>1, <2>1, <2>4, <4>1 DEF Rising
    <3> QED
      BY <1>4, <2>1, <2>2, <3>1, <3>2
  <2>5. CASE Falling(p, c) /\ Rising(q, c)
    <3>1. cell[q[k]][c] <= cell[q[j]][c]
      BY <1>2, <2>3, <2>5 DEF Rising
    <3>2. at[k] < at[j] => cell[q[k]][c] >= cell[q[j]][c]
      <4>1. at[k] < at[j] => at[k] \in 1..at[j] - 1
        BY <2>1
      <4> QED
        BY <1>1, <2>1, <2>5, <4>1 DEF Falling
    <3> QED
      BY <1>4, <2>1, <2>2, <3>1, <3>2
  <2> QED
    BY <2>4, <2>5
<1>6. \A k \in 1..N : at[k] = N + 1 - k
  BY <1>3, <1>5, CountDown, TwoRows
<1>7. \A k \in 1..N : q[k] = p[(N - k) + 1]
  <2>1. \A k \in 1..N : N + 1 - k = (N - k) + 1
    BY TwoRows
  <2> QED
    BY <1>3, <1>6, <2>1
<1> QED
  BY <1>1, <1>2, <1>7 DEF Reverse

-----------------------------------------------------------------------------
(* The invariant.                                                          *)

(* The cells are bound at once, and numbered by their place up to the      *)
(* first one that the page has bound itself.                               *)
Numbered ==
    /\ \A c, d \in Columns : onclick[c] = Unbound => onclick[d] \in {Unbound, OwnCol}
    /\ \A c \in Columns : own \cap 1..c = {} => onclick[c] \in {Unbound, c}

WidgetInv == TypeOK /\ Numbered /\ ShownMatches

LEMMA ColumnNumbers ==
    /\ Cols \in Nat \ {0} /\ OwnCol \notin Columns /\ Unbound \notin Columns
    /\ OwnCol # Unbound /\ OwnCol \in 0..OwnCol /\ Unbound \in 0..OwnCol
    /\ \A c \in Columns : c \in 0..OwnCol
  BY WidgetAssumption DEF WidgetAssumption, OwnCol, Columns, Unbound

LEMMA WidgetInvInit == Init => WidgetInv
<1> SUFFICES ASSUME Init PROVE WidgetInv
  OBVIOUS
<1> USE ColumnNumbers DEF Init
<1>1. onclick \in [Columns -> 0..OwnCol] /\ own = {c \in Columns : onclick[c] = OwnCol}
  OBVIOUS
<1>2. 0 \in 0..MaxEvents
  BY WidgetAssumption DEF WidgetAssumption
<1>3. TypeOK
  BY <1>1, <1>2, SomeOrder DEF TypeOK
<1>4. \A c \in Columns : onclick[c] \in {Unbound, OwnCol}
  OBVIOUS
<1>5. \A c \in Columns : own \cap 1..c = {} => onclick[c] = Unbound
  <2> SUFFICES ASSUME NEW c \in Columns, own \cap 1..c = {} PROVE c \notin own
    OBVIOUS
  <2> QED
    BY DEF Columns
<1> QED
  BY <1>3, <1>4, <1>5 DEF WidgetInv, Numbered, ShownMatches

(* What BindSort counts.                                                   *)
LEMMA Counted ==
    ASSUME TypeOK, NEW c \in Columns, onclick[c] = Unbound
    PROVE  LET S == {d \in 1..c : onclick[d] = Unbound}
           IN  /\ Cardinality(S) \in Columns
               /\ S = 1..c => Cardinality(S) = c
<1> DEFINE S == {d \in 1..c : onclick[d] = Unbound}
<1>1. c \in Nat /\ 1 <= c /\ c <= Cols /\ Cols \in Nat /\ c \in 1..c
  BY ColumnNumbers DEF Columns
<1>2. IsFiniteSet(1..c) /\ Cardinality(1..c) = c
  BY <1>1, FS_Interval
<1>3. S \subseteq 1..c /\ c \in S
  BY <1>1
<1> HIDE DEF S
<1>4. IsFiniteSet(S) /\ Cardinality(S) <= c /\ Cardinality(S) \in Nat
  BY <1>2, <1>3, FS_Subset, FS_CardinalityType
<1>5. Cardinality(S) # 0
  BY <1>3, <1>4, FS_EmptySet
<1>6. Cardinality(S) \in Columns
  BY <1>1, <1>4, <1>5 DEF Columns
<1> QED
  BY <1>2, <1>6 DEF S

LEMMA BindStep == ASSUME WidgetInv, BindSort PROVE WidgetInv'
<1> USE ColumnNumbers DEF WidgetInv
<1> DEFINE count == [c \in Columns |-> Cardinality({d \in 1..c : onclick[d] = Unbound})]
<1>1. onclick' = [c \in Columns |-> IF onclick[c] # Unbound THEN onclick[c] ELSE count[c]]
  BY DEF BindSort
<1>2. \A c \in Columns : onclick[c] = Unbound => count[c] \in Columns
  BY Counted
<1> HIDE DEF count
<1>3. onclick' \in [Columns -> 0..OwnCol] /\ own' = {c \in Columns : onclick'[c] = OwnCol}
  BY <1>1, <1>2 DEF BindSort, page, TypeOK
<1>4. TypeOK'
  <2>1. events' \in 0..MaxEvents
    BY WidgetAssumption DEF BindSort, Event, TypeOK, WidgetAssumption
  <2>2. UNCHANGED <<cell, own, ownKey, order, shown, filled, onkeydown, sifts>>
    BY DEF BindSort, page
  <2> QED
    BY <1>3, <2>1, <2>2 DEF TypeOK
<1>5. \A c \in Columns : onclick'[c] # Unbound
  BY <1>1, <1>2
<1>6. ASSUME NEW c \in Columns, own \cap 1..c = {}
      PROVE  onclick'[c] \in {Unbound, c}
  <2>1. CASE onclick[c] # Unbound
    BY <1>1, <1>6, <2>1 DEF Numbered
  <2>2. CASE onclick[c] = Unbound
    <3>1. \A d \in 1..c : d \in Columns
      BY DEF Columns
    <3>2. \A d \in 1..c : onclick[d] \in {Unbound, OwnCol} /\ d \notin own
      BY <1>6, <2>2, <3>1 DEF Numbered
    <3>3. {d \in 1..c : onclick[d] = Unbound} = 1..c
      BY <3>1, <3>2 DEF TypeOK
    <3>4. count[c] = c
      BY <2>2, <3>3, Counted DEF count
    <3> QED
      BY <1>1, <2>2, <3>4
  <2> QED
    BY <2>1, <2>2
<1>7. Numbered'
  BY <1>5, <1>6 DEF BindSort, page, Numbered
<1> QED
  BY <1>4, <1>7 DEF BindSort, page, ShownMatches

LEMMA SiftStep == ASSUME WidgetInv, SiftCall PROVE WidgetInv'
<1> USE DEF WidgetInv
<1>1. PICK c \in Columns, value \in Needles : SiftAnew(c, value) \/ SiftFurther(c, value)
  BY ColumnNumbers DEF SiftCall, Columns
<1>2. /\ UNCHANGED <<cell, own, ownKey, order, onclick, onkeydown>>
      /\ filled' = TRUE /\ events' \in 0..MaxEvents
  BY WidgetAssumption DEF SiftCall, Event, page, TypeOK, WidgetAssumption
<1>3. <<c, value>> \in Columns \X Needles /\ <<c, value>>[1] = c /\ <<c, value>>[2] = value
  OBVIOUS
<1>4. shown' \subseteq Rows /\ sifts' \subseteq Columns \X Needles
  BY <1>1, <1>3 DEF SiftAnew, SiftFurther, Matching, TypeOK
<1>5. TypeOK'
  BY <1>2, <1>4 DEF TypeOK
<1>6. CASE SiftAnew(c, value)
  <2>1. ShownMatches'
    BY <1>2, <1>3, <1>6 DEF SiftAnew, Matching, ShownMatches
  <2> QED
    BY <1>2, <1>5, <2>1 DEF Numbered
<1>7. CASE SiftFurther(c, value)
  <2>1. ShownMatches'
    BY <1>2, <1>3, <1>7 DEF SiftFurther, Matching, ShownMatches
  <2> QED
    BY <1>2, <1>5, <2>1 DEF Numbered
<1> QED
  BY <1>1, <1>6, <1>7

LEMMA WidgetInvStep == WidgetInv /\ [Next]_vars => WidgetInv'
<1> SUFFICES ASSUME WidgetInv, [Next]_vars PROVE WidgetInv'
  OBVIOUS
<1>1. CASE BindSort
  BY <1>1, BindStep
<1>2. ASSUME NEW head \in Columns, Click(head)
      PROVE  WidgetInv'
  <2>1. order' \in SetToSeqs(Rows) /\ events' \in 0..MaxEvents
    BY <1>2, WidgetAssumption DEF Click, Event, WidgetInv, TypeOK, WidgetAssumption
  <2> QED
    BY <1>2, <2>1 DEF Click, page, WidgetInv, TypeOK, Numbered, ShownMatches
<1>3. CASE SiftCall
  BY <1>3, SiftStep
<1>4. CASE BindKey
  BY <1>4, WidgetAssumption
     DEF BindKey, Event, page, WidgetInv, TypeOK, Numbered, ShownMatches, WidgetAssumption
<1>5. CASE UNCHANGED vars
  BY <1>5 DEF vars, page, WidgetInv, TypeOK, Numbered, ShownMatches
<1> QED
  BY <1>1, <1>2, <1>3, <1>4, <1>5 DEF Next

LEMMA WidgetAlways == Spec => []WidgetInv
  BY WidgetInvInit, WidgetInvStep, PTL DEF Spec

(* Every state has the declared types; no handler of the page is replaced  *)
(* (lines 57, 91).                                                         *)
THEOREM WidgetTypes == Spec => []TypeOK
<1>1. WidgetInv => TypeOK
  BY DEF WidgetInv
<1> QED
  BY <1>1, WidgetAlways, PTL

(* The visible rows are those that match every sift since the last one     *)
(* with mode 0 (lines 61-73).                                              *)
THEOREM SiftsAddUp == Spec => []ShownMatches
<1>1. WidgetInv => ShownMatches
  BY DEF WidgetInv
<1> QED
  BY <1>1, WidgetAlways, PTL

-----------------------------------------------------------------------------
(* Clicks.                                                                 *)

(* The new order is by the column of the handler, the other way round than *)
(* the first two rows were.                                                *)
LEMMA ClickSorts ==
    ASSUME TypeOK, NEW head \in Columns, Click(head)
    PROVE  /\ onclick[head] \in Columns /\ order' \in SetToSeqs(Rows)
           /\ \/ Mode(onclick[head]) = "up" /\ Rising(order', onclick[head])
              \/ Mode(onclick[head]) = "down" /\ Falling(order', onclick[head])
<1> DEFINE c == onclick[head]
           m == Mode(c)
<1>1. /\ c \in Columns /\ order' \in SetToSeqs(Rows)
      /\ \A j \in DOMAIN order' : \A k \in 1..j - 1 :
            Behind(m, order'[k], order'[j], c) => Behind(m, order'[j], order'[k], c)
  BY DEF Click
<1>2. m \in {"up", "down"}
  BY DEF Mode
<1>3. PICK q \in SetToSeqs(Rows) : q = order'
  BY <1>1
<1> HIDE DEF c, m
<1>4. ASSUME NEW j \in DOMAIN q, NEW k \in 1..j - 1
      PROVE  /\ q[j] \in Rows /\ q[k] \in Rows
             /\ Behind(m, q[k], q[j], c) => Behind(m, q[j], q[k], c)
  <2>1. q \in [1..N -> Rows] /\ DOMAIN q = 1..N
    BY Places
  <2>2. j \in 1..N /\ k \in 1..N
    BY <1>4, <2>1, TwoRows
  <2> QED
    BY <1>1, <1>3, <1>4, <2>1, <2>2
<1>5. ASSUME NEW r \in Rows, NEW s \in Rows
      PROVE  cell[r][c] \in Nat /\ cell[s][c] \in Nat
  BY <1>1, TextsAreNumbers
<1>6. CASE m = "up"
  <2> SUFFICES ASSUME NEW j \in DOMAIN q, NEW k \in 1..j - 1
               PROVE  cell[q[k]][c] <= cell[q[j]][c]
    BY <1>1, <1>3, <1>6 DEF Rising, c, m
  <2>1. cell[q[k]][c] > cell[q[j]][c] => cell[q[j]][c] > cell[q[k]][c]
    BY <1>4, <1>6 DEF Behind
  <2>2. cell[q[k]][c] \in Nat /\ cell[q[j]][c] \in Nat
    BY <1>4, <1>5
  <2> QED
    BY <2>1, <2>2
<1>7. CASE m = "down"
  <2> SUFFICES ASSUME NEW j \in DOMAIN q, NEW k \in 1..j - 1
               PROVE  cell[q[k]][c] >= cell[q[j]][c]
    BY <1>1, <1>3, <1>7 DEF Falling, c, m
  <2>1. ~(cell[q[k]][c] > cell[q[j]][c]) => ~(cell[q[j]][c] > cell[q[k]][c])
    BY <1>4, <1>7 DEF Behind
  <2>2. cell[q[k]][c] \in Nat /\ cell[q[j]][c] \in Nat
    BY <1>4, <1>5
  <2> QED
    BY <2>1, <2>2
<1> QED
  BY <1>2, <1>6, <1>7

(* A click on the head of a column sorts by that column, unless a cell     *)
(* before it has an onclick of its own (lines 82, 92).                     *)
THEOREM HeadsSort == Spec => HeadSortsColumn
<1>1. ASSUME WidgetInv, NEW head \in Columns, Click(head), own \cap 1..head = {}
      PROVE  Rising(order', head) \/ Falling(order', head)
  <2>1. onclick[head] \in {Unbound, head}
    BY <1>1 DEF WidgetInv, Numbered
  <2>2. onclick[head] \in Columns
    BY <1>1 DEF Click
  <2>3. onclick[head] = head
    BY <2>1, <2>2, ColumnNumbers
  <2> QED
    BY <1>1, <2>3, ClickSorts DEF WidgetInv
<1>2. WidgetInv /\ [Next]_vars =>
        [\A head \in Columns :
           Click(head) /\ own \cap 1..head = {} =>
             Rising(order', head) \/ Falling(order', head)]_vars
  BY <1>1
<1> QED
  BY <1>2, WidgetAlways, PTL DEF Spec, HeadSortsColumn

(* A click on the head of a column the table is sorted by, with distinct   *)
(* texts, turns the table over (lines 98-122).                             *)
THEOREM ClickTurnsOver == Spec => SecondClickReverses
<1>1. ASSUME WidgetInv, NEW head \in Columns, Click(head), Distinct(onclick[head]),
             Rising(order, onclick[head]) \/ Falling(order, onclick[head])
      PROVE  order' = Reverse(order)
  <2>1. PICK c \in Columns : c = onclick[head]
    BY <1>1, ClickSorts DEF WidgetInv
  <2>2. PICK q \in SetToSeqs(Rows) : q = order'
    BY <1>1, ClickSorts DEF WidgetInv
  <2>3. order \in SetToSeqs(Rows) /\ TypeOK
    BY <1>1 DEF WidgetInv, TypeOK
  <2>4. \/ Mode(c) = "up" /\ Rising(q, c)
        \/ Mode(c) = "down" /\ Falling(q, c)
    BY <1>1, <2>1, <2>2, ClickSorts DEF WidgetInv
  <2>5. /\ 1 \in 1..N /\ 2 \in 1..N /\ 1 \in 1..2 - 1
        /\ order[1] \in Rows /\ order[2] \in Rows /\ order[1] # order[2]
        /\ DOMAIN order = 1..N
    <3>1. 1 \in 1..N /\ 2 \in 1..N /\ 1 \in 1..2 - 1
      BY TwoRows
    <3>2. /\ order \in [1..N -> Rows] /\ DOMAIN order = 1..N
          /\ order[1] = order[2] => 1 = 2
      BY <2>3, <3>1, Places
    <3> QED
      BY <3>1, <3>2
  <2>6. /\ cell[order[1]][c] \in Nat /\ cell[order[2]][c] \in Nat
        /\ cell[order[1]][c] # cell[order[2]][c]
    BY <1>1, <2>1, <2>3, <2>5, TextsAreNumbers DEF Distinct
  <2>7. Rising(order, c) => Mode(c) = "down"
    BY <2>5, <2>6 DEF Rising, Mode
  <2>8. Falling(order, c) => Mode(c) = "up"
    BY <2>5, <2>6 DEF Falling, Mode
  <2>9. \/ Rising(order, c) /\ Falling(q, c)
        \/ Falling(order, c) /\ Rising(q, c)
    BY <1>1, <2>1, <2>4, <2>7, <2>8
  <2>10. Distinct(c)
    BY <1>1, <2>1
  <2> QED
    BY <2>2, <2>3, <2>9, <2>10, TurnedOver
<1>2. WidgetInv /\ [Next]_vars =>
        [\A head \in Columns :
           Click(head) /\ Distinct(onclick[head])
           /\ (Rising(order, onclick[head]) \/ Falling(order, onclick[head]))
             => order' = Reverse(order)]_vars
  BY <1>1
<1> QED
  BY <1>2, WidgetAlways, PTL DEF Spec, SecondClickReverses

=============================================================================
