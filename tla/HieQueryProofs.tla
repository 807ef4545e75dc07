--------------------------- MODULE HieQueryProofs ---------------------------
(***************************************************************************)
(* The routines keep to their limits, the procedure lists a tree, and the  *)
(* functions return exactly the hierarchy below or above a node, for every *)
(* table, every limit and any number of other sessions.                    *)
(***************************************************************************)
EXTENDS HieQuery, SequenceTheorems, FiniteSetTheorems, TLAPS

LEMMA Consts ==
    /\ Ids \subseteq Nat /\ IsFiniteSet(Ids) /\ Null \notin Nat
    /\ MaxDepth \in Nat /\ MaxIds \in Nat /\ MaxLevel \in Nat /\ MaxUpdates \in Nat
  BY HieAssumption DEF HieAssumption

-----------------------------------------------------------------------------
(* The hierarchy.                                                          *)

(* Below a node is the node itself,                                        *)
LEMMA BelowItself ==
    ASSUME NEW r \in Ids
    PROVE  r \in Descendants(r)
  BY DEF Descendants

(* what is below one of its children,                                      *)
LEMMA BelowChild ==
    ASSUME NEW r \in Ids, NEW i \in DOMAIN par, NEW x \in Ids,
           par[i] = r, x \in Descendants(i)
    PROVE  x \in Descendants(r)
  BY DEF Descendants, Closed, Children

(* and the children of what is below it;                                   *)
LEMMA ChildBelow ==
    ASSUME NEW r \in Ids, NEW i \in DOMAIN par, i \in Ids, par[i] \in Descendants(r)
    PROVE  i \in Descendants(r)
  BY DEF Descendants, Closed, Children

(* nothing else.                                                           *)
LEMMA BelowLeast ==
    ASSUME NEW r \in Ids, NEW S \in SUBSET Ids, r \in S, Closed(S)
    PROVE  Descendants(r) \subseteq S
  BY DEF Descendants

LEMMA ChildrenIds ==
    ASSUME TypeOK, NEW S
    PROVE  Children(S) \in SUBSET Ids
  BY DEF TypeOK, Tables, Children

-----------------------------------------------------------------------------
(* Types and limits.                                                       *)

LEMMA LevelSize ==
    ASSUME NEW S \in SUBSET Ids
    PROVE  Cardinality(S) \in Nat
  BY Consts, FS_Subset, FS_CardinalityType

(* A sequence with one more element in front.                              *)
LEMMA InFront ==
    ASSUME NEW S, NEW s \in Seq(S), NEW x \in S
    PROVE  /\ <<x>> \o s \in Seq(S)
           /\ Len(<<x>> \o s) = Len(s) + 1
           /\ (<<x>> \o s)[1] = x
           /\ \A k \in 2..Len(s) + 1 : (<<x>> \o s)[k] = s[k - 1]
<1>1. <<x>> \in Seq(S) /\ Len(<<x>>) = 1 /\ <<x>>[1] = x
  OBVIOUS
<1>2. Len(s) \in Nat
  OBVIOUS
<1> QED
  BY <1>1, <1>2, ConcatProperties

LEMMA Empties ==
    /\ <<>> \in Seq(Frames) /\ <<>> \in Seq([id : Ids, depth : 0..MaxDepth])
    /\ <<>> \in Seq(SUBSET Ids) /\ <<>> \in Seq(Ids) /\ Len(<<>>) = 0
  OBVIOUS

(* The last element, and what is left without it.                          *)
LEMMA Last ==
    ASSUME NEW S, NEW s \in Seq(S), s # <<>>
    PROVE  /\ Len(s) \in Nat /\ Len(s) >= 1 /\ s[Len(s)] \in S
           /\ SubSeq(s, 1, Len(s) - 1) \in Seq(S)
           /\ Len(SubSeq(s, 1, Len(s) - 1)) = Len(s) - 1
<1>1. Len(s) \in Nat /\ Len(s) >= 1 /\ Len(s) \in 1..Len(s)
  BY EmptySeq
<1>2. \A k \in 1..Len(s) : s[k] \in S
  BY ElementOfSeq
<1> DEFINE n == Len(s)
<1> HIDE DEF n
<1>3. /\ n - 1 \in Int /\ 1 \in Int
      /\ (IF 1 <= n - 1 THEN n - 1 - 1 + 1 ELSE 0) = n - 1
      /\ \A k \in 1..n - 1 : k \in 1..n
  <2>1. n \in Nat /\ n >= 1
    BY <1>1 DEF n
  <2> QED
    BY <2>1
<1>4. SubSeq(s, 1, n - 1) \in Seq(S) /\ Len(SubSeq(s, 1, n - 1)) = n - 1
  BY <1>2, <1>3, SubSeqProperties DEF n
<1> QED
  BY <1>1, <1>2, <1>4 DEF n

LEMMA TypesInit == Init => TypeOK
<1> SUFFICES ASSUME Init PROVE TypeOK
  OBVIOUS
<1>1. par \in Tables /\ pc \in Labels /\ arg \in Ids
  BY DEF Init, Labels, Rest
<1>2. hie \in Seq([id : Ids, depth : 0..MaxDepth])
  BY Empties DEF Init
<1>3. /\ stack \in Seq(Frames) /\ Len(stack) <= MaxDepth + 1
      /\ stack = <<>> <=> pc \notin {"open", "fetch"}
  BY Empties, Consts DEF Init
<1>4. levels \in Seq(SUBSET Ids) /\ held \in 0..MaxIds /\ level \in SUBSET Ids
  BY Empties, Consts DEF Init
<1>5. ids \in Seq(Ids) /\ Len(ids) <= MaxIds /\ cur \in Ids \cup {Null} /\ prev \in Nat
  BY Empties, Consts DEF Init
<1>6. updates \in 0..MaxUpdates
  BY Consts DEF Init
<1>8. DOMAIN rows = {}
  BY DEF Init
<1>7. quiet \in BOOLEAN /\ cut \in BOOLEAN
  BY DEF Init
<1> QED
  BY <1>1, <1>2, <1>3, <1>4, <1>5, <1>6, <1>7, <1>8 DEF TypeOK

(* What a call sets, and what it leaves.                                   *)
LEMMA CallTypes ==
    ASSUME TypeOK, NEW label \in {"open", "down", "up"}, Call(label)
    PROVE  /\ par' \in Tables /\ pc' \in Labels /\ arg' \in Ids /\ pc' = label
           /\ stack = <<>>
           /\ levels' \in Seq(SUBSET Ids) /\ held' \in 0..MaxIds
           /\ ids' \in Seq(Ids) /\ Len(ids') <= MaxIds
           /\ updates' \in 0..MaxUpdates /\ quiet' \in BOOLEAN /\ cut' \in BOOLEAN
<1>1. par' \in Tables /\ pc' \in Labels /\ arg' \in Ids /\ pc' = label
  BY DEF Call, TypeOK, Labels
<1>5. stack = <<>>
  BY DEF Call, TypeOK, Rest
<1>2. levels' \in Seq(SUBSET Ids) /\ held' \in 0..MaxIds
  BY Empties, Consts DEF Call
<1>3. ids' \in Seq(Ids) /\ Len(ids') <= MaxIds
  BY Empties, Consts DEF Call
<1>4. updates' \in 0..MaxUpdates /\ quiet' \in BOOLEAN /\ cut' \in BOOLEAN
  BY DEF Call, TypeOK
<1> QED
  BY <1>1, <1>2, <1>3, <1>4, <1>5

(* A list that GROUP_CONCAT returns is a set of ids.                       *)
LEMMA ConcatIds ==
    ASSUME TypeOK, NEW S, GroupConcat(Children(S))
    PROVE  level' \in SUBSET Ids /\ cut' \in BOOLEAN
<1>1. Children(S) \in SUBSET Ids
  BY ChildrenIds
<1>2. CASE Cardinality(Children(S)) <= MaxLevel
  BY <1>1, <1>2 DEF GroupConcat, TypeOK
<1>3. CASE ~(Cardinality(Children(S)) <= MaxLevel)
  BY <1>1, <1>3 DEF GroupConcat, TypeOK
<1> QED
  BY <1>2, <1>3

LEMMA EnterTypes ==
    ASSUME NEW s \in Seq(Frames), NEW h \in Seq([id : Ids, depth : 0..MaxDepth]),
           NEW i \in Ids, Len(s) <= MaxDepth, Enter(s, h, i)
    PROVE  /\ stack' \in Seq(Frames) /\ Len(stack') = Len(s) + 1 /\ stack' # <<>>
           /\ hie' \in Seq([id : Ids, depth : 0..MaxDepth]) /\ DOMAIN rows' = {}
<1>1. [id |-> i, todo |-> {}] \in Frames
  BY DEF Frames
<1>2. [id |-> i, depth |-> Len(s)] \in [id : Ids, depth : 0..MaxDepth]
  BY Consts
<1> QED
  BY <1>1, <1>2, AppendProperties DEF Enter

LEMMA TypesStep == TypeOK /\ [Next]_vars => TypeOK'
<1> SUFFICES ASSUME TypeOK, [Next]_vars
             PROVE  TypeOK'
  OBVIOUS
<1> USE Consts
<1>1. CASE CallProc
  <2>1. arg' \in Ids /\ Enter(<<>>, <<>>, arg') /\ Call("open")
    BY <1>1 DEF CallProc, Call
  <2>2. Len(<<>>) <= MaxDepth /\ Len(<<>>) + 1 <= MaxDepth + 1
    BY Empties
  <2>3. /\ stack' \in Seq(Frames) /\ Len(stack') <= MaxDepth + 1 /\ stack' # <<>>
        /\ hie' \in Seq([id : Ids, depth : 0..MaxDepth]) /\ DOMAIN rows' = {}
    BY <2>1, <2>2, Empties, EnterTypes
  <2>4. level' \in SUBSET Ids /\ cur' \in Ids \cup {Null} /\ prev' \in Nat
    BY <1>1 DEF CallProc, NoDown, NoUp
  <2> QED
    BY <2>1, <2>3, <2>4, CallTypes DEF TypeOK
<1>2. CASE CallDown
  <2>1. Call("down") /\ arg' \in Ids
    BY <1>2 DEF CallDown, Call
  <2>2. level' \in SUBSET Ids /\ cur' \in Ids \cup {Null} /\ prev' \in Nat
    BY <1>2, <2>1 DEF CallDown, NoUp
  <2>3. hie' = hie /\ stack' = stack /\ rows' = rows
    BY <1>2 DEF CallDown, procVars
  <2> QED
    BY <2>1, <2>2, <2>3, CallTypes DEF TypeOK
<1>3. CASE CallUp
  <2>1. Call("up") /\ arg' \in Ids
    BY <1>3 DEF CallUp, Call
  <2>4. level' \in SUBSET Ids
    BY <1>3 DEF CallUp, NoDown
  <2>2. cur' \in Ids \cup {Null} /\ prev' \in Nat
    <3>1. cur' = arg' /\ prev' = arg' + 1
      BY <1>3 DEF CallUp
    <3>2. arg' \in Nat
      BY <2>1
    <3>3. cur' \in Ids \cup {Null}
      BY <2>1, <3>1
    <3>4. \A k \in Nat : k + 1 \in Nat
      OBVIOUS
    <3>5. prev' \in Nat
      BY <3>1, <3>2, <3>4, Zenon
    <3> QED
      BY <3>3, <3>5
  <2>3. hie' = hie /\ stack' = stack /\ rows' = rows
    BY <1>3 DEF CallUp, procVars
  <2> QED
    BY <2>1, <2>2, <2>3, <2>4, CallTypes DEF TypeOK
<1>4. CASE OpenCursor \/ FetchRow \/ TooDeep \/ FetchEnd
  <2> DEFINE n == Len(stack)
  <2>0. /\ stack \in Seq(Frames) /\ n \in Nat /\ n <= MaxDepth + 1
        /\ hie \in Seq([id : Ids, depth : 0..MaxDepth])
    BY DEF TypeOK
  <2>7. pc \in {"open", "fetch"} /\ stack # <<>>
    BY <1>4 DEF OpenCursor, FetchRow, TooDeep, FetchEnd, TypeOK
  <2>8. n \in 1..Len(stack) /\ Top \in Frames
    BY <2>0, <2>7 DEF Top
  <2>1. CASE OpenCursor
    <3>1. [Top EXCEPT !.todo = Children({Top.id})] \in Frames
      BY <2>8, ChildrenIds DEF Frames
    <3>2. stack' = [stack EXCEPT ![n] = [Top EXCEPT !.todo = Children({Top.id})]]
      BY <2>1 DEF OpenCursor, Top
    <3>3. stack' \in Seq(Frames) /\ Len(stack') = n /\ stack' # <<>>
      BY <2>0, <2>8, <3>1, <3>2, ExceptSeq
    <3> QED
      BY <2>0, <2>1, <3>3 DEF OpenCursor, TypeOK, Labels, downVars, upVars
  <2>2. CASE FetchRow
    <3> DEFINE t(x) == [stack EXCEPT ![n].todo = @ \ {x}]
    <3>1. PICK x \in Top.todo : Enter(t(x), hie, x)
      BY <2>2 DEF FetchRow
    <3>2. [Top EXCEPT !.todo = @ \ {x}] \in Frames
      BY <2>8 DEF Frames
    <3>3. t(x) \in Seq(Frames) /\ Len(t(x)) = n
      BY <2>0, <2>8, <3>2, ExceptSeq DEF Top
    <3>4. x \in Ids
      BY <2>8 DEF Frames
    <3>5. /\ stack' \in Seq(Frames) /\ Len(stack') = n + 1 /\ stack' # <<>>
          /\ hie' \in Seq([id : Ids, depth : 0..MaxDepth]) /\ DOMAIN rows' = {}
      BY <2>0, <2>2, <3>1, <3>3, <3>4, EnterTypes DEF FetchRow
    <3> QED
      BY <2>0, <2>2, <3>5 DEF FetchRow, TypeOK, Labels, downVars, upVars
  <2>3. CASE TooDeep
    BY <2>3, Empties DEF TooDeep, TypeOK, Labels, Rest, downVars, upVars
  <2>4. CASE FetchEnd
    <3>1. stack' \in Seq(Frames) /\ Len(stack') = n - 1
      BY <2>0, <2>4, <2>7, Last DEF FetchEnd
    <3>2. stack' = <<>> <=> n = 1
      BY <3>1, <2>8, EmptySeq
    <3> QED
      BY <2>0, <2>4, <2>8, <3>1, <3>2 DEF FetchEnd, TypeOK, Labels, Rest, downVars, upVars
  <2> QED
    BY <1>4, <2>1, <2>2, <2>3, <2>4
<1>11. CASE Select
  <2>1. hie' = hie /\ stack' = stack /\ pc = "select" /\ pc' = "proc_done" /\ par' = par
    BY <1>11 DEF Select
  <2>2. DOMAIN rows' \subseteq DOMAIN hie /\ \A k \in DOMAIN rows' : rows'[k] \in Ids \cup {Null}
    <3>1. /\ DOMAIN rows' = {m \in DOMAIN hie : hie[m].id \in DOMAIN par}
          /\ \A k \in DOMAIN rows' : rows'[k] = par[hie[k].id]
      BY <1>11 DEF Select
    <3>2. PICK S \in SUBSET Ids : par \in [S -> Ids \cup {Null}]
      BY DEF TypeOK, Tables
    <3>3. \A i \in DOMAIN par : par[i] \in Ids \cup {Null}
      BY <3>2
    <3> QED
      BY <3>1, <3>3
  <2> QED
    BY <1>11, <2>1, <2>2 DEF Select, TypeOK, Labels, Rest, downVars, upVars
<1>5. CASE DownStep
  <2>1. level' \in SUBSET Ids /\ cut' \in BOOLEAN
    BY <1>5, ConcatIds DEF DownStep
  <2>2. held' \in 0..MaxIds
    <3>1. held \in Nat /\ Cardinality(level) \in Nat
      BY LevelSize DEF TypeOK
    <3> QED
      BY <1>5, <3>1 DEF DownStep
  <2>3. levels' \in Seq(SUBSET Ids)
    BY <1>5 DEF DownStep, TypeOK
  <2> QED
    BY <1>5, <2>1, <2>2, <2>3 DEF DownStep, TypeOK, procVars, upVars
<1>6. CASE DownTooLong \/ DownReturn
  BY <1>6 DEF DownTooLong, DownReturn, TypeOK, Labels, Rest, procVars, downVars, upVars
<1>7. CASE UpStep
  <2>1. cur \in Ids
    BY <1>7 DEF UpStep, UpGoesOn, TypeOK
  <2>2. ids' \in Seq(Ids) /\ Len(ids') <= MaxIds
    BY <1>7, <2>1, InFront DEF UpStep, TypeOK
  <2>3. cur' \in Ids \cup {Null}
    BY <1>7, <2>1 DEF UpStep, TypeOK, Tables
  <2> QED
    BY <1>7, <2>1, <2>2, <2>3 DEF UpStep, TypeOK, procVars, downVars
<1>8. CASE UpTooLong \/ UpReturn
  BY <1>8 DEF UpTooLong, UpReturn, TypeOK, Labels, Rest, procVars, downVars, upVars
<1>9. CASE Update
  <2>1. par' \in Tables
    <3>1. PICK i \in Ids, p \in Ids \cup {Null} :
            par' \in {[j \in DOMAIN par \cup {i} |-> IF j = i THEN p ELSE par[j]],
                      [j \in DOMAIN par \ {i} |-> par[j]]}
      BY <1>9 DEF Update
    <3>2. PICK S \in SUBSET Ids : par \in [S -> Ids \cup {Null}]
      BY DEF TypeOK, Tables
    <3>3. S = DOMAIN par
      BY <3>2
    <3>4. \/ par' \in [S \cup {i} -> Ids \cup {Null}]
          \/ par' \in [S \ {i} -> Ids \cup {Null}]
      BY <3>1, <3>2, <3>3
    <3> QED
      BY <3>4 DEF Tables
  <2>2. updates' \in 0..MaxUpdates
    BY <1>9 DEF Update, TypeOK
  <2> QED
    BY <1>9, <2>1, <2>2 DEF Update, TypeOK, procVars, downVars, upVars
<1>10. CASE UNCHANGED vars
  BY <1>10 DEF vars, procVars, downVars, upVars, TypeOK
<1> QED
  BY <1>1, <1>2, <1>3, <1>4, <1>5, <1>6, <1>7, <1>8, <1>9, <1>10, <1>11 DEF Next, Step

LEMMA TypesAlways == Spec => []TypeOK
  BY TypesInit, TypesStep, PTL DEF Spec

(* The recursion never goes beyond its limit, no string is ever too long,  *)
(* and the parameters, cursors and lists are what the columns of the table *)
(* hold (lines 53, 80-81, 109-111).                                        *)
THEOREM LimitsHold == Spec => []TypeOK
  BY TypesAlways

-----------------------------------------------------------------------------
(* The procedure.                                                          *)

(* While it runs, the row that it added last is at least as deep as the    *)
(* recursion is.                                                           *)
ShapeInv ==
    /\ ProcShape
    /\ pc \in {"open", "fetch"} =>
         hie # <<>> /\ Len(stack) <= hie[Len(hie)].depth + 1

LEMMA ShapeInit == Init => ShapeInv
  BY DEF Init, ShapeInv, ProcShape

LEMMA ShapeStep == TypeOK /\ ShapeInv /\ [Next]_vars => ShapeInv'
<1> SUFFICES ASSUME TypeOK, ShapeInv, [Next]_vars
             PROVE  ShapeInv'
  OBVIOUS
<1> DEFINE Rows == [id : Ids, depth : 0..MaxDepth]
<1>0. hie \in Seq(Rows) /\ stack \in Seq(Frames) /\ Len(stack) \in Nat
  BY DEF TypeOK
<1>1. CASE CallProc
  <2>1. hie' = <<[id |-> arg', depth |-> 0]>> /\ Len(stack') = 1
    BY <1>1 DEF CallProc, Enter
  <2> QED
    BY <2>1 DEF ShapeInv, ProcShape
<1>2. CASE FetchRow
  <2> DEFINE t(x) == [stack EXCEPT ![Len(stack)].todo = @ \ {x}]
             row(x) == [id |-> x, depth |-> Len(stack)]
  <2>1. PICK x \in Top.todo : Enter(t(x), hie, x)
    BY <1>2 DEF FetchRow
  <2>2. pc = "fetch" /\ stack # <<>> /\ Len(stack) \in 1..MaxDepth
    BY <1>0, <1>2, Consts DEF FetchRow, TypeOK
  <2>3. Top \in Frames /\ x \in Ids
    <3>1. Top \in Frames
      BY <1>0, <2>2, Last DEF Top
    <3> QED
      BY <2>1, <3>1 DEF Frames
  <2>4. [Top EXCEPT !.todo = @ \ {x}] \in Frames
    BY <2>3 DEF Frames
  <2>5. t(x) \in Seq(Frames) /\ Len(t(x)) = Len(stack)
    BY <1>0, <2>2, <2>4, ExceptSeq DEF Top
  <2>6. hie' = Append(hie, row(x)) /\ Len(stack') = Len(stack) + 1
    BY <2>1, <2>5 DEF Enter
  <2>7. row(x) \in Rows
    BY <2>2, <2>3
  <2>8. /\ Len(hie') = Len(hie) + 1 /\ hie'[Len(hie')] = row(x) /\ hie' # <<>>
        /\ \A k \in 1..Len(hie) : hie'[k] = hie[k]
    BY <1>0, <2>6, <2>7, AppendProperties
  <2>9. hie # <<>> /\ Len(stack) <= hie[Len(hie)].depth + 1
    BY <2>2 DEF ShapeInv
  <2>10. Len(hie) \in Nat /\ Len(hie) >= 1 /\ hie[Len(hie)].depth \in Nat
    <3>1. Len(hie) \in Nat /\ Len(hie) >= 1 /\ hie[Len(hie)] \in Rows
      BY <1>0, <2>9, Last
    <3> QED
      BY <3>1, Consts
  <2>11. row(x).depth = Len(stack)
    OBVIOUS
  <2>12. ProcShape'
    <3> SUFFICES ASSUME NEW k \in 1..Len(hie) + 1
                 PROVE  IF k = 1 THEN hie'[k].depth = 0
                        ELSE hie'[k].depth \in 1..hie'[k - 1].depth + 1
      <4>1. DOMAIN hie' = 1..Len(hie) + 1
        BY <1>0, <2>6, <2>7, <2>8, AppendProperties, LenProperties
      <4> QED
        BY <4>1 DEF ProcShape
    <3>1. CASE k <= Len(hie)
      <4>0. k \in 1..Len(hie) /\ (k # 1 => k - 1 \in 1..Len(hie))
        BY <2>10, <3>1
      <4>1. k \in DOMAIN hie /\ hie'[k] = hie[k] /\ (k # 1 => hie'[k - 1] = hie[k - 1])
        BY <1>0, <2>8, <4>0, LenProperties
      <4> QED
        BY <4>1 DEF ShapeInv, ProcShape
    <3>2. CASE k = Len(hie) + 1
      <4>1. k # 1 /\ hie'[k - 1] = hie[Len(hie)] /\ hie'[k] = row(x)
        BY <2>8, <2>10, <3>2
      <4> QED
        BY <2>2, <2>9, <2>10, <2>11, <4>1
    <3> QED
      BY <2>10, <3>1, <3>2
  <2>13. Len(stack') <= hie'[Len(hie')].depth + 1
    BY <1>0, <2>6, <2>8, <2>11
  <2> QED
    BY <2>8, <2>12, <2>13 DEF ShapeInv
<1>3. CASE OpenCursor
  <2>1. stack # <<>> /\ Top \in Frames
    BY <1>0, <1>3 DEF OpenCursor, TypeOK, Top
  <2>2. Len(stack') = Len(stack)
    BY <1>0, <1>3, <2>1 DEF OpenCursor
  <2>3. hie' = hie /\ pc = "open"
    BY <1>3 DEF OpenCursor
  <2> QED
    BY <2>2, <2>3 DEF ShapeInv, ProcShape
<1>4. CASE FetchEnd
  <2>1. pc = "fetch" /\ stack # <<>> /\ Len(stack) >= 1 /\ hie' = hie
    BY <1>0, <1>4 DEF FetchEnd, TypeOK
  <2>2. hie # <<>> /\ Len(stack) <= hie[Len(hie)].depth + 1
    BY <2>1 DEF ShapeInv
  <2>3. Len(stack') = Len(stack) - 1
    BY <1>0, <1>4, <2>1, Last DEF FetchEnd
  <2>4. hie # <<>> /\ hie[Len(hie)].depth \in Nat /\ Len(stack) <= hie[Len(hie)].depth + 1
    <3>1. hie[Len(hie)] \in Rows
      BY <1>0, <2>2, Last
    <3> QED
      BY <2>2, <3>1, Consts
  <2> QED
    BY <1>0, <2>1, <2>3, <2>4 DEF ShapeInv, ProcShape
<1>8. CASE Select
  BY <1>8 DEF Select, ShapeInv, ProcShape
<1>5. CASE CallDown \/ CallUp
  BY <1>5 DEF CallDown, CallUp, Call, procVars, ShapeInv, ProcShape
<1>6. CASE TooDeep \/ DownStep \/ DownTooLong \/ DownReturn \/ UpStep \/ UpTooLong \/ UpReturn
  BY <1>6 DEF TooDeep, DownStep, DownTooLong, DownReturn, UpStep, UpTooLong, UpReturn,
              procVars, ShapeInv, ProcShape
<1>7. CASE Update \/ UNCHANGED vars
  BY <1>7 DEF Update, vars, procVars, ShapeInv, ProcShape
<1> QED
  BY <1>1, <1>2, <1>3, <1>4, <1>5, <1>6, <1>7, <1>8 DEF Next, Step

(* TEMP_HIE is one tree in depth-first order, whatever other sessions do   *)
(* while the procedure walks down (lines 17-20, 54-61).                    *)
THEOREM ListIsATree == Spec => []ProcShape
<1>1. ShapeInv => ProcShape
  BY DEF ShapeInv
<1> QED
  BY <1>1, TypesAlways, ShapeInit, ShapeStep, PTL DEF Spec

-----------------------------------------------------------------------------
(* hieQueUp.                                                               *)

(* ids is the path from the child of cur, or the top, down to sub_id.      *)
Path ==
    /\ ids = <<>> => cur = arg /\ prev = arg + 1
    /\ ids # <<>> => /\ ids[Len(ids)] = arg /\ prev = ids[1]
                     /\ cur = IF ids[1] \in DOMAIN par THEN par[ids[1]] ELSE ids[1]
    /\ \A k \in 2..Len(ids) : ids[k] \in DOMAIN par /\ par[ids[k]] = ids[k - 1]
    /\ \A k \in 1..Len(ids) : arg \in Descendants(ids[k])

UpInv ==
    /\ pc = "up_done" => ~UpGoesOn
    /\ quiet /\ pc \in {"up", "up_done"} => Path

LEMMA UpInit == Init => UpInv
  BY DEF Init, UpInv

LEMMA PathCall ==
    ASSUME TypeOK, CallUp
    PROVE  Path'
<1>1. ids' = <<>> /\ cur' = arg' /\ prev' = arg' + 1
  BY DEF CallUp, Call
<1> QED
  BY <1>1, Empties DEF Path

LEMMA PathStep ==
    ASSUME TypeOK, Path, UpStep
    PROVE  Path'
<1>1. cur \in Ids /\ prev # cur
  BY DEF UpStep, UpGoesOn, TypeOK
<1>2. /\ ids \in Seq(Ids) /\ Len(ids) \in Nat /\ arg \in Ids
      /\ ids' = <<cur>> \o ids /\ prev' = cur /\ arg' = arg /\ par' = par
      /\ cur' = IF cur \in DOMAIN par THEN par[cur] ELSE cur
  BY DEF UpStep, TypeOK
<1>3. /\ Len(ids') = Len(ids) + 1 /\ ids'[1] = cur /\ ids' # <<>>
      /\ \A k \in 2..Len(ids) + 1 : ids'[k] = ids[k - 1]
  BY <1>1, <1>2, InFront, EmptySeq
<1>4. \A x : Descendants(x)' = Descendants(x)
  BY <1>2 DEF Descendants, Closed, Children
<1>5. CASE ids = <<>>
  <2>1. cur = arg /\ Len(ids) = 0
    BY <1>5, Empties DEF Path
  <2>2. arg \in Descendants(cur)
    BY <1>2, <2>1, BelowItself
  <2> QED
    BY <1>2, <1>3, <1>4, <2>1, <2>2 DEF Path
<1>6. CASE ids # <<>>
  <2>1. Len(ids) >= 1 /\ ids[1] \in Ids
    BY <1>2, <1>6, EmptySeq, ElementOfSeq
  <2>2. ids[1] \in DOMAIN par /\ par[ids[1]] = cur
    BY <1>1, <1>6 DEF Path
  <2>3. arg \in Descendants(cur)
    <3>1. arg \in Descendants(ids[1])
      BY <1>2, <2>1 DEF Path
    <3> QED
      BY <1>1, <1>2, <2>2, <3>1, BelowChild
  <2>4. ids'[Len(ids')] = arg
    <3>1. Len(ids') \in 2..Len(ids) + 1 /\ Len(ids') - 1 = Len(ids)
      BY <1>2, <1>3, <2>1
    <3> QED
      BY <1>3, <1>6, <3>1 DEF Path
  <2>5. ASSUME NEW k \in 2..Len(ids) + 1
        PROVE  ids'[k] \in DOMAIN par /\ par[ids'[k]] = ids'[k - 1]
    <3>1. CASE k = 2
      BY <1>3, <2>2, <3>1
    <3>2. CASE k # 2
      <4>1. k - 1 \in 2..Len(ids) /\ k - 1 \in 2..Len(ids) + 1
        BY <1>2, <3>2
      <4>2. ids'[k] = ids[k - 1] /\ ids'[k - 1] = ids[k - 1 - 1]
        BY <1>3, <4>1
      <4> QED
        BY <4>1, <4>2 DEF Path
    <3> QED
      BY <3>1, <3>2
  <2>6. ASSUME NEW k \in 1..Len(ids) + 1
        PROVE  arg \in Descendants(ids'[k])
    <3>1. CASE k = 1
      BY <1>3, <2>3, <3>1
    <3>2. CASE k # 1
      <4>1. k \in 2..Len(ids) + 1 /\ k - 1 \in 1..Len(ids)
        BY <1>2, <3>2
      <4> QED
        BY <1>3, <4>1 DEF Path
    <3> QED
      BY <3>1, <3>2
  <2> QED
    BY <1>2, <1>3, <1>4, <2>4, <2>5, <2>6 DEF Path
<1> QED
  BY <1>5, <1>6

LEMMA UpInvStep == TypeOK /\ UpInv /\ [Next]_vars => UpInv'
<1> SUFFICES ASSUME TypeOK, UpInv, [Next]_vars
             PROVE  UpInv'
  OBVIOUS
<1>1. CASE CallUp
  <2>1. pc' = "up"
    BY <1>1 DEF CallUp, Call
  <2> QED
    BY <1>1, <2>1, PathCall DEF UpInv
<1>2. CASE UpStep
  <2>1. pc = "up" /\ pc' = "up" /\ quiet' = quiet
    BY <1>2 DEF UpStep
  <2> QED
    BY <1>2, <2>1, PathStep DEF UpInv
<1>3. CASE UpReturn
  <2>1. /\ pc = "up" /\ ~UpGoesOn /\ quiet' = quiet
        /\ par' = par /\ arg' = arg /\ ids' = ids /\ cur' = cur /\ prev' = prev
    BY <1>3 DEF UpReturn, upVars
  <2>2. Path' = Path /\ UpGoesOn' = UpGoesOn
    BY <2>1 DEF Path, UpGoesOn, Descendants, Closed, Children
  <2> QED
    BY <2>1, <2>2 DEF UpInv
<1>4. CASE UNCHANGED vars
  <2>1. /\ pc' = pc /\ quiet' = quiet
        /\ par' = par /\ arg' = arg /\ ids' = ids /\ cur' = cur /\ prev' = prev
    BY <1>4 DEF vars, upVars
  <2>2. Path' = Path /\ UpGoesOn' = UpGoesOn
    BY <2>1 DEF Path, UpGoesOn, Descendants, Closed, Children
  <2> QED
    BY <2>1, <2>2 DEF UpInv
<1>5. CASE Update
  <2>1. quiet' = FALSE /\ pc' = pc /\ cur' = cur /\ prev' = prev
    BY <1>5 DEF Update, upVars
  <2> QED
    BY <2>1 DEF UpInv, UpGoesOn
<1>6. CASE \/ CallProc \/ CallDown \/ OpenCursor \/ FetchRow \/ TooDeep \/ FetchEnd \/ Select
           \/ DownStep \/ DownTooLong \/ DownReturn \/ UpTooLong
  <2>1. pc' \notin {"up", "up_done"}
    BY <1>6 DEF CallProc, CallDown, Call, OpenCursor, FetchRow, TooDeep, FetchEnd, Select,
                DownStep, DownTooLong, DownReturn, UpTooLong
  <2> QED
    BY <2>1 DEF UpInv
<1> QED
  BY <1>1, <1>2, <1>3, <1>4, <1>5, <1>6 DEF Next, Step

(* At the end of the loop cur is the top, its own parent or NULL: what is  *)
(* not on the path is closed, so that sub_id is below none of it.          *)
LEMMA PathIsAll ==
    ASSUME TypeOK, Path, ~UpGoesOn
    PROVE  /\ ids # <<>>
           /\ {ids[k] : k \in DOMAIN ids} = {r \in Ids : arg \in Descendants(r)}
<1>1. ids \in Seq(Ids) /\ Len(ids) \in Nat /\ arg \in Ids /\ arg \in Nat /\ DOMAIN ids = 1..Len(ids)
  BY Consts DEF TypeOK
<1>2. ids # <<>>
  <2> SUFFICES ASSUME ids = <<>> PROVE FALSE
    OBVIOUS
  <2>1. cur = arg /\ prev = arg + 1
    BY DEF Path
  <2> QED
    BY <1>1, <2>1, Consts DEF UpGoesOn
<1>3. Len(ids) >= 1 /\ \A k \in 1..Len(ids) : ids[k] \in Ids
  BY <1>1, <1>2, EmptySeq, ElementOfSeq
<1> DEFINE on == {ids[k] : k \in DOMAIN ids}
<1>4. on \subseteq {r \in Ids : arg \in Descendants(r)}
  BY <1>1, <1>3 DEF Path
<1>5. ASSUME NEW i \in DOMAIN par, i \in on, par[i] \in Ids
      PROVE  par[i] \in on
  <2>1. PICK k \in 1..Len(ids) : i = ids[k]
    BY <1>1, <1>5
  <2>2. CASE k = 1
    <3>1. cur = par[i] /\ prev = i
      BY <1>2, <1>5, <2>1, <2>2 DEF Path
    <3>2. cur # Null
      BY <1>5, <3>1, Consts
    <3> QED
      BY <1>5, <3>1, <3>2 DEF UpGoesOn
  <2>3. CASE k # 1
    <3>1. k \in 2..Len(ids) /\ k - 1 \in 1..Len(ids)
      BY <1>1, <2>3
    <3> QED
      BY <1>1, <2>1, <3>1 DEF Path
  <2> QED
    BY <2>2, <2>3
<1>6. ASSUME NEW r \in Ids, r \notin on
      PROVE  arg \notin Descendants(r)
  <2>1. Closed(Ids \ on)
    <3>1. DOMAIN par \subseteq Ids
      BY DEF TypeOK, Tables
    <3> QED
      BY <1>5, <3>1 DEF Closed, Children
  <2>2. Descendants(r) \subseteq Ids \ on
    BY <1>6, <2>1, BelowLeast
  <2>3. arg \in on
    <3>1. ids[Len(ids)] = arg /\ Len(ids) \in DOMAIN ids
      BY <1>1, <1>2, <1>3 DEF Path
    <3> QED
      BY <3>1
  <2> QED
    BY <2>2, <2>3
<1> QED
  BY <1>2, <1>4, <1>6

(* hieQueUp returns exactly the nodes that sub_id is below, from the top,  *)
(* in a table that marks its roots in any of the three ways (115-124).     *)
THEOREM UpReturnsThePath == Spec => []UpExact
<1>1. TypeOK /\ UpInv => UpExact
  <2> SUFFICES ASSUME TypeOK, UpInv, pc = "up_done", quiet
               PROVE  /\ {ids[k] : k \in DOMAIN ids} = {r \in Ids : arg \in Descendants(r)}
                      /\ ids # <<>> /\ ids[Len(ids)] = arg
                      /\ \A k \in 2..Len(ids) : ids[k] \in DOMAIN par /\ par[ids[k]] = ids[k - 1]
    BY DEF UpExact
  <2>1. Path /\ ~UpGoesOn
    BY DEF UpInv
  <2>2. /\ ids # <<>>
        /\ {ids[k] : k \in DOMAIN ids} = {r \in Ids : arg \in Descendants(r)}
    BY <2>1, PathIsAll
  <2> QED
    BY <2>1, <2>2 DEF Path
<1> QED
  BY <1>1, TypesAlways, UpInit, UpInvStep, PTL DEF Spec

-----------------------------------------------------------------------------
(* The function hieQueDown.                                                *)

(* The lists that were concatenated, and then the one that comes next.     *)
Lev(k) == IF k <= Len(levels) THEN levels[k] ELSE level

(* When sub-lists meet, root_id is below itself, and then the lists repeat *)
(* and none of them is ever empty.                                         *)
Walk ==
    /\ Lev(1) = {arg}
    /\ \A k \in 1..Len(levels) : Lev(k) # {} /\ Lev(k + 1) = Children(Lev(k))
    /\ \A k \in 1..Len(levels) + 1 : Lev(k) \subseteq Descendants(arg)
    /\ \A m \in 2..Len(levels) + 1 : arg \in Lev(m) =>
         \A k \in 1..Len(levels) + 2 - m : Lev(k) \subseteq Lev(m + k - 1)
    /\ \A j, k \in 1..Len(levels) + 1 :
         j < k /\ Lev(j) \cap Lev(k) # {} => arg \in Lev(k - j + 1)

DownInv ==
    /\ pc = "down_done" => level = {}
    /\ quiet /\ ~cut /\ pc \in {"down", "down_done"} => Walk

LEMMA DownInit == Init => DownInv
  BY DEF Init, DownInv

LEMMA WalkCall ==
    ASSUME TypeOK, CallDown
    PROVE  Walk'
<1>1. levels' = <<>> /\ Len(levels') = 0 /\ level' = {arg'} /\ arg' \in Ids
  BY Empties DEF CallDown, Call
<1>2. \A k \in 1..1 : Lev(k)' = {arg'}
  BY <1>1 DEF Lev
<1>3. (arg \in Descendants(arg))'
  BY <1>1 DEF Descendants
<1> QED
  BY <1>1, <1>2, <1>3 DEF Walk

LEMMA WalkStep ==
    ASSUME TypeOK, Walk, DownStep, ~cut'
    PROVE  Walk'
<1> DEFINE n == Len(levels)
<1>1. /\ levels \in Seq(SUBSET Ids) /\ n \in Nat /\ level \in SUBSET Ids /\ arg \in Ids
      /\ levels' = Append(levels, level) /\ arg' = arg /\ par' = par /\ level # {}
  BY DEF DownStep, TypeOK
<1>2. level' = Children(level)
  BY DEF DownStep, GroupConcat
<1>3. /\ Len(levels') = n + 1 /\ levels'[n + 1] = level
      /\ \A k \in 1..n : levels'[k] = levels[k]
  BY <1>1, AppendProperties
<1>4. /\ \A k \in 1..n + 1 : Lev(k)' = Lev(k)
      /\ \A k : k = n + 2 => Lev(k)' = Children(Lev(n + 1))
      /\ Lev(n + 1) = level
  BY <1>1, <1>2, <1>3 DEF Lev
<1>5. /\ \A x : Descendants(x)' = Descendants(x)
      /\ \A S : Children(S)' = Children(S)
  BY <1>1 DEF Descendants, Closed, Children
<1> HIDE DEF n
<1>6. (Lev(1) = {arg})'
  BY <1>1, <1>4 DEF Walk
<1>7. ASSUME NEW k \in 1..n + 1
      PROVE  Lev(k)' # {} /\ Lev(k + 1)' = Children(Lev(k)')
  <2>1. CASE k <= n
    <3>1. k \in 1..n /\ k + 1 \in 1..n + 1
      BY <1>1, <2>1
    <3> QED
      BY <1>4, <3>1 DEF Walk, n
  <2>2. CASE k = n + 1
    <3>1. k + 1 = n + 2
      BY <1>1, <2>2
    <3> QED
      BY <1>1, <1>4, <2>2, <3>1
  <2> QED
    BY <1>1, <2>1, <2>2
<1>8. ASSUME NEW k \in 1..n + 2
      PROVE  Lev(k)' \subseteq Descendants(arg)
  <2>1. CASE k <= n + 1
    BY <1>1, <1>4, <2>1 DEF Walk, n
  <2>2. CASE k = n + 2
    <3>1. Lev(n + 1) \subseteq Descendants(arg)
      BY <1>1 DEF Walk, n
    <3>2. Lev(k)' = Children(Lev(n + 1))
      BY <1>4, <2>2
    <3>3. Children(Lev(n + 1)) \in SUBSET Ids
      BY ChildrenIds
    <3> QED
      BY <1>1, <3>1, <3>2, <3>3, ChildBelow DEF Children
  <2> QED
    BY <1>1, <2>1, <2>2
<1>9. ASSUME NEW m \in 2..n + 2, arg \in Lev(m)', NEW k \in 1..n + 3 - m
      PROVE  Lev(k)' \subseteq Lev(m + k - 1)'
  <2>1. CASE m = n + 2
    <3>1. k = 1 /\ m + k - 1 = m
      BY <1>1, <2>1
    <3> QED
      BY <1>1, <1>6, <1>9, <3>1
  <2>2. CASE m # n + 2
    <3>1. m \in 2..n + 1 /\ arg \in Lev(m)
      BY <1>1, <1>4, <1>9, <2>2
    <3>2. \A l \in 1..n + 2 - m : Lev(l) \subseteq Lev(m + l - 1)
      BY <3>1 DEF Walk, n
    <3>3. CASE k # n + 3 - m
      <4>1. k \in 1..n + 2 - m /\ k \in 1..n + 1 /\ m + k - 1 \in 1..n + 1
        BY <1>1, <3>1, <3>3
      <4> QED
        BY <1>4, <3>2, <4>1
    <3>4. CASE k = n + 3 - m
      <4>1. /\ k - 1 \in 1..n /\ k - 1 \in 1..n + 2 - m /\ k \in 1..n + 1
            /\ m + (k - 1) - 1 = n + 1 /\ m + k - 1 = n + 2 /\ (k - 1) + 1 = k
        BY <1>1, <3>1, <3>4
      <4>2. Lev(k) = Children(Lev(k - 1))
        BY <4>1 DEF Walk, n
      <4>3. Lev(k - 1) \subseteq Lev(n + 1)
        BY <3>2, <4>1
      <4>4. Children(Lev(k - 1)) \subseteq Children(Lev(n + 1))
        BY <4>3 DEF Children
      <4> QED
        BY <1>4, <4>1, <4>2, <4>4
    <3> QED
      BY <3>3, <3>4
  <2> QED
    BY <2>1, <2>2
<1>10. ASSUME NEW j \in 1..n + 2, NEW k \in 1..n + 2, j < k, Lev(j)' \cap Lev(k)' # {}
       PROVE  arg \in Lev(k - j + 1)'
  <2>1. CASE k # n + 2
    <3>1. j \in 1..n + 1 /\ k \in 1..n + 1 /\ k - j + 1 \in 1..n + 1
      BY <1>1, <1>10, <2>1
    <3> QED
      BY <1>4, <1>10, <3>1 DEF Walk, n
  <2>2. CASE k = n + 2
    <3>1. CASE j = 1
      <4>1. k - j + 1 = k
        BY <1>1, <3>1
      <4> QED
        BY <1>1, <1>6, <1>10, <3>1, <4>1
    <3>2. CASE j # 1
      <4>1. /\ j - 1 \in 1..n /\ j - 1 \in 1..n + 1 /\ j \in 1..n + 1 /\ (j - 1) + 1 = j
            /\ n + 1 \in 1..n + 1 /\ j - 1 < n + 1
            /\ (n + 1) - (j - 1) + 1 = k - j + 1 /\ k - j + 1 \in 1..n + 1
        BY <1>1, <1>10, <2>2, <3>2
      <4>2. Lev(j) = Children(Lev(j - 1))
        BY <4>1 DEF Walk, n
      <4>3. PICK x : x \in Children(Lev(j - 1)) /\ x \in Children(Lev(n + 1))
        BY <1>4, <1>10, <2>2, <4>1, <4>2
      <4>4. Lev(j - 1) \cap Lev(n + 1) # {}
        BY <4>3 DEF Children
      <4>5. arg \in Lev((n + 1) - (j - 1) + 1)
        BY <4>1, <4>4 DEF Walk, n
      <4> QED
        BY <1>4, <4>1, <4>5
    <3> QED
      BY <3>1, <3>2
  <2> QED
    BY <2>1, <2>2
<1>11. Len(levels)' = n + 1 /\ n + 1 + 1 = n + 2 /\ n + 1 + 2 = n + 3
  BY <1>1, <1>3 DEF n
<1> QED
  BY <1>1, <1>5, <1>6, <1>7, <1>8, <1>9, <1>10, <1>11 DEF Walk

LEMMA DownInvStep == TypeOK /\ DownInv /\ [Next]_vars => DownInv'
<1> SUFFICES ASSUME TypeOK, DownInv, [Next]_vars
             PROVE  DownInv'
  OBVIOUS
<1>1. CASE CallDown
  <2>1. pc' = "down"
    BY <1>1 DEF CallDown, Call
  <2> QED
    BY <1>1, <2>1, WalkCall DEF DownInv
<1>2. CASE DownStep
  <2>1. pc = "down" /\ pc' = "down" /\ quiet' = quiet /\ (cut => cut')
    BY <1>2 DEF DownStep, GroupConcat
  <2> QED
    BY <1>2, <2>1, WalkStep DEF DownInv
<1>3. CASE DownReturn
  <2>1. /\ pc = "down" /\ level = {} /\ quiet' = quiet /\ cut' = cut
        /\ par' = par /\ arg' = arg /\ levels' = levels /\ level' = level
    BY <1>3 DEF DownReturn, downVars
  <2>2. Walk' = Walk
    BY <2>1 DEF Walk, Lev, Descendants, Closed, Children
  <2> QED
    BY <2>1, <2>2 DEF DownInv
<1>4. CASE UNCHANGED vars
  <2>1. /\ pc' = pc /\ quiet' = quiet /\ cut' = cut
        /\ par' = par /\ arg' = arg /\ levels' = levels /\ level' = level
    BY <1>4 DEF vars, downVars
  <2>2. Walk' = Walk
    BY <2>1 DEF Walk, Lev, Descendants, Closed, Children
  <2> QED
    BY <2>1, <2>2 DEF DownInv
<1>5. CASE Update
  <2>1. quiet' = FALSE /\ pc' = pc /\ level' = level
    BY <1>5 DEF Update, downVars
  <2> QED
    BY <2>1 DEF DownInv
<1>6. CASE \/ CallProc \/ CallUp \/ OpenCursor \/ FetchRow \/ TooDeep \/ FetchEnd \/ Select
           \/ DownTooLong \/ UpStep \/ UpTooLong \/ UpReturn
  <2>1. pc' \notin {"down", "down_done"}
    BY <1>6 DEF CallProc, CallUp, Call, OpenCursor, FetchRow, TooDeep, FetchEnd, Select,
                DownTooLong, UpStep, UpTooLong, UpReturn
  <2> QED
    BY <2>1 DEF DownInv
<1> QED
  BY <1>1, <1>2, <1>3, <1>4, <1>5, <1>6 DEF Next, Step

(* The lists are disjoint and closed once there is an empty one.           *)
LEMMA WalkIsAll ==
    ASSUME TypeOK, Walk, level = {}
    PROVE  /\ UNION {levels[k] : k \in DOMAIN levels} = Descendants(arg)
           /\ \A j, k \in DOMAIN levels : j # k => levels[j] \cap levels[k] = {}
           /\ levels[1] = {arg}
           /\ \A k \in 2..Len(levels) : levels[k] = Children(levels[k - 1])
<1> DEFINE n == Len(levels)
           U == UNION {levels[k] : k \in DOMAIN levels}
<1>1. /\ levels \in Seq(SUBSET Ids) /\ n \in Nat /\ DOMAIN levels = 1..n /\ arg \in Ids
  BY DEF TypeOK
<1>2. (\A k \in 1..n : Lev(k) = levels[k]) /\ Lev(n + 1) = {}
  BY <1>1 DEF Lev
<1>3. n >= 1
  <2>1. CASE n = 0
    <3>1. Lev(1) = {}
      BY <1>2, <2>1
    <3> QED
      BY <3>1 DEF Walk
  <2> QED
    BY <1>1, <2>1
<1>4. levels[1] = {arg}
  BY <1>1, <1>2, <1>3 DEF Walk
<1>5. ASSUME NEW k \in 2..n
      PROVE  levels[k] = Children(levels[k - 1])
  <2>1. k - 1 \in 1..n /\ k \in 1..n /\ (k - 1) + 1 = k
    BY <1>1
  <2> QED
    BY <1>2, <2>1 DEF Walk
<1>6. ASSUME NEW j \in 1..n, NEW k \in 1..n, j < k
      PROVE  levels[j] \cap levels[k] = {}
  <2> SUFFICES ASSUME levels[j] \cap levels[k] # {} PROVE FALSE
    OBVIOUS
  <2> DEFINE m == k - j + 1
  <2>1. /\ j \in 1..n + 1 /\ k \in 1..n + 1 /\ m \in 2..n + 1 /\ n + 2 - m \in 1..n
        /\ n + 2 - m \in 1..n + 2 - m /\ m + (n + 2 - m) - 1 = n + 1
    BY <1>1, <1>6
  <2>2. arg \in Lev(m)
    BY <1>2, <1>6, <2>1 DEF Walk
  <2>3. Lev(n + 2 - m) \subseteq Lev(m + (n + 2 - m) - 1)
    BY <2>1, <2>2 DEF Walk
  <2>4. Lev(n + 2 - m) # {}
    BY <2>1 DEF Walk
  <2> QED
    BY <1>2, <2>1, <2>3, <2>4
<1>7. U \subseteq Descendants(arg)
  <2>1. \A k \in 1..n : levels[k] \subseteq Descendants(arg)
    BY <1>1, <1>2 DEF Walk
  <2> QED
    BY <1>1, <2>1
<1>8. Descendants(arg) \subseteq U
  <2>1. U \in SUBSET Ids
    BY <1>1, ElementOfSeq
  <2>2. arg \in U
    BY <1>1, <1>3, <1>4
  <2>3. ASSUME NEW x \in Children(U)
        PROVE  x \in U
    <3>1. PICK k \in 1..n : x \in Children(levels[k])
      BY <1>1 DEF Children
    <3>2. x \in Lev(k + 1)
      BY <1>2, <3>1 DEF Walk
    <3>3. k + 1 \in 1..n
      BY <1>1, <1>2, <3>2
    <3> QED
      BY <1>1, <1>2, <3>2, <3>3
  <2> QED
    BY <1>1, <2>1, <2>2, <2>3, BelowLeast DEF Closed
<1>9. \A j, k \in DOMAIN levels : j # k => levels[j] \cap levels[k] = {}
  <2> SUFFICES ASSUME NEW j \in 1..n, NEW k \in 1..n, j # k
               PROVE  levels[j] \cap levels[k] = {}
    BY <1>1
  <2>1. j < k \/ k < j
    BY <1>1
  <2> QED
    BY <1>6, <2>1
<1> QED
  BY <1>4, <1>5, <1>7, <1>8, <1>9

(* The function hieQueDown returns exactly the hierarchy below root_id, no *)
(* id twice and the levels in order, unless GROUP_CONCAT cut one (84-93).  *)
THEOREM DownReturnsTheHierarchy == Spec => []DownExact
<1>1. TypeOK /\ DownInv => DownExact
  BY WalkIsAll DEF DownInv, DownExact
<1> QED
  BY <1>1, TypesAlways, DownInit, DownInvStep, PTL DEF Spec

-----------------------------------------------------------------------------
(* What the procedure selects.                                             *)

(* The row of the call at place m: all rows after it belong to deeper      *)
(* calls.                                                                  *)
RowOf(m, j) ==
    /\ j \in DOMAIN hie /\ hie[j].id = stack[m].id /\ hie[j].depth = m - 1
    /\ \A k \in DOMAIN hie : k > j => hie[k].depth >= m

(* The calls that are open, and the rows so far.                           *)
Chain ==
    /\ hie # <<>> /\ hie[1].id = arg /\ hie[1].depth = 0 /\ stack[1].id = arg
    /\ \A m \in 1..Len(stack) : stack[m].todo \subseteq Children({stack[m].id})
    /\ \A m \in 1..Len(stack) : \E j \in DOMAIN hie : RowOf(m, j)
    /\ \A k \in 2..Len(hie) : \E j \in 1..k - 1 :
          StandsBelow(k, j) /\ hie[k].id \in DOMAIN par /\ par[hie[k].id] = hie[j].id
    /\ Listed \subseteq Descendants(arg)
    /\ pc = "open" => Top.todo = {} /\ hie[Len(hie)].id = Top.id

(* x is not below itself.                                                  *)
NoCycle(x) == x \in DOMAIN par => par[x] \notin Descendants(x)

(* D are nodes whose calls have returned. What is below them is listed,    *)
(* and of the children of an open call's node each is in D, still in the   *)
(* cursor, or the node of the next call. A node whose children are all in  *)
(* D is not below itself, so a cycle never gets into D.                    *)
Returned(D) ==
    /\ Closed(D) /\ \A x \in D : NoCycle(x)
    /\ \A m \in 1..Len(stack) :
          pc = "fetch" \/ m < Len(stack) =>
             \A x \in Children({stack[m].id}) :
                x \in D \/ x \in stack[m].todo \/ (m < Len(stack) /\ x = stack[m + 1].id)

(* Without a cycle no node is met twice.                                   *)
Once ==
    /\ \A j, k \in DOMAIN hie : hie[j].id = hie[k].id => j = k
    /\ \A l, m \in 1..Len(stack) : stack[l].id = stack[m].id => l = m
    /\ \A m \in 1..Len(stack) : stack[m].todo \cap Listed = {}

ProcInv ==
    quiet /\ pc \in {"open", "fetch"} =>
        Chain /\ (NoCycle(arg) => Once) /\ \E D \in SUBSET Listed : Returned(D)

(* What the recursion leaves to the SELECT: all rows but that of root_id   *)
(* are nodes with a row.                                                   *)
Whole ==
    /\ hie # <<>> /\ hie[1] = [id |-> arg, depth |-> 0]
    /\ Listed = Descendants(arg)
    /\ \A j, k \in DOMAIN hie : hie[j].id = hie[k].id => j = k
    /\ \A k \in 2..Len(hie) : \E j \in 1..k - 1 :
          StandsBelow(k, j) /\ hie[k].id \in DOMAIN par /\ par[hie[k].id] = hie[j].id

WholeInv == quiet /\ pc = "select" => Whole

(* The sequences, and what is in them.                                     *)
LEMMA Places ==
    ASSUME TypeOK
    PROVE  /\ Len(hie) \in Nat /\ DOMAIN hie = 1..Len(hie) /\ Len(stack) \in Nat
           /\ \A k \in 1..Len(hie) : hie[k].id \in Ids /\ hie[k].depth \in Nat
           /\ \A m \in 1..Len(stack) : stack[m].id \in Ids /\ stack[m].todo \subseteq Ids
<1>1. hie \in Seq([id : Ids, depth : 0..MaxDepth]) /\ stack \in Seq(Frames)
  BY DEF TypeOK
<1>2. Len(hie) \in Nat /\ DOMAIN hie = 1..Len(hie) /\ Len(stack) \in Nat
  BY <1>1, LenProperties
<1>3. ASSUME NEW k \in 1..Len(hie) PROVE hie[k].id \in Ids /\ hie[k].depth \in Nat
  <2>1. hie[k] \in [id : Ids, depth : 0..MaxDepth]
    BY <1>1, ElementOfSeq
  <2> QED
    BY <2>1, Consts
<1>4. ASSUME NEW m \in 1..Len(stack) PROVE stack[m].id \in Ids /\ stack[m].todo \subseteq Ids
  <2>1. stack[m] \in Frames
    BY <1>1, ElementOfSeq
  <2> QED
    BY <2>1 DEF Frames
<1> QED
  BY <1>2, <1>3, <1>4

LEMMA ChildOf ==
    ASSUME NEW y
    PROVE  \A x : x \in Children({y}) <=> x \in DOMAIN par /\ par[x] = y
  BY DEF Children

(* Which ids are listed.                                                   *)
LEMMA ListedRow ==
    ASSUME NEW x
    PROVE  x \in Listed <=> \E k \in DOMAIN hie : hie[k].id = x
  BY DEF Listed

(* What FetchRow does to the calls and to the rows.                        *)
FetchedRow(x) ==
    LET n == Len(stack) IN
    /\ pc = "fetch" /\ pc' = "open" /\ UNCHANGED <<par, arg, quiet>>
    /\ n >= 1 /\ x \in Ids /\ x \in stack[n].todo
    /\ Len(stack') = n + 1
    /\ \A m \in 1..n : stack'[m].id = stack[m].id
    /\ \A m \in 1..n : m # n => stack'[m].todo = stack[m].todo
    /\ stack'[n].todo = stack[n].todo \ {x}
    /\ stack'[n + 1].id = x /\ stack'[n + 1].todo = {}
    /\ Len(hie') = Len(hie) + 1 /\ DOMAIN hie' = 1..Len(hie) + 1 /\ hie' # <<>>
    /\ \A k \in 1..Len(hie) : hie'[k] = hie[k]
    /\ hie'[Len(hie) + 1].id = x /\ hie'[Len(hie) + 1].depth = n

LEMMA FetchEffect ==
    ASSUME TypeOK, FetchRow
    PROVE  \E x \in Ids : FetchedRow(x)
<1> DEFINE Rows == [id : Ids, depth : 0..MaxDepth]
           t(x) == [stack EXCEPT ![Len(stack)].todo = @ \ {x}]
           row(x) == [id |-> x, depth |-> Len(stack)]
           new(x) == [id |-> x, todo |-> {}]
<1>0. hie \in Seq(Rows) /\ stack \in Seq(Frames) /\ Len(stack) \in Nat /\ Len(hie) \in Nat
  BY DEF TypeOK
<1>1. PICK x \in Top.todo : Enter(t(x), hie, x)
  BY DEF FetchRow
<1>2. pc = "fetch" /\ stack # <<>> /\ Len(stack) \in 1..MaxDepth
  BY <1>0, Consts DEF FetchRow, TypeOK
<1>3. Top \in Frames /\ x \in Ids
  <2>1. Top \in Frames
    BY <1>0, <1>2, Last DEF Top
  <2> QED
    BY <1>1, <2>1 DEF Frames
<1>4. [Top EXCEPT !.todo = @ \ {x}] \in Frames
  BY <1>3 DEF Frames
<1>5. /\ t(x) \in Seq(Frames) /\ Len(t(x)) = Len(stack)
      /\ \A m \in 1..Len(stack) :
            t(x)[m] = IF m = Len(stack) THEN [Top EXCEPT !.todo = @ \ {x}] ELSE stack[m]
  BY <1>0, <1>2, <1>4, ExceptSeq DEF Top
<1>6. hie' = Append(hie, row(x)) /\ stack' = Append(t(x), new(x))
  BY <1>1, <1>5 DEF Enter
<1>7. row(x) \in Rows /\ new(x) \in Frames
  BY <1>2, <1>3 DEF Frames
<1>8. /\ Len(hie') = Len(hie) + 1 /\ hie'[Len(hie) + 1] = row(x) /\ hie' # <<>>
      /\ \A k \in 1..Len(hie) : hie'[k] = hie[k]
      /\ hie' \in Seq(Rows)
  BY <1>0, <1>6, <1>7, AppendProperties
<1> HIDE DEF row, new, t
<1>9. /\ Len(stack') = Len(stack) + 1 /\ stack'[Len(stack) + 1] = new(x)
      /\ \A m \in 1..Len(stack) : stack'[m] = t(x)[m]
  BY <1>5, <1>6, <1>7, AppendProperties
<1>10. DOMAIN hie' = 1..Len(hie) + 1
  BY <1>8, LenProperties
<1>11. /\ [Top EXCEPT !.todo = @ \ {x}].id = Top.id
       /\ [Top EXCEPT !.todo = @ \ {x}].todo = Top.todo \ {x}
  BY <1>3 DEF Frames
<1>12. row(x).id = x /\ row(x).depth = Len(stack) /\ new(x).id = x /\ new(x).todo = {}
  BY DEF row, new
<1>13. Len(stack) >= 1 /\ Len(stack) \in 1..Len(stack)
  BY <1>0, <1>2
<1>14. \A m \in 1..Len(stack) : stack'[m].id = stack[m].id
  BY <1>5, <1>9, <1>11 DEF Top
<1>15. \A m \in 1..Len(stack) : m # Len(stack) => stack'[m].todo = stack[m].todo
  BY <1>5, <1>9
<1>16. stack'[Len(stack)].todo = stack[Len(stack)].todo \ {x}
  BY <1>5, <1>9, <1>11, <1>13 DEF Top
<1>17. pc' = "open" /\ UNCHANGED <<par, arg, quiet>>
  BY DEF FetchRow
<1> QED
  BY <1>1, <1>2, <1>3, <1>8, <1>9, <1>10, <1>12, <1>13, <1>14, <1>15, <1>16, <1>17
     DEF FetchedRow, Top

(* What depends on the table alone.                                        *)
LEMMA SameTable ==
    ASSUME par' = par
    PROVE  /\ \A x : Descendants(x)' = Descendants(x) /\ NoCycle(x)' = NoCycle(x)
           /\ \A S : Children(S)' = Children(S) /\ Closed(S)' = Closed(S)
  BY DEF Descendants, Closed, Children, NoCycle

(* The nodes of the open calls are listed, and below root_id.              *)
LEMMA OpenListed ==
    ASSUME TypeOK, Chain, NEW m \in 1..Len(stack)
    PROVE  stack[m].id \in Listed /\ stack[m].id \in Descendants(arg) /\ stack[m].id \in Ids
<1>1. PICK j \in DOMAIN hie : RowOf(m, j)
  BY DEF Chain
<1>2. stack[m].id \in Listed
  BY <1>1 DEF RowOf, Listed
<1> QED
  BY <1>2, Places DEF Chain

LEMMA ProcCall ==
    ASSUME TypeOK, CallProc
    PROVE  ProcInv'
<1>1. arg' \in Ids /\ Enter(<<>>, <<>>, arg') /\ pc' = "open"
  BY DEF CallProc, Call
<1>2. /\ Len(stack') = 1 /\ stack'[1].id = arg' /\ stack'[1].todo = {}
      /\ Len(hie') = 1 /\ DOMAIN hie' = 1..1 /\ hie' # <<>>
      /\ hie'[1].id = arg' /\ hie'[1].depth = 0
  BY <1>1 DEF Enter
<1>3. Listed' = {arg'}
  BY <1>2 DEF Listed
<1>4. (arg \in Descendants(arg))'
  BY <1>1 DEF Descendants
<1>5. RowOf(1, 1)'
  BY <1>2 DEF RowOf
<1>6. Chain'
  BY <1>1, <1>2, <1>3, <1>4, <1>5 DEF Chain, Top
<1>7. Once'
  BY <1>2 DEF Once
<1>8. Returned({})'
  BY <1>1, <1>2 DEF Returned, Closed, Children
<1> QED
  BY <1>6, <1>7, <1>8 DEF ProcInv

(* A node that was listed before is a child of the last row's node only on *)
(* a cycle through root_id.                                                *)
LEMMA NoneListed ==
    ASSUME TypeOK, Chain, Once, NoCycle(arg), pc = "open", stack # <<>>
    PROVE  Children({Top.id}) \cap Listed = {}
<1> SUFFICES ASSUME NEW x \in Children({Top.id}), x \in Listed
             PROVE  FALSE
  OBVIOUS
<1>1. x \in DOMAIN par /\ par[x] = Top.id
  BY DEF Children
<1>2. Len(stack) \in 1..Len(stack) /\ Len(hie) \in Nat /\ DOMAIN hie = 1..Len(hie)
  <2>1. Len(stack) \in Nat /\ Len(stack) >= 1
    BY Last DEF TypeOK
  <2> QED
    BY <2>1, Places
<1>3. Top.id \in Descendants(arg)
  BY <1>2, OpenListed DEF Top
<1>4. PICK k \in 1..Len(hie) : hie[k].id = x
  BY <1>2, ListedRow
<1>5. CASE k = 1
  BY <1>1, <1>3, <1>4, <1>5 DEF Chain, NoCycle
<1>6. CASE k # 1
  <2>1. k \in 2..Len(hie)
    BY <1>2, <1>6
  <2>2. PICK j \in 1..k - 1 : par[hie[k].id] = hie[j].id
    BY <2>1 DEF Chain
  <2>3. hie[j].id = hie[Len(hie)].id
    BY <1>1, <1>4, <2>2 DEF Chain
  <2>4. j \in DOMAIN hie /\ Len(hie) \in DOMAIN hie /\ j # Len(hie)
    <3> DEFINE r == Len(hie)
    <3>1. r \in Nat /\ k \in 2..r /\ j \in 1..k - 1
      BY <1>2, <2>1
    <3> HIDE DEF r
    <3>2. j \in 1..r /\ r \in 1..r /\ j # r
      BY <3>1
    <3> QED
      BY <1>2, <3>2 DEF r
  <2> QED
    BY <2>3, <2>4 DEF Once
<1> QED
  BY <1>5, <1>6

LEMMA ProcOpen ==
    ASSUME TypeOK, ProcInv, OpenCursor
    PROVE  ProcInv'
<1> SUFFICES ASSUME quiet
             PROVE  (Chain /\ (NoCycle(arg) => Once) /\ \E D \in SUBSET Listed : Returned(D))'
  BY DEF ProcInv, OpenCursor
<1> DEFINE n == Len(stack)
<1>1. /\ pc = "open" /\ pc' = "fetch" /\ par' = par /\ arg' = arg /\ hie' = hie /\ stack # <<>>
      /\ stack' = [stack EXCEPT ![n].todo = Children({Top.id})]
  BY DEF OpenCursor, TypeOK
<1>2. n \in Nat /\ n >= 1 /\ n \in 1..n
  <2>1. n \in Nat /\ n >= 1
    BY <1>1, Last DEF TypeOK
  <2> QED
    BY <2>1
<1>3. /\ Len(stack') = n /\ \A m \in 1..n : stack'[m].id = stack[m].id
      /\ \A m \in 1..n : m # n => stack'[m].todo = stack[m].todo
      /\ stack'[n].todo = Children({stack[n].id})
  <2> DEFINE f == [Top EXCEPT !.todo = Children({Top.id})]
  <2>1. stack \in Seq(Frames) /\ Top \in Frames
    BY <1>1, Last DEF TypeOK, Top
  <2>2. f \in Frames /\ f.id = Top.id /\ f.todo = Children({Top.id})
    BY <2>1, ChildrenIds DEF Frames
  <2>3. stack' = [stack EXCEPT ![n] = f]
    BY <1>1 DEF Top
  <2> HIDE DEF f
  <2>4. Len(stack') = n /\ \A m \in 1..n : stack'[m] = IF m = n THEN f ELSE stack[m]
    BY <1>2, <2>1, <2>2, <2>3, ExceptSeq
  <2> QED
    BY <1>2, <2>2, <2>4 DEF Top
<1>4. Chain /\ (NoCycle(arg) => Once)
  BY <1>1 DEF ProcInv
<1>5. PICK D \in SUBSET Listed : Returned(D)
  BY <1>1 DEF ProcInv
<1>6. Listed' = Listed
  BY <1>1 DEF Listed
<1>7. Chain'
  <2>1. \A m \in 1..n : \E j \in DOMAIN hie : RowOf(m, j)'
    BY <1>1, <1>3, <1>4 DEF Chain, RowOf
  <2>2. \A m \in 1..n : (stack[m].todo \subseteq Children({stack[m].id}))'
    <3>1. \A m \in 1..n : stack[m].todo \subseteq Children({stack[m].id})
      BY <1>4 DEF Chain
    <3>2. ASSUME NEW m \in 1..n
          PROVE  stack'[m].todo \subseteq Children({stack[m].id})
      <4>1. CASE m = n
        BY <1>3, <4>1
      <4>2. CASE m # n
        BY <1>3, <3>1, <4>2
      <4> QED
        BY <4>1, <4>2
    <3> QED
      BY <1>1, <1>3, <3>2 DEF Children
  <2>3. \A k \in 2..Len(hie) : \E j \in 1..k - 1 :
          StandsBelow(k, j)' /\ hie'[k].id \in DOMAIN par' /\ par'[hie'[k].id] = hie'[j].id
    BY <1>1, <1>4 DEF Chain, StandsBelow
  <2>4. stack'[1].id = arg' /\ hie' # <<>> /\ hie'[1].id = arg' /\ hie'[1].depth = 0
    BY <1>1, <1>2, <1>3, <1>4 DEF Chain
  <2>5. Listed' \subseteq Descendants(arg)'
    BY <1>1, <1>4, <1>6, SameTable DEF Chain
  <2>6. Len(stack') = n /\ DOMAIN hie' = DOMAIN hie /\ Len(hie') = Len(hie) /\ pc' # "open"
    BY <1>1, <1>3
  <2> HIDE DEF n
  <2> QED
    BY <2>1, <2>2, <2>3, <2>4, <2>5, <2>6 DEF Chain
<1>8. NoCycle(arg)' => Once'
  <2> SUFFICES ASSUME NoCycle(arg)
               PROVE  Once'
    BY <1>1, SameTable
  <2>1. Children({stack[n].id}) \cap Listed = {}
    BY <1>1, <1>4, NoneListed DEF Top
  <2>2. \A m \in 1..n : stack'[m].todo \cap Listed = {}
    BY <1>3, <1>4, <2>1 DEF Once
  <2>3. \A l, m \in 1..n : stack'[l].id = stack'[m].id => l = m
    BY <1>3, <1>4 DEF Once
  <2>4. \A j, k \in DOMAIN hie' : hie'[j].id = hie'[k].id => j = k
    BY <1>1, <1>4 DEF Once
  <2> QED
    BY <1>3, <1>6, <2>2, <2>3, <2>4 DEF Once
<1>9. Returned(D)'
  <2>1. Closed(D)' /\ \A x \in D : NoCycle(x)'
    BY <1>1, <1>5, SameTable DEF Returned
  <2>2. ASSUME NEW m \in 1..n, NEW x \in Children({stack[m].id})'
        PROVE  x \in D \/ x \in stack'[m].todo \/ (m < n /\ x = stack'[m + 1].id)
    <3>1. x \in Children({stack[m].id})
      BY <1>1, <1>3, <2>2 DEF Children
    <3>2. CASE m = n
      BY <1>3, <3>1, <3>2
    <3>3. CASE m # n
      <4>1. m < n /\ m + 1 \in 1..n
        BY <1>2, <3>3
      <4> QED
        BY <1>3, <1>5, <3>1, <3>3, <4>1 DEF Returned
    <3> QED
      BY <3>2, <3>3
  <2> QED
    BY <1>3, <2>1, <2>2 DEF Returned
<1> QED
  BY <1>5, <1>6, <1>7, <1>8, <1>9

LEMMA ProcFetch ==
    ASSUME TypeOK, ProcInv, FetchRow
    PROVE  ProcInv'
<1> SUFFICES ASSUME quiet
             PROVE  (Chain /\ (NoCycle(arg) => Once) /\ \E D \in SUBSET Listed : Returned(D))'
  BY DEF ProcInv, FetchRow
<1> DEFINE n == Len(stack)
           r == Len(hie)
<1>0. PICK x \in Ids : FetchedRow(x)
  BY FetchEffect
<1>1. /\ pc = "fetch" /\ pc' = "open" /\ par' = par /\ arg' = arg
      /\ x \in stack[n].todo /\ n \in Nat /\ r \in Nat /\ n >= 1 /\ n \in 1..n /\ DOMAIN hie = 1..r
  BY <1>0, Places DEF FetchedRow
<1>2. /\ Len(stack') = n + 1 /\ \A m \in 1..n : stack'[m].id = stack[m].id
      /\ \A m \in 1..n : m # n => stack'[m].todo = stack[m].todo
      /\ stack'[n].todo = stack[n].todo \ {x}
      /\ stack'[n + 1].id = x /\ stack'[n + 1].todo = {}
  BY <1>0 DEF FetchedRow
<1>3. /\ Len(hie') = r + 1 /\ DOMAIN hie' = 1..r + 1 /\ hie' # <<>>
      /\ \A k \in 1..r : hie'[k] = hie[k]
      /\ hie'[r + 1].id = x /\ hie'[r + 1].depth = n
  BY <1>0 DEF FetchedRow
<1>4. Chain /\ (NoCycle(arg) => Once)
  BY <1>1 DEF ProcInv
<1>5. PICK D \in SUBSET Listed : Returned(D)
  BY <1>1 DEF ProcInv
<1>6. Listed' = Listed \cup {x}
  <2>1. Listed = {hie[k].id : k \in 1..r}
    BY <1>1 DEF Listed
  <2>2. Listed' = {hie'[k].id : k \in 1..r + 1}
    BY <1>3 DEF Listed
  <2>3. \A k : k \in 1..r + 1 <=> k \in 1..r \/ k = r + 1
    BY <1>1
  <2> HIDE DEF r
  <2> QED
    BY <1>3, <2>1, <2>2, <2>3
<1>7. x \in DOMAIN par /\ par[x] = stack[n].id
  BY <1>1, <1>4 DEF Chain, Children
<1>8. r >= 1
  BY <1>1, <1>4, EmptySeq DEF Chain, TypeOK
<1> HIDE DEF n, r
<1>9. \A m \in 1..n + 1 : m \in 1..n \/ m = n + 1
  BY <1>1
<1>10. Chain'
  <2>1. ASSUME NEW m \in 1..n + 1
        PROVE  \E j \in DOMAIN hie' : RowOf(m, j)'
    <3>1. CASE m \in 1..n
      <4>1. PICK j \in 1..r : RowOf(m, j)
        BY <1>1, <1>4, <3>1 DEF Chain, n
      <4>2. \A k \in 1..r : k > j => hie[k].depth >= m
        BY <1>1, <4>1 DEF RowOf
      <4>3. ASSUME NEW k \in 1..r + 1, k > j
            PROVE  hie'[k].depth >= m
        <5>1. CASE k \in 1..r
          BY <1>3, <4>2, <4>3, <5>1
        <5>2. CASE k = r + 1
          BY <1>1, <1>3, <3>1, <5>2
        <5> QED
          BY <1>1, <5>1, <5>2
      <4>4. j \in 1..r + 1
        BY <1>1
      <4>5. hie'[j].id = stack'[m].id /\ hie'[j].depth = m - 1
        BY <1>2, <1>3, <3>1, <4>1 DEF RowOf
      <4> QED
        BY <1>3, <4>3, <4>4, <4>5 DEF RowOf
    <3>2. CASE m = n + 1
      <4>1. r + 1 \in 1..r + 1 /\ n = m - 1 /\ \A k \in 1..r + 1 : ~(k > r + 1)
        BY <1>1, <3>2
      <4> QED
        BY <1>2, <1>3, <3>2, <4>1 DEF RowOf
    <3> QED
      BY <1>9, <3>1, <3>2
  <2>2. \A m \in 1..n + 1 : (stack[m].todo \subseteq Children({stack[m].id}))'
    <3>1. \A m \in 1..n : stack[m].todo \subseteq Children({stack[m].id})
      BY <1>4 DEF Chain, n
    <3>2. ASSUME NEW m \in 1..n
          PROVE  stack'[m].todo \subseteq Children({stack[m].id})
      BY <1>2, <3>1
    <3> QED
      BY <1>1, <1>2, <1>9, <3>2 DEF Children
  <2>3. ASSUME NEW k \in 2..r + 1
        PROVE  \E j \in 1..k - 1 :
                  StandsBelow(k, j)' /\ hie'[k].id \in DOMAIN par' /\ par'[hie'[k].id] = hie'[j].id
    <3>1. CASE k # r + 1
      <4>0. k \in 2..r /\ k \in 1..r
        BY <1>1, <3>1
      <4>1. PICK j \in 1..k - 1 :
              StandsBelow(k, j) /\ hie[k].id \in DOMAIN par /\ par[hie[k].id] = hie[j].id
        BY <1>4, <4>0 DEF Chain, r
      <4>2. j \in 1..r /\ j + 1..k - 1 \subseteq 1..r
        BY <1>1, <4>0
      <4>3. hie'[k] = hie[k] /\ hie'[j] = hie[j] /\ \A m \in j + 1..k - 1 : hie'[m] = hie[m]
        BY <1>3, <4>0, <4>2
      <4> QED
        BY <1>1, <4>1, <4>3 DEF StandsBelow
    <3>2. CASE k = r + 1
      <4>1. PICK j \in 1..r : RowOf(n, j)
        BY <1>1, <1>4 DEF Chain, n
      <4>2. hie[j].id = stack[n].id /\ hie[j].depth = n - 1
        BY <4>1 DEF RowOf
      <4>3. ASSUME NEW m \in j + 1..k - 1
            PROVE  hie'[m].depth > hie'[j].depth
        <5>1. m \in 1..r /\ m > j
          BY <1>1, <3>2
        <5>2. hie[m].depth >= n
          BY <1>1, <4>1, <5>1 DEF RowOf
        <5>3. hie[m].depth \in Nat
          BY <5>1, Places DEF r
        <5> QED
          BY <1>1, <1>3, <4>2, <5>1, <5>2, <5>3
      <4>4. hie'[k].depth = hie'[j].depth + 1
        BY <1>1, <1>3, <3>2, <4>2
      <4>5. j \in 1..k - 1 /\ hie'[k].id = x /\ hie'[j].id = stack[n].id
        BY <1>1, <1>3, <3>2, <4>2
      <4> QED
        BY <1>1, <1>7, <4>3, <4>4, <4>5 DEF StandsBelow
    <3> QED
      BY <3>1, <3>2
  <2>4. hie'[1].id = arg' /\ hie'[1].depth = 0 /\ stack'[1].id = arg'
    <3>1. 1 \in 1..r /\ 1 \in 1..n
      BY <1>1, <1>8
    <3> QED
      BY <1>1, <1>2, <1>3, <1>4, <3>1 DEF Chain
  <2>5. Listed' \subseteq Descendants(arg)'
    <3>1. stack[n].id \in Descendants(arg)
      BY <1>1, <1>4, OpenListed DEF n
    <3>2. x \in Descendants(arg)
      BY <1>7, <3>1, ChildBelow DEF TypeOK
    <3> QED
      BY <1>1, <1>4, <1>6, <3>2, SameTable DEF Chain
  <2>6. Top'.todo = {} /\ hie'[Len(hie')].id = Top'.id
    BY <1>2, <1>3 DEF Top
  <2> QED
    BY <1>2, <1>3, <2>1, <2>2, <2>3, <2>4, <2>5, <2>6 DEF Chain
<1>11. NoCycle(arg)' => Once'
  <2> SUFFICES ASSUME NoCycle(arg)
               PROVE  Once'
    BY <1>1, SameTable
  <2>1. Once
    BY <1>4
  <2>2. x \notin Listed
    BY <1>1, <2>1 DEF Once, n
  <2>3. \A k \in 1..r : hie[k].id # x
    BY <1>1, <2>2 DEF Listed
  <2>4. \A m \in 1..n : stack[m].id # x
    BY <1>4, <2>2, OpenListed DEF n
  <2>5. ASSUME NEW j \in 1..r + 1, NEW k \in 1..r + 1, hie'[j].id = hie'[k].id
        PROVE  j = k
    <3>1. \A i \in 1..r + 1 : i \in 1..r \/ i = r + 1
      BY <1>1
    <3> QED
      BY <1>1, <1>3, <2>1, <2>3, <2>5, <3>1 DEF Once
  <2>6. ASSUME NEW l \in 1..n + 1, NEW m \in 1..n + 1, stack'[l].id = stack'[m].id
        PROVE  l = m
    BY <1>2, <1>9, <2>1, <2>4, <2>6 DEF Once, n
  <2>7. ASSUME NEW m \in 1..n + 1
        PROVE  stack'[m].todo \cap Listed' = {}
    <3>1. CASE m = n + 1
      BY <1>2, <3>1
    <3>2. CASE m = n
      BY <1>1, <1>2, <1>6, <2>1, <3>2 DEF Once, n
    <3>3. CASE m \in 1..n /\ m # n
      <4>1. stack'[m].todo = stack[m].todo /\ stack[m].todo \cap Listed = {}
        BY <1>2, <2>1, <3>3 DEF Once, n
      <4>2. x \notin stack[m].todo
        <5>1. stack[m].id # stack[n].id
          BY <1>1, <2>1, <3>3 DEF Once, n
        <5>2. stack[m].todo \subseteq Children({stack[m].id})
          BY <1>4, <3>3 DEF Chain, n
        <5> QED
          BY <1>7, <5>1, <5>2 DEF Children
      <4> QED
        BY <1>6, <4>1, <4>2
    <3> QED
      BY <1>9, <3>1, <3>2, <3>3
  <2> QED
    BY <1>2, <1>3, <2>5, <2>6, <2>7 DEF Once
<1>12. Returned(D)'
  <2>1. Closed(D)' /\ \A y \in D : NoCycle(y)'
    BY <1>1, <1>5, SameTable DEF Returned
  <2>2. ASSUME NEW m \in 1..n, NEW y \in Children({stack[m].id})'
        PROVE  y \in D \/ y \in stack'[m].todo \/ y = stack'[m + 1].id
    <3>1. y \in Children({stack[m].id})
      BY <1>1, <1>2, <2>2 DEF Children
    <3>2. CASE m = n
      BY <1>1, <1>2, <1>5, <3>1, <3>2 DEF Returned, n
    <3>3. CASE m # n
      <4>1. m < n /\ m + 1 \in 1..n
        BY <1>1, <3>3
      <4> QED
        BY <1>1, <1>2, <1>5, <3>1, <3>3, <4>1 DEF Returned, n
    <3> QED
      BY <3>2, <3>3
  <2>3. \A m \in 1..n + 1 : m < n + 1 => m \in 1..n
    BY <1>1
  <2> QED
    BY <1>1, <1>2, <2>1, <2>2, <2>3 DEF Returned
<1>13. D \in SUBSET Listed'
  BY <1>6
<1> QED
  BY <1>10, <1>11, <1>12, <1>13

(* When a call returns its node is added to D: its children are all there. *)
LEMMA ReturnedOne ==
    ASSUME TypeOK, Chain, pc = "fetch", Top.todo = {}, stack # <<>>,
           NEW D \in SUBSET Listed, Returned(D)
    PROVE  /\ D \cup {Top.id} \subseteq Listed
           /\ Closed(D \cup {Top.id}) /\ \A x \in D \cup {Top.id} : NoCycle(x)
<1> DEFINE t == Top.id
           E == D \cup {t}
<1>1. Len(stack) \in Nat /\ Len(stack) \in 1..Len(stack) /\ ~(Len(stack) < Len(stack))
  <2>1. Len(stack) \in Nat /\ Len(stack) >= 1
    BY Last DEF TypeOK
  <2> QED
    BY <2>1
<1>2. t \in Listed /\ t \in Ids /\ Listed \in SUBSET Ids
  <2>1. t \in Listed /\ t \in Ids
    BY <1>1, OpenListed DEF Top
  <2> QED
    BY <2>1, Places DEF Listed
<1>3. Children({t}) \subseteq D
  BY <1>1 DEF Returned, Top
<1>4. Children(E) \subseteq D
  BY <1>3 DEF Returned, Closed, Children
<1>5. Descendants(t) \subseteq E
  BY <1>2, <1>4, BelowLeast DEF Closed
<1>6. NoCycle(t)
  <2> SUFFICES ASSUME t \in DOMAIN par, par[t] \in Descendants(t)
               PROVE  FALSE
    BY DEF NoCycle
  <2>1. t \in Children(E)
    BY <1>5 DEF Children
  <2>2. NoCycle(t)
    BY <1>4, <2>1 DEF Returned
  <2> QED
    BY <2>2 DEF NoCycle
<1> QED
  BY <1>2, <1>4, <1>6 DEF Returned, Closed

LEMMA ProcReturn ==
    ASSUME TypeOK, ProcInv, FetchEnd, Len(stack) # 1
    PROVE  ProcInv'
<1> SUFFICES ASSUME quiet
             PROVE  (Chain /\ (NoCycle(arg) => Once) /\ \E D \in SUBSET Listed : Returned(D))'
  BY DEF ProcInv, FetchEnd
<1> DEFINE n == Len(stack)
<1>1. /\ pc = "fetch" /\ pc' = "fetch" /\ par' = par /\ arg' = arg /\ hie' = hie
      /\ stack # <<>> /\ Top.todo = {} /\ stack' = SubSeq(stack, 1, n - 1)
  BY DEF FetchEnd, TypeOK
<1>2. n \in Nat /\ n >= 2 /\ n \in 1..n /\ n - 1 \in 1..n /\ 1 \in 1..n - 1 /\ stack \in Seq(Frames)
  <2>1. n \in Nat /\ n >= 1 /\ n # 1 /\ stack \in Seq(Frames)
    BY <1>1, Last DEF TypeOK
  <2> HIDE DEF n
  <2> QED
    BY <2>1
<1>3. Len(stack') = n - 1 /\ \A m \in 1..n - 1 : stack'[m] = stack[m] /\ m \in 1..n
  <2> HIDE DEF n
  <2>1. \A k \in 1..n - 1 : stack[k] \in Frames
    BY <1>2, ElementOfSeq DEF n
  <2>2. 1 \in Int /\ n - 1 \in Int /\ (IF 1 <= n - 1 THEN n - 1 - 1 + 1 ELSE 0) = n - 1
    BY <1>2
  <2>3. /\ Len(SubSeq(stack, 1, n - 1)) = n - 1
        /\ \A m \in 1..n - 1 : SubSeq(stack, 1, n - 1)[m] = stack[1 + m - 1]
    BY <1>2, <2>1, <2>2, SubSeqProperties DEF n
  <2>4. \A m \in 1..n - 1 : 1 + m - 1 = m /\ m \in 1..n
    BY <1>2
  <2> QED
    BY <1>1, <2>3, <2>4
<1>4. Chain /\ (NoCycle(arg) => Once)
  BY <1>1 DEF ProcInv
<1>5. PICK D \in SUBSET Listed : Returned(D)
  BY <1>1 DEF ProcInv
<1>6. Listed' = Listed
  BY <1>1 DEF Listed
<1>7. PICK E \in SUBSET Listed :
         E = D \cup {stack[n].id} /\ Closed(E) /\ \A x \in E : NoCycle(x)
  BY <1>1, <1>4, <1>5, ReturnedOne DEF Top
<1> HIDE DEF n
<1>8. Chain'
  <2>1. ASSUME NEW m \in 1..n - 1 PROVE \E j \in DOMAIN hie' : RowOf(m, j)'
    <3>1. m \in 1..Len(stack)
      BY <1>3 DEF n
    <3>2. PICK j \in DOMAIN hie : RowOf(m, j)
      BY <1>4, <3>1 DEF Chain
    <3>3. j \in DOMAIN hie' /\ RowOf(m, j)'
      BY <1>1, <1>3, <3>2 DEF RowOf
    <3> QED
      BY <3>3
  <2>2. \A m \in 1..n - 1 : (stack[m].todo \subseteq Children({stack[m].id}))'
    BY <1>1, <1>3, <1>4 DEF Chain, Children, n
  <2>3. \A k \in 2..Len(hie) : \E j \in 1..k - 1 :
          StandsBelow(k, j)' /\ hie'[k].id \in DOMAIN par' /\ par'[hie'[k].id] = hie'[j].id
    BY <1>1, <1>4 DEF Chain, StandsBelow
  <2>4. stack'[1].id = arg' /\ hie' # <<>> /\ hie'[1].id = arg' /\ hie'[1].depth = 0
    BY <1>1, <1>2, <1>3, <1>4 DEF Chain
  <2>5. Listed' \subseteq Descendants(arg)'
    BY <1>1, <1>4, <1>6, SameTable DEF Chain
  <2>6. DOMAIN hie' = DOMAIN hie /\ Len(hie') = Len(hie) /\ pc' # "open"
    BY <1>1
  <2> QED
    BY <1>3, <2>1, <2>2, <2>3, <2>4, <2>5, <2>6 DEF Chain
<1>9. NoCycle(arg)' => Once'
  <2> SUFFICES ASSUME Once
               PROVE  Once'
    BY <1>1, <1>4, SameTable
  <2>1. \A m \in 1..n - 1 : stack'[m].todo \cap Listed = {}
    BY <1>3 DEF Once, n
  <2>2. \A l, m \in 1..n - 1 : stack'[l].id = stack'[m].id => l = m
    BY <1>3 DEF Once, n
  <2>3. \A j, k \in DOMAIN hie' : hie'[j].id = hie'[k].id => j = k
    BY <1>1 DEF Once
  <2> QED
    BY <1>3, <1>6, <2>1, <2>2, <2>3 DEF Once
<1>10. Returned(E)'
  <2>1. Closed(E)' /\ \A x \in E : NoCycle(x)'
    BY <1>1, <1>7, SameTable
  <2>2. ASSUME NEW m \in 1..n - 1, NEW x \in Children({stack[m].id})'
        PROVE  x \in E \/ x \in stack'[m].todo \/ (m < n - 1 /\ x = stack'[m + 1].id)
    <3>1. x \in Children({stack[m].id})
      BY <1>1, <1>3, <2>2 DEF Children
    <3>2. x \in D \/ x \in stack[m].todo \/ x = stack[m + 1].id
      BY <1>1, <1>3, <1>5, <3>1 DEF Returned, n
    <3>3. CASE x = stack[m + 1].id
      <4>1. m + 1 = n \/ (m < n - 1 /\ m + 1 \in 1..n - 1)
        BY <1>2
      <4> QED
        BY <1>3, <1>7, <3>3, <4>1
    <3> QED
      BY <1>3, <1>7, <3>2, <3>3
  <2> QED
    BY <1>3, <2>1, <2>2 DEF Returned
<1> QED
  BY <1>6, <1>7, <1>8, <1>9, <1>10

(* When the first call returns, root_id is in D.                           *)
LEMMA ProcWhole ==
    ASSUME TypeOK, ProcInv, FetchEnd, Len(stack) = 1
    PROVE  WholeInv'
<1> SUFFICES ASSUME quiet
             PROVE  Whole'
  BY DEF WholeInv, FetchEnd
<1>1. /\ pc = "fetch" /\ par' = par /\ arg' = arg /\ hie' = hie /\ stack # <<>> /\ Top.todo = {}
  BY DEF FetchEnd, TypeOK
<1>2. Chain /\ (NoCycle(arg) => Once)
  BY <1>1 DEF ProcInv
<1>3. PICK D \in SUBSET Listed : Returned(D)
  BY <1>1 DEF ProcInv
<1>4. Top.id = arg /\ arg \in Ids
  BY <1>2 DEF Chain, Top, TypeOK
<1>5. D \cup {arg} \subseteq Listed /\ Closed(D \cup {arg}) /\ NoCycle(arg)
  BY <1>1, <1>2, <1>3, <1>4, ReturnedOne
<1>6. Listed = Descendants(arg)
  <2>1. Listed \in SUBSET Ids
    BY Places DEF Listed
  <2>2. Descendants(arg) \subseteq D \cup {arg}
    BY <1>4, <1>5, <2>1, BelowLeast
  <2> QED
    BY <1>2, <1>5, <2>2 DEF Chain
<1>7. hie[1] = [id |-> arg, depth |-> 0]
  <2>1. hie[1] \in [id : Ids, depth : 0..MaxDepth]
    <3>1. hie \in Seq([id : Ids, depth : 0..MaxDepth]) /\ hie # <<>>
      BY <1>2 DEF Chain, TypeOK
    <3>2. 1 \in 1..Len(hie)
      BY <3>1, Last
    <3> QED
      BY <3>1, <3>2, ElementOfSeq
  <2> QED
    BY <1>2, <2>1 DEF Chain
<1>8. \A j, k \in DOMAIN hie : hie[j].id = hie[k].id => j = k
  BY <1>2, <1>5 DEF Once
<1>9. \A k \in 2..Len(hie) : \E j \in 1..k - 1 :
        StandsBelow(k, j) /\ hie[k].id \in DOMAIN par /\ par[hie[k].id] = hie[j].id
  BY <1>2 DEF Chain
<1>10. /\ Listed' = Listed /\ Descendants(arg)' = Descendants(arg)
       /\ \A j, k : StandsBelow(k, j)' = StandsBelow(k, j)
  BY <1>1, SameTable DEF Listed, StandsBelow
<1> QED
  BY <1>1, <1>2, <1>6, <1>7, <1>8, <1>9, <1>10 DEF Whole, Chain

(* The join drops no row but that of root_id.                              *)
LEMMA ProcSelects ==
    ASSUME TypeOK, Whole, Select
    PROVE  ProcExact'
<1>1. /\ par' = par /\ arg' = arg /\ hie' = hie /\ DOMAIN hie = 1..Len(hie) /\ Len(hie) \in Nat
      /\ DOMAIN rows' = {m \in DOMAIN hie : hie[m].id \in DOMAIN par}
      /\ \A k \in DOMAIN rows' : rows'[k] = par[hie[k].id]
  BY Places DEF Select
<1>2. /\ Descendants(arg)' = Descendants(arg)
      /\ \A j, k : StandsBelow(k, j)' = StandsBelow(k, j)
  BY <1>1, SameTable DEF StandsBelow
<1>3. Selected' = Descendants(arg) \cap DOMAIN par
  <2>1. Selected' = {hie[k].id : k \in {m \in DOMAIN hie : hie[m].id \in DOMAIN par}}
    BY <1>1 DEF Selected
  <2>2. Selected' = Listed \cap DOMAIN par
    BY <2>1 DEF Listed
  <2> QED
    BY <2>2 DEF Whole
<1>4. \A j, k \in DOMAIN rows' : hie[j].id = hie[k].id => j = k
  BY <1>1 DEF Whole
<1>5. ASSUME NEW k \in DOMAIN rows', k # 1
      PROVE  \E j \in 1..k - 1 :
                /\ StandsBelow(k, j) /\ rows'[k] = hie[j].id
                /\ j \in DOMAIN rows' \/ (j = 1 /\ arg \notin DOMAIN par)
  <2>1. k \in 2..Len(hie)
    BY <1>1, <1>5
  <2>2. PICK j \in 1..k - 1 : StandsBelow(k, j) /\ par[hie[k].id] = hie[j].id
    BY <2>1 DEF Whole
  <2>3. j \in DOMAIN hie /\ (j # 1 => j \in 2..Len(hie))
    BY <1>1, <2>1
  <2>4. j \in DOMAIN rows' \/ (j = 1 /\ arg \notin DOMAIN par)
    BY <1>1, <2>3 DEF Whole
  <2> QED
    BY <1>1, <2>2, <2>4
<1>6. 1 \in DOMAIN rows' => hie[1] = [id |-> arg, depth |-> 0]
  BY DEF Whole
<1> QED
  BY <1>1, <1>2, <1>3, <1>4, <1>5, <1>6 DEF ProcExact

LEMMA ProcInit == Init => ProcInv /\ WholeInv /\ ProcExact
  BY DEF Init, ProcInv, WholeInv, ProcExact

LEMMA ProcStep ==
    TypeOK /\ ProcInv /\ WholeInv /\ ProcExact /\ [Next]_vars =>
        (ProcInv /\ WholeInv /\ ProcExact)'
<1> SUFFICES ASSUME TypeOK, ProcInv, WholeInv, ProcExact, [Next]_vars
             PROVE  (ProcInv /\ WholeInv /\ ProcExact)'
  OBVIOUS
<1>1. CASE CallProc
  <2>1. pc' = "open"
    BY <1>1 DEF CallProc, Call
  <2> QED
    BY <1>1, <2>1, ProcCall DEF WholeInv, ProcExact
<1>2. CASE OpenCursor
  BY <1>2, ProcOpen DEF OpenCursor, WholeInv, ProcExact
<1>3. CASE FetchRow
  BY <1>3, ProcFetch DEF FetchRow, WholeInv, ProcExact
<1>4. CASE FetchEnd
  <2>1. CASE Len(stack) = 1
    BY <1>4, <2>1, ProcWhole DEF FetchEnd, ProcInv, ProcExact
  <2>2. CASE Len(stack) # 1
    BY <1>4, <2>2, ProcReturn DEF FetchEnd, WholeInv, ProcExact
  <2> QED
    BY <2>1, <2>2
<1>5. CASE Select
  <2>1. pc = "select" /\ pc' = "proc_done" /\ quiet' = quiet
    BY <1>5 DEF Select
  <2>2. quiet => ProcExact'
    BY <1>5, <2>1, ProcSelects DEF WholeInv
  <2> QED
    BY <2>1, <2>2 DEF ProcInv, WholeInv, ProcExact
<1>6. CASE Update
  BY <1>6 DEF Update, ProcInv, WholeInv, ProcExact
<1>7. CASE UNCHANGED vars
  <2>1. /\ par' = par /\ pc' = pc /\ arg' = arg /\ hie' = hie /\ stack' = stack
        /\ rows' = rows /\ quiet' = quiet
    BY <1>7 DEF vars, procVars
  <2>2. ProcInv' = ProcInv
    BY <2>1 DEF ProcInv, Chain, Once, Returned, RowOf, StandsBelow, NoCycle, Listed, Top,
                Descendants, Closed, Children
  <2>3. WholeInv' = WholeInv
    BY <2>1 DEF WholeInv, Whole, StandsBelow, Listed, Descendants, Closed, Children
  <2>4. ProcExact' = ProcExact
    BY <2>1 DEF ProcExact, StandsBelow, Selected, Descendants, Closed, Children
  <2> QED
    BY <2>2, <2>3, <2>4
<1>8. CASE \/ CallDown \/ CallUp \/ TooDeep
           \/ DownStep \/ DownTooLong \/ DownReturn \/ UpStep \/ UpTooLong \/ UpReturn
  <2>1. pc' \notin {"open", "fetch", "select", "proc_done"}
    BY <1>8 DEF CallDown, CallUp, Call, TooDeep, DownStep, DownTooLong, DownReturn,
                UpStep, UpTooLong, UpReturn
  <2> QED
    BY <2>1 DEF ProcInv, WholeInv, ProcExact
<1> QED
  BY <1>1, <1>2, <1>3, <1>4, <1>5, <1>6, <1>7, <1>8 DEF Next, Step

(* What the procedure selects, when nobody changed the table meanwhile, is *)
(* every node of the hierarchy below root_id that has a row, each once,    *)
(* with its depth and under its parent, in every table and to every depth  *)
(* (lines 17-28, 54-61); root_id itself only if it has a row.              *)
THEOREM ProcedureListsTheHierarchy == Spec => []ProcExact
<1>1. ProcInv /\ WholeInv /\ ProcExact => ProcExact
  OBVIOUS
<1> QED
  BY <1>1, TypesAlways, ProcInit, ProcStep, PTL DEF Spec

-----------------------------------------------------------------------------
(* A call comes nearer to its end with every statement.                    *)

(* The frames of the stack, and the sizes of their cursors.                *)
LEMMA FrameSizes ==
    ASSUME TypeOK
    PROVE  /\ Len(stack) \in 0..MaxDepth + 1 /\ Cardinality(Ids) \in Nat
           /\ \A k \in 1..Len(stack) : stack[k] \in Frames
           /\ \A k \in 1..Len(stack) : Cardinality(stack[k].todo) \in Nat
<1>1. stack \in Seq(Frames) /\ Len(stack) <= MaxDepth + 1
  BY DEF TypeOK
<1>2. \A k \in 1..Len(stack) : stack[k] \in Frames
  BY <1>1, ElementOfSeq
<1>3. \A k \in 1..Len(stack) : stack[k].todo \in SUBSET Ids
  BY <1>2 DEF Frames
<1> QED
  BY <1>1, <1>2, <1>3, LevelSize, Consts

(* The next statement begins a cursor, which holds rows of the table only, *)
LEMMA OpenAdvances ==
    ASSUME TypeOK, OpenCursor
    PROVE  \E k \in 1..MaxDepth + 1 :
              Left(k)' \in 0..Left(k) - 1 /\ \A j \in 1..k - 1 : Left(j)' = Left(j)
<1>0. PICK n \in 1..MaxDepth + 1 : n = Len(stack)
  <2>1. stack # <<>> /\ stack \in Seq(Frames)
    BY DEF OpenCursor, TypeOK
  <2> QED
    BY <2>1, FrameSizes, EmptySeq, Consts
<1>1. /\ pc = "open" /\ pc' = "fetch" /\ n \in 1..MaxDepth + 1
      /\ stack' = [stack EXCEPT ![n].todo = Children({Top.id})]
      /\ stack \in Seq(Frames)
  BY <1>0, FrameSizes, Consts DEF OpenCursor, TypeOK
<1>2. Top \in Frames /\ Children({Top.id}) \in SUBSET Ids
  BY <1>0, <1>1, FrameSizes, ChildrenIds DEF Top
<1>3. /\ Len(stack') = n /\ stack'[n].todo = Children({Top.id})
      /\ \A j \in 1..n - 1 : stack'[j] = stack[j]
  <2>1. [Top EXCEPT !.todo = Children({Top.id})] \in Frames
    BY <1>2 DEF Frames
  <2>2. stack' = [stack EXCEPT ![n] = [Top EXCEPT !.todo = Children({Top.id})]]
    BY <1>0, <1>1 DEF Top
  <2>3. n \in 1..Len(stack) /\ n \in Nat
    BY <1>0, <1>1
  <2>4. /\ Len(stack') = n /\ stack'[n] = [Top EXCEPT !.todo = Children({Top.id})]
        /\ \A j \in 1..n - 1 : stack'[j] = stack[j]
    BY <1>0, <1>1, <2>1, <2>2, <2>3, ExceptSeq
  <2> QED
    BY <1>2, <2>4 DEF Frames
<1>4. Cardinality(Children({Top.id})) \in Nat
  BY <1>2, LevelSize
<1>5. Cardinality(Children({Top.id})) <= Cardinality(Ids)
  BY <1>2, Consts, FS_Subset
<1>6. Left(n) = Cardinality(Ids) + 3
  BY <1>0, <1>1 DEF Left
<1>7. Left(n)' = Cardinality(Children({Top.id})) + 2
  BY <1>0, <1>1, <1>3 DEF Left
<1>8. \A j \in 1..n - 1 : Left(j)' = Left(j)
  BY <1>0, <1>1, <1>3 DEF Left
<1>9. Left(n)' \in 0..Left(n) - 1
  BY <1>4, <1>5, <1>6, <1>7, FrameSizes
<1> QED
  BY <1>0, <1>1, <1>8, <1>9

(* or takes a row out of the cursor on top,                                *)
LEMMA RowAdvances ==
    ASSUME TypeOK, FetchRow
    PROVE  \E k \in 1..MaxDepth + 1 :
              Left(k)' \in 0..Left(k) - 1 /\ \A j \in 1..k - 1 : Left(j)' = Left(j)
<1>0. PICK n \in 1..MaxDepth + 1 : n = Len(stack)
  <2>1. stack # <<>> /\ stack \in Seq(Frames)
    BY DEF FetchRow, TypeOK
  <2> QED
    BY <2>1, FrameSizes, EmptySeq, Consts
<1> DEFINE t(x) == [stack EXCEPT ![n].todo = @ \ {x}]
<1>1. /\ pc = "fetch" /\ pc' = "open" /\ n \in 1..MaxDepth
      /\ stack \in Seq(Frames)
  BY <1>0, FrameSizes, Consts DEF FetchRow, TypeOK
<1>2. PICK x \in Top.todo : Enter(t(x), hie, x)
  BY <1>0 DEF FetchRow
<1>3. Top \in Frames /\ Top.todo \in SUBSET Ids /\ x \in Ids
  <2>1. Top \in Frames
    BY <1>0, <1>1, FrameSizes DEF Top
  <2> QED
    BY <1>2, <2>1 DEF Frames
<1>4. /\ t(x) \in Seq(Frames) /\ Len(t(x)) = n /\ t(x)[n].todo = Top.todo \ {x}
      /\ \A j \in 1..n - 1 : t(x)[j] = stack[j]
  <2>1. [Top EXCEPT !.todo = @ \ {x}] \in Frames
    BY <1>3 DEF Frames
  <2>2. t(x) = [stack EXCEPT ![n] = [Top EXCEPT !.todo = @ \ {x}]]
    BY <1>0, <1>1 DEF Top
  <2>3. n \in 1..Len(stack) /\ n \in Nat
    BY <1>0, <1>1
  <2>4. /\ t(x) \in Seq(Frames) /\ Len(t(x)) = n
        /\ t(x)[n] = [Top EXCEPT !.todo = @ \ {x}]
        /\ \A j \in 1..n - 1 : t(x)[j] = stack[j]
    <3> HIDE DEF t
    <3>1. /\ t(x) \in Seq(Frames) /\ Len(t(x)) = Len(stack)
          /\ \A j \in 1..Len(stack) :
                t(x)[j] = IF j = n THEN [Top EXCEPT !.todo = @ \ {x}] ELSE stack[j]
      BY <1>1, <2>1, <2>2, <2>3, ExceptSeq
    <3>2. t(x)[n] = [Top EXCEPT !.todo = @ \ {x}]
      BY <2>3, <3>1
    <3>3. \A j \in 1..n - 1 : j \in 1..Len(stack) /\ j # n
      BY <1>0
    <3>4. \A j \in 1..n - 1 : t(x)[j] = stack[j]
      BY <3>1, <3>3
    <3> QED
      BY <1>0, <3>1, <3>2, <3>4
  <2> QED
    BY <1>3, <2>4 DEF Frames
<1>5. /\ Len(stack') = n + 1 /\ stack'[n].todo = Top.todo \ {x}
      /\ \A j \in 1..n - 1 : stack'[j] = stack[j]
  <2> HIDE DEF t
  <2>1. stack' = Append(t(x), [id |-> x, todo |-> {}])
    BY <1>2 DEF Enter
  <2>2. [id |-> x, todo |-> {}] \in Frames
    BY <1>3 DEF Frames
  <2>3. Len(stack') = n + 1 /\ \A j \in 1..n : stack'[j] = t(x)[j]
    BY <1>4, <2>1, <2>2, AppendProperties
  <2> QED
    BY <1>0, <1>1, <1>4, <2>3
<1>6. IsFiniteSet(Top.todo)
  BY <1>3, Consts, FS_Subset
<1>7. Cardinality(Top.todo \ {x}) = Cardinality(Top.todo) - 1 /\ Cardinality(Top.todo) \in Nat
  BY <1>2, <1>6, FS_RemoveElement, FS_CardinalityType
<1> HIDE DEF t
<1>8. Left(n) = Cardinality(Top.todo) + 2
  BY <1>0, <1>1 DEF Left, Top
<1>9. Left(n)' = Cardinality(Top.todo \ {x}) + 2
  BY <1>0, <1>1, <1>5 DEF Left
<1>10. \A j \in 1..n - 1 : Left(j)' = Left(j)
  BY <1>0, <1>1, <1>5 DEF Left
<1>11. Left(n)' \in 0..Left(n) - 1
  BY <1>7, <1>8, <1>9
<1>12. n \in 1..MaxDepth + 1
  BY <1>0, <1>1, Consts
<1> QED
  BY <1>10, <1>11, <1>12

(* or returns from the call on top,                                        *)
LEMMA ReturnAdvances ==
    ASSUME TypeOK, FetchEnd
    PROVE  \E k \in 1..MaxDepth + 1 :
              Left(k)' \in 0..Left(k) - 1 /\ \A j \in 1..k - 1 : Left(j)' = Left(j)
<1>0. PICK n \in 1..MaxDepth + 1 : n = Len(stack)
  <2>1. stack # <<>> /\ stack \in Seq(Frames)
    BY DEF FetchEnd, TypeOK
  <2> QED
    BY <2>1, FrameSizes, EmptySeq, Consts
<1>1. /\ pc = "fetch" /\ pc' = (IF n = 1 THEN "select" ELSE "fetch")
      /\ n \in 1..MaxDepth + 1 /\ stack' = SubSeq(stack, 1, n - 1)
      /\ stack \in Seq(Frames)
  BY <1>0, FrameSizes, Consts DEF FetchEnd, TypeOK
<1>2. Len(stack') = n - 1 /\ \A j \in 1..n - 1 : stack'[j] = stack[j]
  BY <1>0, <1>1
<1>3. Left(n)' \in {0, 1}
  BY <1>0, <1>1, <1>2 DEF Left
<1>4. Left(n) \in Nat /\ Left(n) > 1
  <2>1. Left(n) = Cardinality(stack[n].todo) + 2
    BY <1>0, <1>1 DEF Left
  <2>2. Cardinality(stack[n].todo) \in Nat
    BY <1>0, <1>1, FrameSizes
  <2> QED
    BY <2>1, <2>2
<1>5. \A j \in 1..n - 1 : Left(j)' = Left(j)
  <2> SUFFICES ASSUME NEW j \in 1..n - 1 PROVE Left(j)' = Left(j)
    OBVIOUS
  <2>1. j \in 1..Len(stack) /\ j \in 1..Len(stack') /\ n # 1 /\ stack'[j] = stack[j]
    BY <1>0, <1>2
  <2>2. pc = "fetch" /\ pc' = "fetch"
    BY <1>1, <2>1
  <2>3. Left(j) = Cardinality(stack[j].todo) + 2
    BY <2>1, <2>2 DEF Left
  <2>4. Left(j)' = Cardinality(stack'[j].todo) + 2
    BY <2>1, <2>2 DEF Left
  <2> QED
    BY <2>1, <2>3, <2>4
<1> QED
  BY <1>0, <1>1, <1>3, <1>4, <1>5

(* or ends them all at the limit; after the last one there is the SELECT;  *)
(* and a turn of a function makes the string longer, or ends the call.     *)
LEMMA OthersAdvance ==
    ASSUME TypeOK, TypeOK',
           \/ TooDeep \/ Select \/ DownStep \/ DownTooLong \/ DownReturn
           \/ UpStep \/ UpTooLong \/ UpReturn
    PROVE  \E k \in 1..MaxDepth + 1 :
              Left(k)' \in 0..Left(k) - 1 /\ \A j \in 1..k - 1 : Left(j)' = Left(j)
<1>1. 1 \in 1..MaxDepth + 1 /\ \A j : j \notin 1..1 - 1
  BY Consts
<1> SUFFICES Left(1)' \in 0..Left(1) - 1
  BY <1>1
<1>2. held \in 0..MaxIds /\ Len(ids) \in 0..MaxIds /\ MaxIds \in Nat
  BY Consts DEF TypeOK
<1>3. pc' \in Rest => Left(1)' = 0
  BY DEF Left, Rest
<1>4. CASE TooDeep
  <2>1. pc = "fetch" /\ pc' \in Rest /\ 1 \in 1..Len(stack)
    BY <1>4, FrameSizes, Consts DEF TooDeep, Rest
  <2>2. Left(1) = Cardinality(stack[1].todo) + 2
    BY <2>1 DEF Left
  <2> QED
    BY <1>3, <2>1, <2>2, FrameSizes
<1>9. CASE Select
  BY <1>3, <1>9 DEF Select, Left, Rest
<1>5. CASE DownStep
  <2>1. Cardinality(level) \in Nat /\ Cardinality(level) > 0
    <3>1. level \in SUBSET Ids /\ level # {}
      BY <1>5 DEF DownStep, TypeOK
    <3>2. IsFiniteSet(level) /\ Cardinality(level) \in Nat
      BY <3>1, LevelSize, Consts, FS_Subset
    <3>3. Cardinality(level) # 0
      BY <3>1, <3>2, FS_EmptySet
    <3> QED
      BY <3>2, <3>3
  <2>2. Left(1) = MaxIds - held + 1 /\ Left(1)' = MaxIds - held' + 1
    BY <1>5 DEF DownStep, Left
  <2> QED
    BY <1>2, <1>5, <2>1, <2>2 DEF DownStep
<1>6. CASE DownTooLong \/ DownReturn
  BY <1>2, <1>3, <1>6 DEF DownTooLong, DownReturn, Left, Rest
<1>7. CASE UpStep
  <2>1. Len(ids') = Len(ids) + 1
    BY <1>7, InFront DEF UpStep, UpGoesOn, TypeOK
  <2>2. Left(1) = MaxIds - Len(ids) + 1 /\ Left(1)' = MaxIds - Len(ids') + 1
    BY <1>7 DEF UpStep, Left
  <2> QED
    BY <1>2, <2>1, <2>2
<1>8. CASE UpTooLong \/ UpReturn
  BY <1>2, <1>3, <1>8 DEF UpTooLong, UpReturn, Left, Rest
<1> QED
  BY <1>4, <1>5, <1>6, <1>7, <1>8, <1>9

(* Every statement leaves less before it, on every table, with cycles too, *)
(* whatever the limits are and other sessions do.                          *)
THEOREM CallComesNearer == Spec => CallAdvances
<1>1. ASSUME TypeOK, TypeOK', Step
      PROVE  \E k \in 1..MaxDepth + 1 :
                Left(k)' \in 0..Left(k) - 1 /\ \A j \in 1..k - 1 : Left(j)' = Left(j)
  BY <1>1, OpenAdvances, RowAdvances, ReturnAdvances, OthersAdvance DEF Step
<1>2. TypeOK /\ TypeOK' =>
        [Step => \E k \in 1..MaxDepth + 1 :
                    Left(k)' \in 0..Left(k) - 1 /\ \A j \in 1..k - 1 : Left(j)' = Left(j)]_vars
  BY <1>1
<1> QED
  BY <1>2, TypesAlways, PTL DEF CallAdvances

=============================================================================
