------------------------------ MODULE HieQuery ------------------------------
(***************************************************************************)
(* src/mysql/HIE QUERY.md: the stored routines that walk the hierarchy in  *)
(* the table CS_NODE.                                                      *)
(*                                                                         *)
(*   hieQueDown, the procedure (lines 10-29), with hieQueRecursive (42-64),*)
(*   a descent by recursion that fills the temporary table TEMP_HIE;       *)
(*   hieQueDown, the function (78-94), a descent level by level;           *)
(*   hieQueUp (107-127), an ascent.                                        *)
(*                                                                         *)
(* One session calls them, one after the other. Other sessions change the  *)
(* table: between any two statements of a procedure, but not under a       *)
(* function, whose statements share the snapshot of the query it is in.    *)
(***************************************************************************)
EXTENDS Naturals, Sequences, FiniteSets

CONSTANTS
    Ids,        \* the values of id and p_id
    Null,
    MaxDepth,   \* max_sp_recursion_depth, 255 (line 53)
    MaxIds,     \* how many ids VARCHAR(60000) holds
    MaxLevel,   \* how many ids GROUP_CONCAT returns, group_concat_max_len
    MaxUpdates  \* bound on the changes by other sessions

ASSUME HieAssumption ==
    /\ Ids \subseteq Nat /\ IsFiniteSet(Ids)
    /\ Null \notin Nat
    /\ {MaxDepth, MaxIds, MaxLevel, MaxUpdates} \subseteq Nat

VARIABLES
    par,     \* CS_NODE: the p_id of each row, by id
    pc,      \* the statement the session is at
    arg,     \* root_id or sub_id
    hie,     \* TEMP_HIE in the order of sno
    stack,   \* the calls of hieQueRecursive, with what is left in their cursors
    rows,    \* what the procedure selected: the p_id of each row, by sno
    levels,  \* ids of the function hieQueDown: the lists that were concatenated
    held,    \* how many ids these are
    level,   \* child_ids, {} when it is NULL
    ids,     \* ids of hieQueUp
    cur,     \* par_id
    prev,    \* temp_id
    updates, \* how often other sessions changed the table
    quiet,   \* history: not since the last call began
    cut      \* history: GROUP_CONCAT was cut short in this call

procVars == <<hie, stack, rows>>
downVars == <<levels, held, level, cut>>
upVars   == <<ids, cur, prev>>
vars     == <<par, pc, arg, procVars, downVars, upVars, updates, quiet>>

Rest   == {"ready", "proc_done", "down_done", "up_done", "failed"}
Labels == Rest \cup {"open", "fetch", "select", "down", "up"}

Tables == UNION {[S -> Ids \cup {Null}] : S \in SUBSET Ids}
Frames == [id : Ids, todo : SUBSET Ids]

Children(S) == {i \in DOMAIN par : par[i] \in S}

(* The least set that has r in it and, with a node, its children.          *)
Closed(S)      == Children(S) \subseteq S
Descendants(r) == {x \in Ids : \A S \in SUBSET Ids : r \in S /\ Closed(S) => x \in S}

(* The recursion stays within its limit; the strings are never too long.   *)
TypeOK ==
    /\ par \in Tables /\ pc \in Labels /\ arg \in Ids
    /\ hie \in Seq([id : Ids, depth : 0..MaxDepth])
    /\ stack \in Seq(Frames) /\ Len(stack) <= MaxDepth + 1
    /\ stack = <<>> <=> pc \notin {"open", "fetch"}
    /\ DOMAIN rows \subseteq DOMAIN hie
    /\ \A k \in DOMAIN rows : rows[k] \in Ids \cup {Null}
    /\ levels \in Seq(SUBSET Ids) /\ held \in 0..MaxIds /\ level \in SUBSET Ids
    /\ ids \in Seq(Ids) /\ Len(ids) <= MaxIds
    /\ cur \in Ids \cup {Null} /\ prev \in Nat
    /\ updates \in 0..MaxUpdates
    /\ quiet \in BOOLEAN /\ cut \in BOOLEAN

Init ==
    /\ par \in Tables /\ arg \in Ids
    /\ pc = "ready"
    /\ hie = <<>> /\ stack = <<>> /\ rows = <<>>
    /\ levels = <<>> /\ held = 0 /\ level = {} /\ cut = FALSE
    /\ ids = <<>> /\ cur = Null /\ prev = 0
    /\ updates = 0 /\ quiet = TRUE

(* A routine begins. The variables of the functions are local to a call,   *)
(* TEMP_HIE is not.                                                        *)
Call(label) ==
    /\ pc \in Rest
    /\ pc' = label
    /\ arg' \in Ids
    /\ quiet' = TRUE
    /\ levels' = <<>> /\ held' = 0 /\ cut' = FALSE /\ ids' = <<>>
    /\ UNCHANGED <<par, updates>>

NoDown == level' = {}
NoUp   == cur' = Null /\ prev' = 0

-----------------------------------------------------------------------------
(* The procedure.                                                          *)

(* CALL hieQueRecursive (i, depth) up to the INSERT; nothing is selected   *)
(* before the recursion has ended.                                         *)
Enter(s, h, i) ==
    /\ stack' = Append(s, [id |-> i, todo |-> {}])
    /\ hie' = Append(h, [id |-> i, depth |-> Len(s)])
    /\ rows' = <<>>

(* Seeded fault: without the DELETE.                                       *)
CallProcKeeping ==
    /\ Call("open")
    /\ Enter(<<>>, IF Len(hie) < 2 THEN hie ELSE <<>>, arg')
    /\ NoDown /\ NoUp

(* CREATE TEMPORARY TABLE, DELETE, CALL hieQueRecursive (root_id, 0).      *)
CallProc ==
    /\ Call("open")
    /\ Enter(<<>>, <<>>, arg')
    /\ NoDown /\ NoUp

Top == stack[Len(stack)]

(* OPEN curso: the rows are fixed now.                                     *)
OpenCursor ==
    /\ pc = "open"
    /\ stack' = [stack EXCEPT ![Len(stack)].todo = Children({Top.id})]
    /\ pc' = "fetch"
    /\ UNCHANGED <<par, arg, hie, rows, downVars, upVars, updates, quiet>>

(* Seeded fault: a recursion beyond the limit.                             *)
FetchUnlimited ==
    /\ pc = "fetch" /\ Len(stack) <= MaxDepth + 1
    /\ \E n \in Top.todo :
          Enter([stack EXCEPT ![Len(stack)].todo = @ \ {n}], hie, n)
    /\ pc' = "open"
    /\ UNCHANGED <<par, arg, downVars, upVars, updates, quiet>>

(* FETCH finds a row, in an order that nothing determines, and its         *)
(* children come first.                                                    *)
FetchRow ==
    /\ pc = "fetch" /\ Len(stack) <= MaxDepth
    /\ \E n \in Top.todo :
          Enter([stack EXCEPT ![Len(stack)].todo = @ \ {n}], hie, n)
    /\ pc' = "open"
    /\ UNCHANGED <<par, arg, downVars, upVars, updates, quiet>>

(* The recursion limit: the whole call fails, nothing is selected.         *)
TooDeep ==
    /\ pc = "fetch" /\ Len(stack) > MaxDepth /\ Top.todo # {}
    /\ stack' = <<>>
    /\ pc' = "failed"
    /\ UNCHANGED <<par, arg, hie, rows, downVars, upVars, updates, quiet>>

(* Seeded fault: done is not local to a call.                              *)
FetchEndShared ==
    /\ pc = "fetch" /\ Top.todo = {}
    /\ stack' = [k \in 1..Len(stack) - 1 |-> [stack[k] EXCEPT !.todo = {}]]
    /\ pc' = IF Len(stack) = 1 THEN "select" ELSE "fetch"
    /\ UNCHANGED <<par, arg, hie, rows, downVars, upVars, updates, quiet>>

(* NOT FOUND, CLOSE curso, return.                                         *)
FetchEnd ==
    /\ pc = "fetch" /\ Top.todo = {}
    /\ stack' = SubSeq(stack, 1, Len(stack) - 1)
    /\ pc' = IF Len(stack) = 1 THEN "select" ELSE "fetch"
    /\ UNCHANGED <<par, arg, hie, rows, downVars, upVars, updates, quiet>>

(* The SELECT over both tables, in the order of sno: the rows of TEMP_HIE  *)
(* whose node has a row in CS_NODE when it is executed.                    *)
Select ==
    /\ pc = "select"
    /\ rows' = [k \in {m \in DOMAIN hie : hie[m].id \in DOMAIN par} |-> par[hie[k].id]]
    /\ pc' = "proc_done"
    /\ UNCHANGED <<par, arg, hie, stack, downVars, upVars, updates, quiet>>

-----------------------------------------------------------------------------
(* The function hieQueDown.                                                *)

CallDown ==
    /\ Call("down")
    /\ level' = {arg'}
    /\ NoUp /\ UNCHANGED procVars

(* The ids whose text begins the text of i.                                *)
Stubs(i) == {i \div (10 ^ k) : k \in 1..9} \ {0}

(* GROUP_CONCAT(id) for the rows S. A list that is too long is cut, and    *)
(* perhaps in the middle of an id.                                         *)
GroupConcat(S) ==
    IF Cardinality(S) <= MaxLevel THEN level' = S /\ cut' = cut
    ELSE /\ \E T \in SUBSET S :
              /\ Cardinality(T) = MaxLevel
              /\ \E stub \in {{}} \cup {{x} : x \in Ids \cap UNION {Stubs(i) : i \in S \ T}} :
                    level' = T \cup stub
         /\ cut' = TRUE

(* Seeded fault: the SELECT before the CONCAT.                             *)
DownStepBehind ==
    /\ pc = "down" /\ level # {} /\ held + Cardinality(level) <= MaxIds
    /\ held' = held + Cardinality(level)
    /\ GroupConcat(Children(level))
    /\ levels' = Append(levels, level')
    /\ UNCHANGED <<par, pc, arg, procVars, upVars, updates, quiet>>

(* One turn of the loop.                                                   *)
DownStep ==
    /\ pc = "down" /\ level # {} /\ held + Cardinality(level) <= MaxIds
    /\ levels' = Append(levels, level)
    /\ held' = held + Cardinality(level)
    /\ GroupConcat(Children(level))
    /\ UNCHANGED <<par, pc, arg, procVars, upVars, updates, quiet>>

(* ids is too long for its type: an error in strict mode.                  *)
DownTooLong ==
    /\ pc = "down" /\ held + Cardinality(level) > MaxIds
    /\ pc' = "failed"
    /\ UNCHANGED <<par, arg, procVars, downVars, upVars, updates, quiet>>

DownReturn ==
    /\ pc = "down" /\ level = {}
    /\ pc' = "down_done"
    /\ UNCHANGED <<par, arg, procVars, downVars, upVars, updates, quiet>>

-----------------------------------------------------------------------------
(* hieQueUp.                                                               *)

(* temp_id begins as some other id.                                        *)
CallUp ==
    /\ Call("up")
    /\ cur' = arg' /\ prev' = arg' + 1
    /\ NoDown /\ UNCHANGED procVars

(* Comparison with NULL does not hold.                                     *)
UpGoesOn == cur # Null /\ prev # cur

(* Seeded fault: the ids in the order of the ascent.                       *)
UpStepBehind ==
    /\ pc = "up" /\ UpGoesOn /\ Len(ids) < MaxIds
    /\ prev' = cur
    /\ ids' = Append(ids, cur)
    /\ cur' = IF cur \in DOMAIN par THEN par[cur] ELSE cur
    /\ UNCHANGED <<par, pc, arg, procVars, downVars, updates, quiet>>

(* One turn of the loop. A SELECT ... INTO without a row leaves par_id.    *)
UpStep ==
    /\ pc = "up" /\ UpGoesOn /\ Len(ids) < MaxIds
    /\ prev' = cur
    /\ ids' = <<cur>> \o ids
    /\ cur' = IF cur \in DOMAIN par THEN par[cur] ELSE cur
    /\ UNCHANGED <<par, pc, arg, procVars, downVars, updates, quiet>>

(* Seeded fault: outside strict mode ids is cut, and the loop goes on.     *)
UpTooLongCut ==
    /\ pc = "up" /\ UpGoesOn /\ Len(ids) >= MaxIds
    /\ prev' = cur
    /\ cur' = IF cur \in DOMAIN par THEN par[cur] ELSE cur
    /\ UNCHANGED <<par, pc, arg, ids, procVars, downVars, updates, quiet>>

UpTooLong ==
    /\ pc = "up" /\ UpGoesOn /\ Len(ids) >= MaxIds
    /\ pc' = "failed"
    /\ UNCHANGED <<par, arg, procVars, downVars, upVars, updates, quiet>>

UpReturn ==
    /\ pc = "up" /\ ~UpGoesOn
    /\ pc' = "up_done"
    /\ UNCHANGED <<par, arg, procVars, downVars, upVars, updates, quiet>>

-----------------------------------------------------------------------------
(* Another session inserts, moves or deletes a node.                       *)
Update ==
    /\ pc \notin {"down", "up"} /\ updates < MaxUpdates
    /\ \E i \in Ids, p \in Ids \cup {Null} :
          par' \in {[j \in DOMAIN par \cup {i} |-> IF j = i THEN p ELSE par[j]],
                    [j \in DOMAIN par \ {i} |-> par[j]]}
    /\ updates' = updates + 1
    /\ quiet' = FALSE
    /\ UNCHANGED <<pc, arg, procVars, downVars, upVars>>

Step ==
    \/ OpenCursor \/ FetchRow \/ TooDeep \/ FetchEnd \/ Select
    \/ DownStep \/ DownTooLong \/ DownReturn
    \/ UpStep \/ UpTooLong \/ UpReturn

Next == CallProc \/ CallDown \/ CallUp \/ Step \/ Update

(* The server executes the statements of a routine.                        *)
Spec == Init /\ [][Next]_vars /\ WF_vars(Step)

-----------------------------------------------------------------------------
(* Properties.                                                             *)

Listed   == {hie[k].id : k \in DOMAIN hie}
Selected == {hie[k].id : k \in DOMAIN rows}

(* The row k stands below the last row before it that is less deep.        *)
StandsBelow(k, j) ==
    /\ hie[k].depth = hie[j].depth + 1
    /\ \A m \in j+1..k-1 : hie[m].depth > hie[j].depth

(* What the procedure selects, when nobody changed the table meanwhile, is *)
(* every node of the hierarchy below root_id that has a row, each once,    *)
(* with its depth, and under its parent, which is selected too. A root_id  *)
(* without a row of its own is not selected, what is below it is. A        *)
(* recursion that is too deep selects nothing (lines 17-28, 54-61).        *)
ProcExact ==
    pc = "proc_done" /\ quiet =>
        /\ Selected = Descendants(arg) \cap DOMAIN par
        /\ \A j, k \in DOMAIN rows : hie[j].id = hie[k].id => j = k
        /\ \A k \in DOMAIN rows :
              IF k = 1 THEN hie[k] = [id |-> arg, depth |-> 0]
              ELSE \E j \in 1..k-1 :
                      /\ StandsBelow(k, j) /\ rows[k] = hie[j].id
                      /\ j \in DOMAIN rows \/ (j = 1 /\ arg \notin DOMAIN par)

(* TEMP_HIE is one tree in depth-first order, root_id alone at the top,    *)
(* even while other sessions move the nodes about (lines 17-20, 54-61).    *)
ProcShape ==
    \A k \in DOMAIN hie :
        IF k = 1 THEN hie[k].depth = 0 ELSE hie[k].depth \in 1..hie[k - 1].depth + 1

(* What the function hieQueDown returns is root_id and all that is below   *)
(* it, no id twice, parents first, unless a level was too long for         *)
(* GROUP_CONCAT (lines 84-93).                                             *)
DownExact ==
    pc = "down_done" /\ quiet /\ ~cut =>
        /\ UNION {levels[k] : k \in DOMAIN levels} = Descendants(arg)
        /\ \A j, k \in DOMAIN levels : j # k => levels[j] \cap levels[k] = {}
        /\ levels[1] = {arg}
        /\ \A k \in 2..Len(levels) : levels[k] = Children(levels[k - 1])

(* hieQueUp returns the path to sub_id, from the top: all ids that sub_id  *)
(* is below, whichever way the table marks its roots (p_id NULL, the node  *)
(* itself, or an id without a row; lines 115-124).                         *)
UpExact ==
    pc = "up_done" /\ quiet =>
        /\ {ids[k] : k \in DOMAIN ids} = {r \in Ids : arg \in Descendants(r)}
        /\ ids # <<>> /\ ids[Len(ids)] = arg
        /\ \A k \in 2..Len(ids) : ids[k] \in DOMAIN par /\ par[ids[k]] = ids[k - 1]

(* What a call has before it at most: of each call of hieQueRecursive that *)
(* is open the rows in its cursor and its return, the outermost first, and *)
(* the SELECT; of the functions the ids that the string still takes.       *)
Left(k) ==
    CASE pc = "open" /\ k = Len(stack) -> Cardinality(Ids) + 3
      [] \/ pc = "open" /\ k \in 1..Len(stack) - 1
         \/ pc = "fetch" /\ k \in 1..Len(stack) -> Cardinality(stack[k].todo) + 2
      [] pc = "select" /\ k = 1 -> 1
      [] pc = "down" /\ k = 1 -> MaxIds - held + 1
      [] pc = "up" /\ k = 1 -> MaxIds - Len(ids) + 1
      [] OTHER -> 0

(* Every statement of a routine leaves less before it, in the order of the *)
(* dictionary, on a table with cycles too and whatever other sessions do   *)
(* to it: a cursor holds its rows, the recursion limit and the length of   *)
(* the strings bound the rest (lines 53-61, 80-91, 109-124).               *)
CallAdvances ==
    [][Step => \E k \in 1..MaxDepth + 1 :
                  Left(k)' \in 0..Left(k) - 1 /\ \A j \in 1..k - 1 : Left(j)' = Left(j)]_vars

(* Every call ends, on a table with cycles too: the recursion limit and    *)
(* the length of the strings end what the loops do not (lines 53, 80-86,   *)
(* 109-118).                                                               *)
CallEnds == pc \notin Rest ~> pc \in Rest
=============================================================================
