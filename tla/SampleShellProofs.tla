------------------------- MODULE SampleShellProofs -------------------------
(***************************************************************************)
(* Proofs about SampleShell: its type invariant, that programs outside the *)
(* stack are spared, that one operator's script implements StackBook, and  *)
(* that a script comes nearer to its end.                                  *)
(***************************************************************************)
EXTENDS SampleShell, FiniteSetTheorems, SequenceTheorems, TLAPS

(* What TypeOK needs to be inductive: a process that is still starting was *)
(* launched as a service, so that it binds the port of one.                *)
TypeInv ==
    /\ TypeOK
    /\ \A p \in Pids : stat[p] = "boot" => role[p] \in Services

(* The lines that echo appends are a sequence of the numbers it was given. *)
LEMMA LinesType ==
    ASSUME NEW S \in SUBSET Pids, NEW q \in Lines(S)
    PROVE  /\ q \in Seq(Pids)
           /\ \A i \in 1..Len(q) : q[i] \in S
<1>1. Cardinality(S) \in Nat
  BY FS_Subset, FS_CardinalityType, ConstantsAssumption
<1>2. q \in [1..Cardinality(S) -> S]
  BY DEF Lines
<1>3. q \in Seq(S)
  BY <1>1, <1>2
<1> QED
  BY <1>3

(* The services are numbered from 1, and Visitor and Bystander are none.   *)
LEMMA ServiceFacts ==
    /\ 1 \in Services
    /\ Services \subseteq 0..N
    /\ Services \subseteq Roles
    /\ Visitor \in Roles /\ Visitor \notin Services
    /\ Bystander \in Roles /\ Bystander \notin Services
    /\ Visitor # Bystander
    /\ 0 \in 0..N
    /\ \A s \in Services : s # 0 /\ (s # N => s + 1 \in Services)
  BY ConstantsAssumption DEF Services, Roles, Visitor, Bystander

(* The variables of a shell whose script ends are as they were at first.   *)
LEMMA QuitType ==
    ASSUME TypeOK, NEW o \in Ops, Quit(o)
    PROVE  /\ pc' \in [Ops -> Labels]
           /\ cwd' \in [Ops -> {"top", "stack", "stale"}]
           /\ cur' \in [Ops -> Services]
           /\ count' \in [Ops -> Nat]
           /\ found' \in [Ops -> SUBSET Pids]
           /\ row' \in [Ops -> Nat \ {0}]
           /\ launched' \in [Ops -> BOOLEAN]
  BY ServiceFacts DEF TypeOK, Quit, Goto, Labels

LEMMA TypeInvInit == Init => TypeInv
<1> SUFFICES ASSUME Init PROVE TypeInv
  OBVIOUS
<1>1. pidlog \in Seq(Pids)
  BY EmptySeq DEF Init
<1>2. TypeOK
  BY <1>1, ServiceFacts DEF Init, TypeOK, Labels
<1>3. \A p \in Pids : stat[p] # "boot"
  BY DEF Init
<1> QED
  BY <1>2, <1>3 DEF TypeInv

(* Every step preserves the type invariant.                                *)
LEMMA TypeInvStep == TypeInv /\ [Next]_vars => TypeInv'
<1> SUFFICES ASSUME TypeInv, [Next]_vars PROVE TypeInv'
  OBVIOUS
<1> USE ServiceFacts, EmptySeq DEF TypeInv, TypeOK, Labels, Goto
<1>1. ASSUME NEW o \in Ops, StartAll(o) PROVE TypeInv'
  BY <1>1 DEF StartAll, procVars, diskVars
<1>2. ASSUME NEW o \in Ops, StopAll(o) PROVE TypeInv'
  BY <1>2 DEF StopAll, procVars, diskVars
<1>3. ASSUME NEW o \in Ops, Clear(o) PROVE TypeInv'
  BY <1>3 DEF Clear, Evict, procVars
<1>4. ASSUME NEW o \in Ops, Abort(o) PROVE TypeInv'
  BY <1>4, QuitType DEF Abort, procVars, diskVars
<1>5. ASSUME NEW o \in Ops, Provision(o) PROVE TypeInv'
  BY <1>5, QuitType DEF Provision, procVars, diskVars
<1>6. ASSUME NEW o \in Ops, Wipe(o) PROVE TypeInv'
  BY <1>6 DEF Wipe, Evict, procVars
<1>7. ASSUME NEW o \in Ops, Unpack(o) PROVE TypeInv'
  BY <1>7 DEF Unpack, procVars
<1>8. ASSUME NEW o \in Ops, Launch(o) PROVE TypeInv'
  <2>1. /\ pc' \in [Ops -> Labels]
        /\ count' \in [Ops -> Nat]
        /\ launched' \in [Ops -> BOOLEAN]
    BY <1>8 DEF Launch
  <2>2. CASE UNCHANGED <<stat, role>>
    BY <1>8, <2>1, <2>2 DEF Launch, diskVars
  <2>3. CASE ~UNCHANGED <<stat, role>>
    <3>1. PICK p \in Pids : /\ stat' = [stat EXCEPT ![p] = "boot"]
                            /\ role' = [role EXCEPT ![p] = cur[o]]
      BY <1>8, <2>3 DEF Launch
    <3>2. cur[o] \in Services /\ cur[o] \in Roles
      OBVIOUS
    <3> QED
      BY <1>8, <2>1, <3>1, <3>2 DEF Launch, diskVars
  <2> QED
    BY <2>2, <2>3
<1>9. ASSUME NEW o \in Ops, Probe(o) PROVE TypeInv'
  <2>1. pc' \in [Ops -> Labels]
    BY <1>9 DEF Probe
  <2>2. /\ count' \in [Ops -> Nat]
        /\ found' \in [Ops -> SUBSET Pids]
    BY <1>9 DEF Probe, Lsof
  <2> QED
    BY <1>9, <2>1, <2>2 DEF Probe, procVars, diskVars
<1>10. ASSUME NEW o \in Ops, Record(o) PROVE TypeInv'
  <2>1. pidlog' \in Seq(Pids)
    <3>1. CASE cwd[o] = "stack"
      <4>1. PICK q \in Lines(found[o]) : pidlog' = pidlog \o q
        BY <1>10, <3>1 DEF Record
      <4>2. q \in Seq(Pids)
        BY LinesType
      <4> QED
        BY <4>1, <4>2
    <3>2. CASE cwd[o] # "stack"
      BY <1>10, <3>2 DEF Record
    <3> QED
      BY <3>1, <3>2
  <2>2. cur' \in [Ops -> Services]
    <3>1. cur[o] \in Services
      OBVIOUS
    <3>2. CASE cur[o] = N
      BY <1>10, <3>2 DEF Record
    <3>3. CASE cur[o] # N
      <4>1. cur[o] + 1 \in Services
        BY <3>1, <3>3
      <4> QED
        BY <1>10, <3>3, <4>1 DEF Record
    <3> QED
      BY <3>2, <3>3
  <2> QED
    BY <1>10, <2>1, <2>2 DEF Record, procVars
<1>11. ASSUME NEW o \in Ops, GiveUp(o) PROVE TypeInv'
  BY <1>11, QuitType DEF GiveUp, Destroy, diskVars
<1>12. ASSUME NEW o \in Ops, Finish(o) PROVE TypeInv'
  BY <1>12, QuitType DEF Finish, procVars, diskVars
<1>13. ASSUME NEW o \in Ops, Signal(o) PROVE TypeInv'
  <2> DEFINE p == pidlog[row[o]]
  <2>1. CASE Running(p)
    <3>1. stat' = [stat EXCEPT ![p] = "term"]
      BY <1>13, <2>1 DEF Signal
    <3>2. row' \in [Ops -> Nat \ {0}]
      BY <1>13 DEF Signal
    <3>3. stat' \in [Pids -> {"free", "boot", "up", "term", "gone"}]
      BY <3>1
    <3>4. \A q \in Pids : stat'[q] = "boot" => stat[q] = "boot"
      BY <3>1
    <3> HIDE DEF p
    <3> QED
      BY <1>13, <3>2, <3>3, <3>4 DEF Signal, diskVars
  <2>2. CASE ~Running(p)
    <3>1. stat' = stat /\ row' \in [Ops -> Nat \ {0}]
      BY <1>13, <2>2 DEF Signal
    <3> QED
      BY <1>13, <3>1 DEF Signal, diskVars
  <2> QED
    BY <2>1, <2>2
<1>14. ASSUME NEW o \in Ops, LastLine(o) PROVE TypeInv'
  BY <1>14 DEF LastLine, procVars, diskVars
<1>15. ASSUME NEW o \in Ops, Unlog(o) PROVE TypeInv'
  BY <1>15, QuitType DEF Unlog, procVars
<1>16. ASSUME NEW p \in Pids, Bind(p) PROVE TypeInv'
  BY <1>16 DEF Bind, diskVars, shellVars
<1>17. ASSUME NEW p \in Pids, Exit(p) PROVE TypeInv'
  BY <1>17 DEF Exit, Destroy, diskVars, shellVars
<1>18. ASSUME NEW p \in Pids, Spawn(p) PROVE TypeInv'
  BY <1>18 DEF Spawn, diskVars, shellVars
<1>19. ASSUME NEW p \in Pids, NEW s \in Services, Visit(p, s) PROVE TypeInv'
  BY <1>19 DEF Visit, diskVars, shellVars
<1>20. ASSUME Reboot PROVE TypeInv'
  BY <1>20 DEF Reboot, diskVars
<1>21. ASSUME UNCHANGED vars PROVE TypeInv'
  BY <1>21 DEF vars, procVars, diskVars, shellVars
<1> QED
  BY <1>1, <1>2, <1>3, <1>4, <1>5, <1>6, <1>7, <1>8, <1>9, <1>10, <1>11, <1>12,
     <1>13, <1>14, <1>15, <1>16, <1>17, <1>18, <1>19, <1>20, <1>21
  DEF Next, Step

(* The variables keep their types, for any number of operators, processes  *)
(* and services.                                                           *)
THEOREM TypeCorrect == Spec => []TypeOK
<1>1. TypeInv => TypeOK
  BY DEF TypeInv
<1> QED
  BY <1>1, TypeInvInit, TypeInvStep, PTL DEF Spec
-----------------------------------------------------------------------------
(* Bystanders. What lsof prints is in use and has a socket on a port of    *)
(* the stack; a bystander has none, and the number of a process that was   *)
(* printed is not handed out again. The invariant follows a number from    *)
(* lsof through $pids into pid.log.                                        *)

Traced(p) == stat[p] # "free" /\ role[p] # Bystander

QuietInv ==
    /\ TypeInv
    /\ \A p \in Pids : stat[p] = "free" \/ role[p] = Bystander
                        => listen[p] = 0 /\ conn[p] = 0
    /\ \A p \in Pids : role[p] = Bystander => stat[p] \notin {"boot", "term"}
    /\ \A p \in Logged : Traced(p)
    /\ \A o \in Ops : \A p \in found[o] : Traced(p)

LEMMA QuietInvInit == Init => QuietInv
<1> SUFFICES ASSUME Init PROVE QuietInv
  OBVIOUS
<1>1. TypeInv
  BY TypeInvInit
<1>2. Logged = {}
  BY DEF Init, Logged
<1>3. \A p \in Pids : role[p] # Bystander
  BY ServiceFacts DEF Init
<1> QED
  BY <1>1, <1>2, <1>3 DEF Init, QuietInv

(* A step of a shell that logs nothing new and touches no process.         *)
LEMMA QuietKept ==
    ASSUME QuietInv, TypeInv', UNCHANGED procVars,
           pidlog' \in {<<>>, pidlog},
           \A o \in Ops : found'[o] \subseteq found[o]
    PROVE  QuietInv'
<1>1. Logged' \subseteq Logged
  BY DEF Logged
<1> QED
  BY <1>1 DEF QuietInv, Traced, procVars

(* What lsof prints for a port of the stack is in use by no bystander.     *)
LEMMA LsofTraced ==
    ASSUME QuietInv, NEW s \in Services, NEW p \in Lsof(s)
    PROVE  Traced(p)
  BY ServiceFacts DEF QuietInv, TypeInv, TypeOK, Lsof, Traced

LEMMA QuietInvStep ==
    ASSUME "reboot" \notin Events
    PROVE  QuietInv /\ [Next]_vars => QuietInv'
<1> SUFFICES ASSUME QuietInv, [Next]_vars PROVE QuietInv'
  OBVIOUS
<1>t. TypeInv'
  BY TypeInvStep DEF QuietInv
<1>u. TypeInv
  BY DEF QuietInv
<1>1. ASSUME NEW o \in Ops,
             \/ StartAll(o) \/ StopAll(o) \/ Clear(o) \/ Abort(o)
             \/ Provision(o) \/ Wipe(o) \/ Unpack(o) \/ Finish(o)
             \/ LastLine(o) \/ Unlog(o)
      PROVE  QuietInv'
  <2>1. UNCHANGED procVars
    BY <1>1 DEF StartAll, StopAll, Clear, Abort, Provision, Wipe, Unpack,
                Finish, LastLine, Unlog
  <2>2. pidlog' \in {<<>>, pidlog}
    BY <1>1 DEF StartAll, StopAll, Clear, Abort, Provision, Wipe, Unpack,
                Finish, LastLine, Unlog, diskVars
  <2>3. \/ found' = found
        \/ found' = [found EXCEPT ![o] = {}]
    BY <1>1 DEF StartAll, StopAll, Clear, Abort, Provision, Wipe, Unpack,
                Finish, LastLine, Unlog, Quit
  <2>4. \A q \in Ops : found'[q] \subseteq found[q]
    BY <2>3, <1>u DEF TypeInv, TypeOK
  <2> QED
    BY <1>t, <2>1, <2>2, <2>4, QuietKept
<1>2. ASSUME NEW o \in Ops, Launch(o) PROVE QuietInv'
  <2>1. CASE UNCHANGED <<stat, role>>
    <3>1. UNCHANGED procVars /\ UNCHANGED <<pidlog, found>>
      BY <1>2, <2>1 DEF Launch, procVars, diskVars
    <3> QED
      BY <1>t, <3>1, QuietKept
  <2>2. CASE ~UNCHANGED <<stat, role>>
    <3>1. PICK p \in Pids : /\ stat[p] = "free"
                            /\ stat' = [stat EXCEPT ![p] = "boot"]
                            /\ role' = [role EXCEPT ![p] = cur[o]]
      BY <1>2, <2>2 DEF Launch
    <3>2. UNCHANGED <<listen, conn, pidlog, found>> /\ Logged' = Logged
      BY <1>2 DEF Launch, diskVars, Logged
    <3>3. cur[o] # Bystander
      BY <1>u, ServiceFacts DEF TypeInv, TypeOK
    <3>4. \A q \in Pids : Traced(q) => Traced(q)'
      BY <1>u, <3>1 DEF Traced, TypeInv, TypeOK
    <3>5. \A q \in Pids : role'[q] = Bystander =>
              role[q] = Bystander /\ stat'[q] = stat[q]
      BY <1>u, <3>1, <3>3 DEF TypeInv, TypeOK
    <3>6. \A q \in Pids : stat'[q] = "free" => stat[q] = "free"
      BY <1>u, <3>1 DEF TypeInv, TypeOK
    <3>7. Logged \subseteq Pids /\ \A q \in Ops : found[q] \subseteq Pids
      BY <1>u DEF TypeInv, TypeOK, Logged
    <3> QED
      BY <1>t, <3>2, <3>4, <3>5, <3>6, <3>7 DEF QuietInv
  <2> QED
    BY <2>1, <2>2
<1>3. ASSUME NEW o \in Ops, Probe(o) PROVE QuietInv'
  <2>1. UNCHANGED procVars /\ Logged' = Logged
    BY <1>3 DEF Probe, diskVars, Logged
  <2>2. cur[o] \in Services
    BY <1>u DEF TypeInv, TypeOK
  <2>3. \A q \in Ops : \A p \in found'[q] : p \in found[q] \/ p \in Lsof(cur[o])
    BY <1>3, <1>u DEF Probe, TypeInv, TypeOK
  <2>4. \A q \in Ops : \A p \in found'[q] : Traced(p)
    BY <2>2, <2>3, LsofTraced DEF QuietInv
  <2> QED
    BY <1>t, <2>1, <2>4 DEF QuietInv, Traced, procVars
<1>4. ASSUME NEW o \in Ops, Record(o) PROVE QuietInv'
  <2>1. UNCHANGED procVars
    BY <1>4 DEF Record
  <2>2. \A q \in Ops : found'[q] \subseteq found[q]
    BY <1>4, <1>u DEF Record, TypeInv, TypeOK
  <2>3. \A p \in Logged' : p \in Logged \/ p \in found[o]
    <3>1. CASE pidlog' = pidlog
      BY <3>1 DEF Logged
    <3>2. CASE pidlog' # pidlog
      <4>1. PICK q \in Lines(found[o]) : pidlog' = pidlog \o q
        BY <1>4, <3>2 DEF Record
      <4>2. q \in Seq(Pids) /\ \A i \in 1..Len(q) : q[i] \in found[o]
        BY <1>u, LinesType DEF TypeInv, TypeOK
      <4>3. pidlog \in Seq(Pids)
        BY <1>u DEF TypeInv, TypeOK
      <4>4. \A i \in 1..Len(pidlog') :
               IF i <= Len(pidlog) THEN pidlog'[i] = pidlog[i]
               ELSE pidlog'[i] = q[i - Len(pidlog)]
        BY <4>1, <4>2, <4>3
      <4>5. Len(pidlog') = Len(pidlog) + Len(q)
        BY <4>1, <4>2, <4>3
      <4> QED
        BY <4>2, <4>3, <4>4, <4>5 DEF Logged
    <3> QED
      BY <3>1, <3>2
  <2>4. \A p \in Logged' : Traced(p)
    BY <2>3 DEF QuietInv
  <2> QED
    BY <1>t, <2>1, <2>2, <2>4 DEF QuietInv, Traced, procVars
<1>5. ASSUME NEW S \in SUBSET Pids, Destroy(S), UNCHANGED <<pidlog>>,
             \A o \in Ops : found'[o] \subseteq found[o]
      PROVE  QuietInv'
  <2>1. \A q \in Pids : /\ stat'[q] = (IF q \in S THEN "gone" ELSE stat[q])
                        /\ listen'[q] \in {0, listen[q]}
                        /\ conn'[q] \in {0, conn[q]}
                        /\ role'[q] = role[q]
    BY <1>5 DEF Destroy
  <2>2. Logged' = Logged
    BY <1>5 DEF Logged
  <2>3. Logged \subseteq Pids /\ \A q \in Ops : found[q] \subseteq Pids
    BY <1>u DEF TypeInv, TypeOK, Logged
  <2>4. \A q \in Pids : Traced(q) => Traced(q)'
    BY <2>1 DEF Traced
  <2> QED
    BY <1>5, <1>t, <2>1, <2>2, <2>3, <2>4 DEF QuietInv
<1>6. ASSUME NEW o \in Ops, GiveUp(o) PROVE QuietInv'
  <2>1. \A q \in Ops : found'[q] \subseteq found[q]
    BY <1>6, <1>u DEF GiveUp, Quit, TypeInv, TypeOK
  <2> QED
    BY <1>5, <1>6, <2>1 DEF GiveUp, diskVars
<1>7. ASSUME NEW p \in Pids, Exit(p) PROVE QuietInv'
  <2>1. Destroy({p}) /\ UNCHANGED <<pidlog, found>>
    BY <1>7 DEF Exit, diskVars, shellVars
  <2> QED
    BY <1>5, <2>1
<1>8. ASSUME NEW o \in Ops, Signal(o) PROVE QuietInv'
  <2>1. pidlog[row[o]] \in Logged /\ pidlog[row[o]] \in Pids
    BY <1>8, <1>u DEF Signal, HasLine, TypeInv, TypeOK, Logged
  <2>2. PICK p \in Pids : /\ p \in Logged
                          /\ \/ stat' = stat
                             \/ stat' = [stat EXCEPT ![p] = "term"]
                          /\ UNCHANGED <<role, listen, conn, pidlog, found>>
    BY <1>8, <2>1 DEF Signal, diskVars
  <2>3. Traced(p) /\ Logged' = Logged
    BY <2>2 DEF QuietInv, Logged
  <2>4. \A q \in Pids : /\ stat'[q] = stat[q] \/ (q = p /\ stat'[q] = "term")
    BY <2>2, <1>u DEF TypeInv, TypeOK
  <2>5. \A q \in Pids : Traced(q) => Traced(q)'
    BY <2>2, <2>4 DEF Traced
  <2>6. Logged \subseteq Pids /\ \A q \in Ops : found[q] \subseteq Pids
    BY <1>u DEF TypeInv, TypeOK, Logged
  <2> QED
    BY <1>t, <2>2, <2>3, <2>4, <2>5, <2>6 DEF QuietInv, Traced
<1>9. ASSUME NEW p \in Pids, Bind(p) PROVE QuietInv'
  <2>1. /\ stat[p] = "boot" /\ role[p] # Bystander
        /\ stat' = [stat EXCEPT ![p] = "up"]
        /\ listen' = [listen EXCEPT ![p] = role[p]]
        /\ UNCHANGED <<role, conn, pidlog, found>>
    BY <1>9 DEF Bind, diskVars, shellVars, QuietInv
  <2>2. \A q \in Pids : /\ q # p => stat'[q] = stat[q] /\ listen'[q] = listen[q]
                        /\ stat'[p] = "up"
    BY <2>1, <1>u DEF TypeInv, TypeOK
  <2> QED
    BY <1>t, <1>u, <2>1, <2>2 DEF QuietInv, Traced, Logged, TypeInv, TypeOK
<1>10. ASSUME NEW p \in Pids, Spawn(p) PROVE QuietInv'
  <2>1. /\ stat[p] = "free" /\ listen[p] = 0 /\ conn[p] = 0
        /\ stat' = [stat EXCEPT ![p] = "up"]
        /\ UNCHANGED <<listen, conn, pidlog, found>>
    BY <1>10 DEF Spawn, diskVars, shellVars, QuietInv
  <2>2. \A q \in Pids : /\ q # p => stat'[q] = stat[q] /\ role'[q] = role[q]
                        /\ stat'[p] = "up"
    BY <1>10, <2>1, <1>u DEF Spawn, TypeInv, TypeOK
  <2>3. Logged' = Logged /\ Logged \subseteq Pids
    BY <2>1, <1>u DEF Logged, TypeInv, TypeOK
  <2>4. \A q \in Pids : Traced(q) => q # p /\ Traced(q)'
    BY <2>1, <2>2 DEF Traced
  <2>5. \A o \in Ops : found[o] \subseteq Pids
    BY <1>u DEF TypeInv, TypeOK
  <2> QED
    BY <1>t, <2>1, <2>2, <2>3, <2>4, <2>5 DEF QuietInv
<1>11. ASSUME NEW p \in Pids, NEW s \in Services, Visit(p, s) PROVE QuietInv'
  <2>1. /\ stat[p] = "up" /\ role[p] # Bystander
        /\ UNCHANGED <<stat, role, pidlog, found>>
    BY <1>11, ServiceFacts DEF Visit, diskVars, shellVars
  <2>2. \A q \in Pids : q # p => listen'[q] = listen[q] /\ conn'[q] = conn[q]
    BY <1>11, <1>u DEF Visit, TypeInv, TypeOK
  <2> QED
    BY <1>t, <2>1, <2>2 DEF QuietInv, Traced, Logged
<1>12. ASSUME UNCHANGED vars PROVE QuietInv'
  BY <1>12, <1>t DEF vars, procVars, diskVars, shellVars, QuietInv, Traced, Logged
<1>13. ~Reboot
  BY DEF Reboot
<1> QED
  BY <1>1, <1>2, <1>3, <1>4, <1>6, <1>7, <1>8, <1>9, <1>10, <1>11, <1>12, <1>13
  DEF Next, Step

(* However many operators run the script, and whatever they interrupt, a   *)
(* program that uses no port of the stack is not signalled by "Stop all",  *)
(* as long as process numbers are not reused.                              *)
THEOREM BystandersSpared ==
    ASSUME "reboot" \notin Events
    PROVE  Spec => []QuietSpared
<1>1. QuietInv => QuietSpared
  BY DEF QuietInv, QuietSpared, Traced
<1>2. QuietInv /\ [Next]_vars => QuietInv'
  BY QuietInvStep
<1> QED
  BY <1>1, <1>2, QuietInvInit, PTL DEF Spec
-----------------------------------------------------------------------------
(* One operator. Nothing but the operator's own script changes pid.log, so *)
(* the lines the kill loop has passed stay those of processes that were    *)
(* told to end, and the start finds the book empty when it deletes the     *)
(* directory. A process number in pid.log must not come to life again      *)
(* meanwhile: either no number is reused (QuietInv), or nobody else starts *)
(* processes.                                                              *)

BookInv(op) ==
    /\ TypeInv
    /\ "visit" \in Events => QuietInv
    /\ pc[op] \in {"provision", "wipe", "unpack"} => pidlog = <<>>
    /\ pc[op] = "kill" =>
          /\ cwd[op] = "stack"
          /\ \A i \in 1..Len(pidlog) : i < row[op] => ~Running(pidlog[i])
    /\ pc[op] = "unlog" =>
          /\ cwd[op] = "stack"
          /\ \A p \in Logged : ~Running(p)

LEMMA BookInvInit ==
    ASSUME NEW op \in Ops
    PROVE  Init => BookInv(op)
  BY TypeInvInit, QuietInvInit DEF Init, BookInv, Labels

(* A step that starts no process and leaves the operator where it is.      *)
LEMMA BookKept ==
    ASSUME NEW op \in Ops, BookInv(op), TypeInv', "visit" \in Events => QuietInv',
           UNCHANGED <<pidlog, pc, cwd, row>>,
           \A p \in Logged : Running(p)' => Running(p)
    PROVE  BookInv(op)'
<1>1. Logged' = Logged
  BY DEF Logged
<1>2. \A i \in 1..Len(pidlog) : pidlog[i] \in Logged
  BY DEF Logged
<1> QED
  BY <1>1, <1>2 DEF BookInv

LEMMA BookInvStep ==
    ASSUME NEW op, Ops = {op}, ~({"visit", "reboot"} \subseteq Events)
    PROVE  BookInv(op) /\ [Next]_vars => BookInv(op)'
<1> SUFFICES ASSUME BookInv(op), [Next]_vars PROVE BookInv(op)'
  OBVIOUS
<1>t. TypeInv'
  BY TypeInvStep DEF BookInv
<1>u. TypeInv
  BY DEF BookInv
<1>q. "visit" \in Events => QuietInv'
  BY QuietInvStep DEF BookInv
<1>o. op \in Ops
  OBVIOUS
<1>1. CASE StartAll(op)
  BY <1>1, <1>t, <1>q, <1>u DEF StartAll, Goto, BookInv, TypeInv, TypeOK, diskVars
<1>2. CASE StopAll(op)
  BY <1>2, <1>t, <1>q, <1>u DEF StopAll, Goto, BookInv, TypeInv, TypeOK, diskVars
<1>3. CASE Clear(op)
  BY <1>3, <1>t, <1>q, <1>u DEF Clear, BookInv, TypeInv, TypeOK
<1>4. CASE Abort(op) \/ GiveUp(op) \/ Finish(op) \/ Unlog(op) \/ Reboot
  <2>1. pc'[op] = "off"
    BY <1>4, <1>u DEF Abort, GiveUp, Finish, Unlog, Reboot, Quit, Goto,
                      TypeInv, TypeOK
  <2> QED
    BY <2>1, <1>t, <1>q DEF BookInv
<1>5. CASE Provision(op)
  <2>1. /\ pc'[op] \in {"wipe", "off"}
        /\ pidlog' = pidlog /\ pidlog = <<>>
    BY <1>5, <1>u DEF Provision, Quit, Goto, TypeInv, TypeOK, diskVars, BookInv
  <2> QED
    BY <2>1, <1>t, <1>q DEF BookInv
<1>6. CASE Wipe(op)
  BY <1>6, <1>t, <1>q, <1>u DEF Wipe, Goto, BookInv, TypeInv, TypeOK
<1>7. CASE Unpack(op) \/ Launch(op) \/ Probe(op) \/ Record(op)
  <2>1. pc'[op] \in {"launch", "wait", "record", "giveup", "done"}
    BY <1>7, <1>u DEF Unpack, Launch, Probe, Record, Goto, TypeInv, TypeOK
  <2> QED
    BY <2>1, <1>t, <1>q DEF BookInv
<1>8. CASE Signal(op)
  <2>1. /\ pc[op] = "kill" /\ cwd[op] = "stack"
        /\ row[op] \in Nat \ {0} /\ row[op] <= Len(pidlog)
        /\ pidlog \in Seq(Pids)
        /\ row'[op] = row[op] + 1
        /\ UNCHANGED <<pidlog, pc, cwd>>
    BY <1>8, <1>u DEF Signal, HasLine, TypeInv, TypeOK, diskVars
  <2>2. PICK p \in Pids : p = pidlog[row[op]]
    BY <2>1
  <2>3. stat' = IF Running(p) THEN [stat EXCEPT ![p] = "term"] ELSE stat
    BY <1>8, <2>2 DEF Signal
  <2>4. ~Running(p)'
    BY <2>3, <1>u DEF Running, TypeInv, TypeOK
  <2>5. \A q \in Pids : Running(q)' => Running(q)
    BY <2>3, <1>u DEF Running, TypeInv, TypeOK
  <2>6. ASSUME NEW i \in 1..Len(pidlog), i < row[op] + 1
        PROVE  ~Running(pidlog[i])'
    <3>1. PICK q \in Pids : q = pidlog[i] /\ q = pidlog'[i]
      BY <2>1
    <3>2. CASE i = row[op]
      BY <3>1, <3>2, <2>2, <2>4 DEF Running
    <3>3. CASE i # row[op]
      <4>1. i < row[op]
        BY <3>3, <2>1, <2>6
      <4>2. ~Running(q)
        BY <3>1, <4>1, <2>1 DEF BookInv
      <4> QED
        BY <3>1, <4>2, <2>5 DEF Running
    <3> QED
      BY <3>2, <3>3
  <2> QED
    BY <2>1, <2>6, <1>t, <1>q DEF BookInv
<1>9. CASE LastLine(op)
  <2>1. /\ pc[op] = "kill" /\ pc'[op] = "unlog"
        /\ cwd[op] = "stack" /\ row[op] > Len(pidlog)
        /\ UNCHANGED <<pidlog, stat, cwd>>
    BY <1>9, <1>u DEF LastLine, Goto, HasLine, TypeInv, TypeOK, BookInv,
                      diskVars, procVars
  <2>2. \A i \in 1..Len(pidlog) : ~Running(pidlog[i])
    BY <2>1, <1>u DEF BookInv, TypeInv, TypeOK
  <2>3. \A p \in Logged' : ~Running(p)'
    BY <2>1, <2>2 DEF Logged, Running
  <2> QED
    BY <2>1, <2>3, <1>t, <1>q DEF BookInv
<1>10. ASSUME NEW p \in Pids, Bind(p) PROVE BookInv(op)'
  <2>1. \A q \in Pids : Running(q)' => Running(q)
    BY <1>10, <1>u DEF Bind, Running, TypeInv, TypeOK
  <2> QED
    BY <1>10, <1>t, <1>q, <1>u, <2>1, BookKept
    DEF Bind, diskVars, shellVars, Logged, TypeInv, TypeOK
<1>11. ASSUME NEW p \in Pids, Exit(p) PROVE BookInv(op)'
  <2>1. \A q \in Pids : Running(q)' => Running(q)
    BY <1>11 DEF Exit, Destroy, Running
  <2>2. UNCHANGED <<pidlog, pc, cwd, row>>
    BY <1>11 DEF Exit, diskVars, shellVars
  <2>3. Logged \subseteq Pids
    BY <1>u DEF Logged, TypeInv, TypeOK
  <2> QED
    BY <1>t, <1>q, <2>1, <2>2, <2>3, BookKept
<1>12. ASSUME NEW p \in Pids, Spawn(p) PROVE BookInv(op)'
  <2>1. \A q \in Logged : q # p
    BY <1>12 DEF Spawn, BookInv, QuietInv, Traced
  <2>2. \A q \in Logged : Running(q)' => Running(q)
    BY <1>12, <1>u, <2>1 DEF Spawn, Running, TypeInv, TypeOK, Logged
  <2> QED
    BY <1>12, <1>t, <1>q, <2>2, BookKept DEF Spawn, diskVars, shellVars
<1>13. ASSUME NEW p \in Pids, NEW s \in Services, Visit(p, s)
       PROVE  BookInv(op)'
  BY <1>13, <1>t, <1>q, BookKept DEF Visit, diskVars, shellVars, Running
<1>14. ASSUME UNCHANGED vars PROVE BookInv(op)'
  BY <1>14, <1>t, <1>q, BookKept
  DEF vars, procVars, diskVars, shellVars, Running
<1> QED
  BY <1>1, <1>2, <1>3, <1>4, <1>5, <1>6, <1>7, <1>8, <1>9, <1>10, <1>11, <1>12,
     <1>13, <1>14
  DEF Next, Step

(* Every step of one operator's script and of the host under it is a step  *)
(* of the book or leaves it alone.                                         *)
LEMMA BookStep ==
    ASSUME NEW op, Ops = {op}, BookInv(op), [Next]_vars
    PROVE  [Book!Next]_(Book!bookVars)
<1> USE DEF Book!bookVars, Mode
<1>u. TypeInv
  BY DEF BookInv
<1>o. op \in Ops /\ \A o \in Ops : o = op
  OBVIOUS
<1>1. CASE StartAll(op)
  <2>1. /\ pc[op] = "off" /\ pc'[op] = "provision"
        /\ pidlog = <<>> /\ UNCHANGED <<pidlog, stat>>
    BY <1>1, <1>u DEF StartAll, Goto, TypeInv, TypeOK, diskVars, procVars
  <2> QED
    BY <2>1, <1>o DEF Book!Next, Book!BeginStart, Logged, Live, Running
<1>2. CASE StopAll(op)
  <2>1. /\ pc[op] = "off" /\ pc'[op] = "kill"
        /\ pidlog # <<>> /\ UNCHANGED <<pidlog, stat>>
    BY <1>2, <1>u DEF StopAll, Goto, TypeInv, TypeOK, diskVars, procVars
  <2>2. pidlog[1] \in Logged
    BY <2>1, <1>u, EmptySeq DEF Logged, TypeInv, TypeOK
  <2> QED
    BY <2>1, <2>2, <1>o DEF Book!Next, Book!BeginStop, Logged, Live, Running
<1>3. CASE Clear(op)
  <2>1. pc[op] = "off" /\ pidlog' = <<>> /\ UNCHANGED <<stat, pc>>
    BY <1>3 DEF Clear, procVars
  <2> QED
    BY <2>1, <1>o DEF Book!Next, Book!Discard, Logged, Live, Running
<1>4. CASE Abort(op) \/ GiveUp(op) \/ Finish(op) \/ (Provision(op) /\ Quit(op))
  <2>1. pc[op] # "off" /\ pc'[op] = "off" /\ UNCHANGED pidlog
    BY <1>4, <1>u DEF Abort, GiveUp, Finish, Provision, Quit, Goto, TypeInv,
                      TypeOK, diskVars
  <2>2. \A p \in Pids : Running(p)' => Running(p)
    BY <1>4 DEF Abort, GiveUp, Finish, Provision, procVars, Destroy, Running
  <2>3. Live' \in SUBSET Live /\ Logged' = Logged
    BY <2>1, <2>2 DEF Live, Logged
  <2>4. Mode # "idle" /\ Mode' = "idle"
    BY <2>1, <1>o
  <2> QED
    BY <2>3, <2>4 DEF Book!Next, Book!Leave
<1>5. CASE Reboot
  <2>1. pc'[op] = "off" /\ Live' = {} /\ Logged' = Logged
    BY <1>5 DEF Reboot, diskVars, Live, Running, Logged
  <2>2. Mode' = "idle"
    BY <2>1, <1>o
  <2> QED
    BY <2>1, <2>2 DEF Book!Next, Book!Leave, Book!Depart
<1>6. CASE Record(op)
  <2>1. /\ pc[op] = "record" /\ pc'[op] \in {"launch", "done"}
        /\ UNCHANGED stat
    BY <1>6, <1>u DEF Record, Goto, TypeInv, TypeOK, procVars
  <2>2. Mode = "starting" /\ Mode' = "starting" /\ Live' = Live
    BY <2>1, <1>o DEF Live, Running
  <2>3. pidlog \in Seq(Pids) /\ pidlog' \in Seq(Pids)
    BY <1>u, TypeInvStep DEF TypeInv, TypeOK
  <2>4. Logged \subseteq Logged' /\ Logged' \subseteq Pids
    <3>1. CASE pidlog' = pidlog
      BY <2>3, <3>1 DEF Logged
    <3>2. CASE pidlog' # pidlog
      <4>1. PICK q \in Lines(found[op]) : pidlog' = pidlog \o q
        BY <1>6, <3>2 DEF Record
      <4>2. q \in Seq(Pids)
        BY <1>u, <1>o, LinesType DEF TypeInv, TypeOK
      <4>3. \A i \in 1..Len(pidlog) :
               i \in 1..Len(pidlog') /\ pidlog'[i] = pidlog[i]
        BY <2>3, <4>1, <4>2
      <4> QED
        BY <2>3, <4>3 DEF Logged
    <3> QED
      BY <3>1, <3>2
  <2>5. Logged' = Logged \cup Logged' /\ Logged' \in SUBSET Pids
    BY <2>4
  <2>6. Book!Enter(Logged')
    BY <2>2, <2>5 DEF Book!Enter
  <2> QED
    BY <2>5, <2>6 DEF Book!Next
<1>7. CASE Unlog(op)
  <2>1. /\ pc[op] = "unlog" /\ pc'[op] = "off" /\ UNCHANGED stat
        /\ pidlog' = <<>> /\ \A p \in Logged : ~Running(p)
    BY <1>7, <1>u DEF Unlog, Quit, Goto, TypeInv, TypeOK, procVars, BookInv
  <2>2. Logged \cap Live = {} /\ Logged' = {} /\ Live' = Live
    BY <2>1 DEF Live, Logged, Running
  <2>3. Mode = "stopping" /\ Mode' = "idle"
    BY <2>1, <1>o
  <2> QED
    BY <2>2, <2>3 DEF Book!Next, Book!Retire
<1>8. CASE \/ Provision(op) /\ ~Quit(op)
           \/ Wipe(op) \/ Unpack(op) \/ Probe(op) \/ LastLine(op)
  <2>1. UNCHANGED <<stat, pidlog>>
    BY <1>8 DEF Provision, Wipe, Unpack, Probe, LastLine, procVars, diskVars,
                BookInv
  <2>2. \/ /\ pc[op] \in {"kill", "unlog"} /\ pc'[op] \in {"kill", "unlog"}
        \/ /\ pc[op] \notin {"kill", "unlog", "off"}
           /\ pc'[op] \notin {"kill", "unlog", "off"}
    BY <1>8, <1>u DEF Provision, Wipe, Unpack, Probe, LastLine, Goto, TypeInv,
                      TypeOK
  <2>3. Mode' = Mode
    BY <2>2, <1>o
  <2> QED
    BY <2>1, <2>3 DEF Live, Running, Logged
<1>9. ASSUME UNCHANGED pidlog, Mode' = Mode,
             \/ \A q \in Pids : Running(q)' => Running(q)
             \/ \E p \in Pids : \A q \in Pids :
                    Running(q)' <=> (Running(q) \/ q = p)
      PROVE  [Book!Next]_(Book!bookVars)
  <2>1. Logged' = Logged
    BY <1>9 DEF Logged
  <2>2. CASE \A q \in Pids : Running(q)' => Running(q)
    <3>1. Live' \in SUBSET Live
      BY <2>2 DEF Live
    <3> QED
      BY <1>9, <2>1, <3>1 DEF Book!Next, Book!Depart
  <2>3. ASSUME NEW p \in Pids, \A q \in Pids : Running(q)' <=> (Running(q) \/ q = p)
        PROVE  [Book!Next]_(Book!bookVars)
    <3>1. Live' = Live \cup {p}
      BY <2>3 DEF Live
    <3> QED
      BY <1>9, <2>1, <3>1 DEF Book!Next, Book!Arrive
  <2> QED
    BY <1>9, <2>2, <2>3
<1>10. CASE Launch(op)
  <2>1. pc[op] = "launch" /\ pc'[op] = "wait" /\ UNCHANGED pidlog
    BY <1>10, <1>u DEF Launch, Goto, TypeInv, TypeOK, diskVars
  <2>2. \/ UNCHANGED stat
        \/ \E p \in Pids : stat' = [stat EXCEPT ![p] = "boot"]
    BY <1>10 DEF Launch
  <2>3. \/ \A q \in Pids : Running(q)' => Running(q)
        \/ \E p \in Pids : \A q \in Pids :
               Running(q)' <=> (Running(q) \/ q = p)
    BY <2>2, <1>u DEF Running, TypeInv, TypeOK
  <2>4. Mode' = Mode
    BY <2>1, <1>o
  <2> QED
    BY <1>9, <2>1, <2>3, <2>4
<1>11. CASE Signal(op)
  <2>1. pc[op] = "kill" /\ UNCHANGED <<pidlog, pc>>
    BY <1>11 DEF Signal, diskVars
  <2>2. \A q \in Pids : Running(q)' => Running(q)
    <3>1. stat' = stat \/ stat' = [stat EXCEPT ![pidlog[row[op]]] = "term"]
      BY <1>11 DEF Signal
    <3> QED
      BY <3>1, <1>u DEF Running, TypeInv, TypeOK
  <2> QED
    BY <1>9, <2>1, <2>2
<1>12. ASSUME NEW p \in Pids, Bind(p) \/ Exit(p) PROVE [Book!Next]_(Book!bookVars)
  <2>1. UNCHANGED <<pidlog, pc>>
    BY <1>12 DEF Bind, Exit, diskVars, shellVars
  <2>2. \A q \in Pids : Running(q)' => Running(q)
    BY <1>12, <1>u DEF Bind, Exit, Destroy, Running, TypeInv, TypeOK
  <2> QED
    BY <1>9, <2>1, <2>2
<1>13. ASSUME NEW p \in Pids, Spawn(p) PROVE [Book!Next]_(Book!bookVars)
  <2>1. UNCHANGED <<pidlog, pc>> /\ stat' = [stat EXCEPT ![p] = "up"]
    BY <1>13 DEF Spawn, diskVars, shellVars
  <2>2. \A q \in Pids : Running(q)' <=> (Running(q) \/ q = p)
    BY <2>1, <1>u DEF Running, TypeInv, TypeOK
  <2> QED
    BY <1>9, <2>1, <2>2
<1>14. CASE UNCHANGED <<stat, pidlog, pc>>
  BY <1>14 DEF Live, Running, Logged
<1>15. ASSUME NEW p \in Pids, NEW s \in Services, Visit(p, s)
       PROVE  UNCHANGED <<stat, pidlog, pc>>
  BY <1>15 DEF Visit, diskVars, shellVars
<1>16. CASE UNCHANGED vars
  BY <1>14, <1>16 DEF vars, procVars, diskVars, shellVars
<1> QED
  BY <1>1, <1>2, <1>3, <1>4, <1>5, <1>6, <1>7, <1>8, <1>10, <1>11, <1>12,
     <1>13, <1>14, <1>15, <1>16
  DEF Next, Step

(* With one operator the script keeps the book: pid.log only grows during  *)
(* a start, and a stop empties it only when every process it lists was     *)
(* told to end. Process numbers may be reused (a reboot) only if nothing   *)
(* but the script starts processes.                                        *)
THEOREM SoloImplementsBook ==
    ASSUME NEW op, Ops = {op}, ~({"visit", "reboot"} \subseteq Events)
    PROVE  Spec => BookSpec
<1>1. Init => Book!Init
  BY DEF Init, Book!Init, Mode, Logged, Live, Running
<1>2. BookInv(op) /\ [Next]_vars => [Book!Next]_(Book!bookVars)
  BY BookStep
<1>3. Init => BookInv(op)
  BY BookInvInit
<1>4. BookInv(op) /\ [Next]_vars => BookInv(op)'
  BY BookInvStep
<1> QED
  BY <1>1, <1>2, <1>3, <1>4, PTL DEF Spec, BookSpec, Book!Spec
-----------------------------------------------------------------------------
(* A start of one operator with nobody else on the ports: what lsof prints *)
(* for a port was launched as its service, and no number in the pid.log of *)
(* a running start is free to be launched as something else.               *)

InStart(op) == pc[op] \in {"launch", "wait", "record", "giveup", "done"}

PrefixInv(op) ==
    /\ BookInv(op)
    /\ \A p \in Pids : conn[p] = 0 /\ listen[p] \in {0, role[p]}
    /\ \A p \in Pids : stat[p] = "free" => listen[p] = 0
    /\ InStart(op) => \A p \in Logged \cup found[op] : stat[p] # "free"
    /\ pc[op] = "record" =>
          found[op] # {} /\ \A p \in found[op] : role[p] = cur[op]
    /\ pc[op] \in {"off", "provision", "wipe", "unpack"} =>
          cur[op] = 1 /\ found[op] = {} /\ cwd[op] = "top" /\ ~launched[op]
    /\ InStart(op) => cwd[op] = "stack" \/ (cwd[op] = "top" /\ ~launched[op])
    /\ RecordedPrefix

LEMMA PrefixInvInit ==
    ASSUME NEW op, Ops = {op}
    PROVE  Init => PrefixInv(op)
<1> SUFFICES ASSUME Init PROVE PrefixInv(op)
  OBVIOUS
<1>1. op \in Ops /\ BookInv(op)
  BY BookInvInit
<1>2. /\ pc[op] = "off" /\ cur[op] = 1 /\ found[op] = {}
      /\ cwd[op] = "top" /\ ~launched[op]
      /\ \A o \in Ops : pc[o] = "off"
  BY <1>1 DEF Init
<1>3. \A p \in Pids : conn[p] = 0 /\ listen[p] = 0
  BY DEF Init
<1>4. RecordedPrefix
  BY <1>2 DEF RecordedPrefix, GonePast
<1> QED
  BY <1>1, <1>2, <1>3, <1>4 DEF PrefixInv, InStart

(* A step that moves nothing the prefix depends on, for a shell that stays *)
(* where it is.                                                            *)
LEMMA PrefixKept ==
    ASSUME NEW op, Ops = {op}, PrefixInv(op), BookInv(op)',
           UNCHANGED <<pidlog, shellVars>>,
           \A p \in Pids : /\ conn'[p] = 0 /\ listen'[p] \in {0, role'[p]}
                           /\ stat'[p] = "free" => stat[p] = "free" /\ listen'[p] = 0
                           /\ role'[p] = role[p] \/ stat[p] = "free"
    PROVE  PrefixInv(op)'
<1>1. TypeInv
  BY DEF PrefixInv, BookInv
<1>2. Logged' = Logged /\ Logged \subseteq Pids /\ found[op] \subseteq Pids
  BY <1>1 DEF Logged, TypeInv, TypeOK
<1>3. UNCHANGED <<pc, cwd, cur, found, launched>>
  BY DEF shellVars
<1>4. InStart(op) => \A p \in Logged \cup found[op] : role'[p] = role[p]
  BY <1>2 DEF PrefixInv
<1>5. InStart(op)' => \A p \in Logged' \cup found'[op] : stat'[p] # "free"
  BY <1>2, <1>3 DEF PrefixInv, InStart
<1>6. pc'[op] = "record" => found'[op] # {} /\ \A p \in found'[op] : role'[p] = cur'[op]
  BY <1>3, <1>4 DEF PrefixInv, InStart
<1>7. RecordedPrefix'
  BY <1>2, <1>3, <1>4 DEF PrefixInv, InStart, RecordedPrefix, GonePast
<1> QED
  BY <1>3, <1>5, <1>6, <1>7 DEF PrefixInv, InStart

LEMMA PrefixInvStep ==
    ASSUME NEW op, Ops = {op}, "visit" \notin Events
    PROVE  PrefixInv(op) /\ [Next]_vars => PrefixInv(op)'
<1> SUFFICES ASSUME PrefixInv(op), [Next]_vars PROVE PrefixInv(op)'
  OBVIOUS
<1>b. BookInv(op)'
  BY BookInvStep DEF PrefixInv
<1>u. TypeInv /\ TypeInv'
  BY TypeInvStep DEF PrefixInv, BookInv
<1>o. op \in Ops /\ \A o \in Ops : o = op
  OBVIOUS
<1>s. /\ Logged \subseteq Pids /\ found[op] \subseteq Pids
      /\ cur[op] \in Services
  <2>1. /\ pidlog \in Seq(Pids) /\ found \in [Ops -> SUBSET Pids]
        /\ cur \in [Ops -> Services]
    BY <1>u DEF TypeInv, TypeOK
  <2> QED
    BY <2>1, <1>o DEF Logged
<1>1. CASE StartAll(op) \/ StopAll(op) \/ Clear(op) \/ LastLine(op)
  <2>1. /\ UNCHANGED <<stat, role, listen, conn, cur, found, launched>>
        /\ pc'[op] \in {"provision", "kill", "off", "unlog"}
        /\ pc'[op] \in {"provision", "off"} =>
              pc[op] = "off" /\ (cwd[op] = "top" => cwd'[op] = "top")
    BY <1>1, <1>o, <1>u DEF StartAll, StopAll, Clear, Evict, LastLine, Goto, procVars,
                      TypeInv, TypeOK
  <2> QED
    BY <1>b, <1>o, <2>1 DEF PrefixInv, InStart, RecordedPrefix, GonePast
<1>2. CASE /\ Quit(op)
           /\ \A p \in Pids : /\ conn'[p] = 0 /\ listen'[p] \in {0, role'[p]}
                              /\ stat'[p] = "free" => listen'[p] = 0
  <2>1. /\ pc'[op] = "off" /\ cur'[op] = 1 /\ found'[op] = {}
        /\ cwd'[op] = "top" /\ ~launched'[op]
    BY <1>2, <1>o, <1>u DEF Quit, Goto, TypeInv, TypeOK
  <2>2. RecordedPrefix'
    BY <1>o, <2>1 DEF RecordedPrefix, GonePast
  <2> QED
    BY <1>b, <1>2, <2>1, <2>2 DEF PrefixInv, InStart
<1>3. CASE Abort(op) \/ Finish(op) \/ Unlog(op) \/ (Provision(op) /\ Quit(op))
  <2>1. Quit(op) /\ UNCHANGED <<stat, role, listen, conn>>
    BY <1>3 DEF Abort, Finish, Unlog, Provision, procVars
  <2> QED
    BY <1>2, <2>1 DEF PrefixInv
<1>4. CASE GiveUp(op)
  <2>1. \A p \in Pids : /\ conn'[p] = 0 /\ listen'[p] \in {0, role'[p]}
                        /\ stat'[p] = "free" => listen'[p] = 0
    BY <1>4 DEF GiveUp, Destroy, PrefixInv
  <2> QED
    BY <1>2, <1>4, <2>1 DEF GiveUp
<1>5. CASE Reboot
  <2>1. /\ pc'[op] = "off" /\ cur'[op] = 1 /\ found'[op] = {}
        /\ cwd'[op] = "top" /\ ~launched'[op]
    BY <1>5, <1>o DEF Reboot
  <2>2. \A p \in Pids : conn'[p] = 0 /\ listen'[p] = 0
    BY <1>5 DEF Reboot
  <2> QED
    BY <1>b, <1>o, <2>1, <2>2 DEF PrefixInv, InStart, RecordedPrefix, GonePast
<1>6. CASE (Provision(op) /\ ~Quit(op)) \/ Wipe(op)
  <2>1. /\ UNCHANGED <<stat, role, listen, conn, cur, found, launched>>
        /\ pc[op] \in {"provision", "wipe"} /\ pc'[op] \in {"wipe", "unpack"}
        /\ cwd[op] = "top" => cwd'[op] = "top"
    BY <1>6, <1>o, <1>u DEF Provision, Wipe, Evict, Goto, procVars, TypeInv, TypeOK
  <2> QED
    BY <1>b, <1>o, <2>1 DEF PrefixInv, InStart, RecordedPrefix, GonePast
<1>7. CASE Unpack(op)
  <2>1. /\ UNCHANGED <<stat, role, listen, conn, cur, found, launched>>
        /\ pc[op] = "unpack" /\ pc'[op] = "launch" /\ UNCHANGED pidlog
        /\ cwd'[op] \in {"stack", cwd[op]}
    BY <1>7, <1>u DEF Unpack, Goto, procVars, TypeInv, TypeOK
  <2>2. pidlog = <<>> /\ cur[op] = 1 /\ found[op] = {}
    BY <2>1 DEF PrefixInv, BookInv
  <2>3. Logged' = {}
    BY <2>1, <2>2 DEF Logged
  <2>4. \A s \in Services : ~(s < 1)
    BY DEF Services
  <2> QED
    BY <1>b, <1>o, <2>1, <2>2, <2>3, <2>4 DEF PrefixInv, InStart, RecordedPrefix, GonePast
<1>8. CASE Launch(op)
  <2>1. /\ pc[op] = "launch" /\ pc'[op] = "wait"
        /\ UNCHANGED <<pidlog, listen, conn, cwd, cur, found>>
        /\ cwd[op] # "stack" => launched' = launched
    BY <1>8, <1>u DEF Launch, Goto, diskVars, TypeInv, TypeOK
  <2>2. \A p \in Pids : \/ stat'[p] = stat[p] /\ role'[p] = role[p]
                        \/ stat[p] = "free" /\ stat'[p] = "boot"
    <3>1. \/ UNCHANGED <<stat, role>>
          \/ \E p \in Pids : /\ stat[p] = "free"
                             /\ stat' = [stat EXCEPT ![p] = "boot"]
                             /\ role' = [role EXCEPT ![p] = cur[op]]
      BY <1>8 DEF Launch
    <3> QED
      BY <3>1, <1>u DEF TypeInv, TypeOK
  <2>3. Logged' = Logged
    BY <2>1 DEF Logged
  <2>4. \A p \in Logged \cup found[op] : stat'[p] = stat[p] /\ role'[p] = role[p]
    BY <1>s, <2>1, <2>2 DEF PrefixInv, InStart
  <2>5. \A p \in Pids : /\ conn'[p] = 0 /\ listen'[p] \in {0, role'[p]}
                        /\ stat'[p] = "free" => listen'[p] = 0
    BY <2>1, <2>2 DEF PrefixInv
  <2>6. InStart(op)' => \A p \in Logged' \cup found'[op] : stat'[p] # "free"
    BY <2>1, <2>3, <2>4 DEF PrefixInv, InStart
  <2>7. RecordedPrefix'
    BY <1>o, <2>1, <2>3, <2>4 DEF PrefixInv, RecordedPrefix, GonePast
  <2>8. pc'[op] \notin {"record", "provision", "wipe", "unpack", "off"}
    BY <2>1
  <2> QED
    <3>1. InStart(op)' => cwd'[op] = "stack" \/ (cwd'[op] = "top" /\ ~launched'[op])
      <4>1. cwd[op] = "stack" \/ (cwd[op] = "top" /\ ~launched[op])
        BY <2>1 DEF PrefixInv, InStart
      <4> QED
        BY <2>1, <4>1
    <3> QED
      BY <1>b, <2>5, <2>6, <2>7, <2>8, <3>1 DEF PrefixInv
<1>9. CASE Probe(op)
  <2>1. /\ pc[op] = "wait" /\ pc'[op] \in {"wait", "record", "giveup"}
        /\ UNCHANGED <<stat, role, pidlog, listen, conn, cwd, cur, launched>>
        /\ found'[op] = Lsof(cur[op])
        /\ pc'[op] = "record" => Lsof(cur[op]) # {}
    BY <1>9, <1>u DEF Probe, Goto, diskVars, procVars, TypeInv, TypeOK
  <2>2. \A p \in Lsof(cur[op]) : p \in Pids /\ stat[p] # "free" /\ role[p] = cur[op]
    BY <1>s, ServiceFacts DEF Lsof, PrefixInv
  <2>3. Logged' = Logged
    BY <2>1 DEF Logged
  <2>4. RecordedPrefix'
    BY <1>o, <2>1, <2>3 DEF PrefixInv, RecordedPrefix, GonePast
  <2> QED
    BY <1>b, <2>1, <2>2, <2>3, <2>4 DEF PrefixInv, InStart
<1>10. CASE Record(op)
  <2>1. /\ pc[op] = "record" /\ found'[op] = {}
        /\ UNCHANGED <<stat, role, listen, conn, cwd, launched>>
        /\ \/ cur[op] = N /\ pc'[op] = "done" /\ cur'[op] = cur[op]
           \/ cur[op] # N /\ pc'[op] = "launch" /\ cur'[op] = cur[op] + 1
    BY <1>10, <1>u DEF Record, Goto, procVars, TypeInv, TypeOK
  <2>2. pidlog \in Seq(Pids) /\ Cardinality(found[op]) \in Nat
    BY <1>u, <1>s, ConstantsAssumption, FS_Subset, FS_CardinalityType
    DEF TypeInv, TypeOK
  <2>3. Logged' = IF cwd[op] = "stack" THEN Logged \cup found[op] ELSE Logged
    <3>1. CASE cwd[op] # "stack"
      BY <1>10, <3>1 DEF Record, Logged
    <3>2. CASE cwd[op] = "stack"
      <4>1. PICK q \in Lines(found[op]) : pidlog' = pidlog \o q
        BY <1>10, <3>2 DEF Record
      <4>2. /\ q \in [1..Cardinality(found[op]) -> found[op]]
            /\ found[op] = {q[i] : i \in DOMAIN q}
        BY DEF Lines
      <4>3. q \in Seq(Pids) /\ Len(q) = Cardinality(found[op])
            /\ DOMAIN q = 1..Len(q)
        <5> DEFINE n == Cardinality(found[op])
        <5>1. n \in Nat /\ q \in [1..n -> Pids]
          BY <1>s, <2>2, <4>2
        <5> HIDE DEF n
        <5>2. q \in Seq(Pids) /\ Len(q) = n /\ DOMAIN q = 1..n
          BY <5>1
        <5> QED
          BY <5>2 DEF n
      <4>4. Len(pidlog') = Len(pidlog) + Len(q)
        BY <2>2, <4>1, <4>3, ConcatProperties
      <4>5. \A i \in 1..Len(pidlog) :
               i \in 1..Len(pidlog') /\ pidlog'[i] = pidlog[i]
        BY <2>2, <4>1, <4>3
      <4>6. \A i \in 1..Len(q) :
               /\ Len(pidlog) + i \in 1..Len(pidlog')
               /\ pidlog'[Len(pidlog) + i] = q[i]
        BY <2>2, <4>1, <4>3
      <4>7. \A i \in 1..Len(pidlog') :
               \/ i \in 1..Len(pidlog) /\ pidlog'[i] = pidlog[i]
               \/ i - Len(pidlog) \in 1..Len(q) /\ pidlog'[i] = q[i - Len(pidlog)]
        BY <2>2, <4>1, <4>3
      <4>8. Logged' \subseteq Logged \cup found[op]
        BY <4>2, <4>3, <4>7 DEF Logged
      <4>9. Logged \subseteq Logged'
        BY <4>5 DEF Logged
      <4>10. found[op] \subseteq Logged'
        BY <4>2, <4>3, <4>6 DEF Logged
      <4> QED
        BY <3>2, <4>8, <4>9, <4>10
    <3> QED
      BY <3>1, <3>2
  <2>4. \A p \in Logged' : stat'[p] # "free"
    BY <2>1, <2>3 DEF PrefixInv, InStart
  <2>5. cwd[op] = "stack" => \E p \in Logged' : role[p] = cur[op]
    BY <2>1, <2>3 DEF PrefixInv
  <2>6. Logged \subseteq Logged'
    BY <2>3
  <2>a. cwd[op] = "stack" \/ (cwd[op] = "top" /\ ~launched[op])
    BY <2>1 DEF PrefixInv, InStart
  <2>7. cwd[op] = "stack" => \A s \in Services :
           s < cur[op] \/ s = cur[op] => \E p \in Logged' : role[p] = s
    BY <1>o, <2>1, <2>5, <2>6 DEF PrefixInv, RecordedPrefix, GonePast
  <2>8. RecordedPrefix'
    <3>1. \A s \in Services :
            /\ cur[op] = N => s < cur[op] \/ s = cur[op]
            /\ s < cur[op] + 1 => s < cur[op] \/ s = cur[op]
      BY <1>s, ConstantsAssumption DEF Services
    <3> QED
      BY <1>o, <2>1, <2>a, <2>7, <3>1 DEF RecordedPrefix, GonePast
  <2> QED
    BY <1>b, <2>1, <2>a, <2>4, <2>8 DEF PrefixInv, InStart
<1>11. CASE Signal(op)
  <2>1. /\ UNCHANGED <<role, listen, conn, cur, found, pc, cwd, launched>>
        /\ pc[op] = "kill"
    BY <1>11 DEF Signal
  <2>2. \A p \in Pids : stat'[p] = "free" => stat[p] = "free"
    <3>1. stat' = stat \/ stat' = [stat EXCEPT ![pidlog[row[op]]] = "term"]
      BY <1>11 DEF Signal
    <3> QED
      BY <3>1, <1>u DEF TypeInv, TypeOK
  <2> QED
    BY <1>b, <1>o, <2>1, <2>2 DEF PrefixInv, InStart, RecordedPrefix, GonePast
<1>12. ASSUME NEW p \in Pids, Bind(p) \/ Exit(p) PROVE PrefixInv(op)'
  <2>1. UNCHANGED <<pidlog, shellVars, role>>
    BY <1>12 DEF Bind, Exit, Destroy, diskVars
  <2>2. \A q \in Pids :
           /\ conn'[q] = 0 /\ listen'[q] \in {0, role'[q]}
           /\ stat'[q] = "free" => stat[q] = "free" /\ listen'[q] = 0
    <3>1. /\ stat \in [Pids -> {"free", "boot", "up", "term", "gone"}]
          /\ role \in [Pids -> Roles] /\ listen \in [Pids -> 0..N]
          /\ conn \in [Pids -> 0..N]
      BY <1>u DEF TypeInv, TypeOK
    <3>2. CASE Bind(p)
      BY <3>1, <3>2 DEF Bind, PrefixInv
    <3>3. CASE Exit(p)
      BY <3>1, <3>3 DEF Exit, Destroy, PrefixInv
    <3> QED
      BY <1>12, <3>2, <3>3
  <2> QED
    BY <1>b, <2>1, <2>2, PrefixKept
<1>13. CASE UNCHANGED vars
  BY <1>13, <1>b, PrefixKept DEF vars, procVars, diskVars, PrefixInv
<1>14. \A p \in Pids : ~Spawn(p) /\ \A s \in Services : ~Visit(p, s)
  BY DEF Spawn, Visit
<1> QED
  BY <1>1, <1>3, <1>4, <1>5, <1>6, <1>7, <1>8, <1>9, <1>10, <1>11, <1>12,
     <1>13, <1>14
  DEF Next, Step

(* With one operator and nobody else on the ports, "Start all" leaves no   *)
(* service behind that pid.log does not name, wherever it fails later; a   *)
(* start whose cd failed, which writes to another pid.log, leaves none     *)
(* behind because it has launched none.                                    *)
THEOREM SoloRecordsPrefix ==
    ASSUME NEW op, Ops = {op}, "visit" \notin Events
    PROVE  Spec => []RecordedPrefix
<1>1. Init => PrefixInv(op)
  BY PrefixInvInit
<1>2. PrefixInv(op) /\ [Next]_vars => PrefixInv(op)'
  BY PrefixInvStep
<1>3. PrefixInv(op) => RecordedPrefix
  BY DEF PrefixInv
<1> QED
  BY <1>1, <1>2, <1>3, PTL DEF Spec

-----------------------------------------------------------------------------
(* The script comes nearer to its end with every command.                  *)

(* A wait loop that goes on has turns left.                                *)
Patience == \A o \in Ops : pc[o] = "wait" => count[o] <= Limit[cur[o]]

LEMMA PatienceStep == TypeInv /\ Patience /\ [Next]_vars => Patience'
<1> SUFFICES ASSUME TypeInv, Patience, [Next]_vars,
                    NEW q \in Ops, pc'[q] = "wait"
             PROVE  count'[q] <= Limit'[cur'[q]]
  BY DEF Patience
<1>0. /\ pc \in [Ops -> Labels] /\ count \in [Ops -> Nat] /\ cur \in [Ops -> Services]
      /\ Limit \in [Services -> Nat]
      /\ pc[q] = "wait" => count[q] <= Limit[cur[q]]
  BY ConstantsAssumption DEF TypeInv, TypeOK, Patience, Services
<1>1. ASSUME NEW o \in Ops, Launch(o) PROVE count'[q] <= Limit[cur'[q]]
  <2>1. cur' = cur /\ count' = [count EXCEPT ![o] = 0] /\ pc' = [pc EXCEPT ![o] = "wait"]
    BY <1>1 DEF Launch, Goto
  <2>2. CASE q = o
    <3>1. count'[q] = 0 /\ Limit[cur[q]] \in Nat
      BY <1>0, <2>1, <2>2
    <3> QED
      BY <2>1, <3>1
  <2>3. CASE q # o
    BY <1>0, <2>1, <2>3
  <2> QED
    BY <2>2, <2>3
<1>2. ASSUME NEW o \in Ops, Probe(o) PROVE count'[q] <= Limit[cur'[q]]
  <2>1. cur' = cur /\ count' = [count EXCEPT ![o] = @ + 1] /\ pc[o] = "wait"
    BY <1>2 DEF Probe
  <2>2. CASE q = o
    <3>1. pc' = pc => ~(count[o] + 1 > Limit[cur[o]])
      BY <1>0, <1>2, <2>2 DEF Probe, Goto
    <3>2. pc' = pc
      BY <1>0, <1>2, <2>2 DEF Probe, Goto
    <3>3. count'[q] = count[o] + 1 /\ count[o] \in Nat /\ Limit[cur[o]] \in Nat
      BY <1>0, <2>1, <2>2
    <3> QED
      BY <2>1, <2>2, <3>1, <3>2, <3>3
  <2>3. CASE q # o
    <3>1. pc'[q] = pc[q] /\ count'[q] = count[q]
      BY <1>0, <1>2, <2>1, <2>3 DEF Probe, Goto
    <3> QED
      BY <1>0, <2>1, <3>1
  <2> QED
    BY <2>2, <2>3
<1>3. ASSUME NEW o \in Ops,
             \/ StartAll(o) \/ StopAll(o) \/ Clear(o) \/ Abort(o) \/ Provision(o)
             \/ Wipe(o) \/ Unpack(o) \/ Record(o) \/ GiveUp(o) \/ Finish(o)
             \/ Signal(o) \/ LastLine(o) \/ Unlog(o)
      PROVE  pc'[q] = pc[q] /\ count'[q] = count[q] /\ cur'[q] = cur[q]
  <2>1. pc[q] = "wait" /\ pc'[q] = pc[q] => count'[q] = count[q] /\ cur'[q] = cur[q]
    BY <1>0, <1>3 DEF StartAll, StopAll, Clear, Abort, Provision, Wipe, Unpack, Record,
                      GiveUp, Finish, Signal, LastLine, Unlog, Goto, Quit, shellVars
  <2>2. pc'[q] = pc[q]
    BY <1>0, <1>3 DEF StartAll, StopAll, Clear, Abort, Provision, Wipe, Unpack, Record,
                      GiveUp, Finish, Signal, LastLine, Unlog, Goto, Quit
  <2> QED
    BY <2>1, <2>2
<1>4. CASE UNCHANGED shellVars
  BY <1>0, <1>4 DEF shellVars
<1>5. CASE Reboot
  BY <1>5 DEF Reboot
<1>6. CASE \/ \E p \in Pids : Bind(p) \/ Exit(p) \/ Spawn(p)
           \/ \E p \in Pids, s \in Services : Visit(p, s)
           \/ UNCHANGED vars
  <2>1. UNCHANGED shellVars
    BY <1>6 DEF Bind, Exit, Spawn, Visit, vars
  <2> QED
    BY <1>4, <2>1
<1> QED
  BY <1>0, <1>1, <1>2, <1>3, <1>5, <1>6 DEF Next, Step

(* What the three measures are made of.                                    *)
LEMMA MeasureTypes ==
    ASSUME TypeInv, NEW o \in Ops
    PROVE  /\ pc[o] \in Labels /\ cur[o] \in 1..N /\ count[o] \in Nat
           /\ row[o] \in Nat \ {0} /\ Len(pidlog) \in Nat /\ N \in Nat
           /\ Limit[cur[o]] \in Nat
  BY ConstantsAssumption DEF TypeInv, TypeOK, Services

(* A step of the script itself.                                            *)
LEMMA StepAdvances ==
    ASSUME TypeInv, TypeInv', Patience, Patience', NEW o \in Ops, Step(o)
    PROVE  Nearer(o)
<1>0. /\ pc \in [Ops -> Labels] /\ cur \in [Ops -> Services] /\ count \in [Ops -> Nat]
      /\ row \in [Ops -> Nat \ {0}]
  BY DEF TypeInv, TypeOK
<1>1. ASSUME Parts[pc'[o]] < Parts[pc[o]] PROVE Nearer(o)
  BY <1>1 DEF Nearer, PartsLeft
<1>2. CASE pc'[o] = "off"
  <2>1. pc[o] \in Labels \ {"off"}
    BY <1>0, <1>2 DEF Step, Provision, Wipe, Unpack, Launch, Probe, Record, GiveUp, Finish,
                      Signal, LastLine, Unlog, Labels
  <2>2. Parts[pc'[o]] < Parts[pc[o]]
    BY <1>2, <2>1 DEF Parts, Labels
  <2> QED
    BY <1>1, <2>2
<1>3. CASE Provision(o) \/ GiveUp(o) \/ Finish(o) \/ Unlog(o)
  <2>1. pc'[o] = "off" \/ (pc[o] = "provision" /\ pc'[o] = "wipe")
    <3>1. Quit(o) \/ (pc[o] = "provision" /\ Goto(o, "wipe"))
      BY <1>3 DEF Provision, GiveUp, Finish, Unlog
    <3> QED
      BY <1>0, <3>1 DEF Quit, Goto
  <2>2. CASE pc[o] = "provision" /\ pc'[o] = "wipe"
    BY <1>1, <2>2 DEF Parts
  <2> QED
    BY <1>2, <2>1, <2>2
<1>4. CASE Wipe(o) \/ Unpack(o) \/ LastLine(o)
  <2>1. \/ pc[o] = "wipe" /\ pc'[o] = "unpack"
        \/ pc[o] = "unpack" /\ pc'[o] = "launch"
        \/ pc[o] = "kill" /\ pc'[o] = "unlog"
    BY <1>0, <1>4 DEF Wipe, Unpack, LastLine, Goto
  <2>2. Parts[pc'[o]] < Parts[pc[o]]
    BY <2>1 DEF Parts
  <2> QED
    BY <1>1, <2>2
<1>5. CASE Launch(o)
  <2>1. /\ pc[o] = "launch" /\ pc'[o] = "wait" /\ cur'[o] = cur[o] /\ count'[o] = 0
    BY <1>0, <1>5 DEF Launch, Goto
  <2>2. PartsLeft(o)' = PartsLeft(o) /\ RoundsLeft(o)' = RoundsLeft(o)
    BY <2>1 DEF PartsLeft, RoundsLeft, Parts
  <2>3. TurnsLeft(o)' = Limit[cur[o]] - 0 + 2 /\ TurnsLeft(o) = Limit[cur[o]] + 3
    BY <2>1 DEF TurnsLeft
  <2>4. TurnsLeft(o)' \in 0..TurnsLeft(o) - 1
    BY <2>3, MeasureTypes
  <2> QED
    BY <2>2, <2>4 DEF Nearer
<1>6. CASE Probe(o)
  <2>1. /\ pc[o] = "wait" /\ pc'[o] \in {"wait", "record", "giveup"}
        /\ cur'[o] = cur[o] /\ count'[o] = count[o] + 1
    BY <1>0, <1>6 DEF Probe, Goto
  <2>2. PartsLeft(o)' = PartsLeft(o) /\ RoundsLeft(o)' = RoundsLeft(o)
    BY <2>1 DEF PartsLeft, RoundsLeft, Parts
  <2>3. count[o] <= Limit[cur[o]] /\ (pc'[o] = "wait" => count[o] + 1 <= Limit[cur[o]])
    BY <2>1 DEF Patience
  <2>4. /\ TurnsLeft(o) = Limit[cur[o]] - count[o] + 2
        /\ TurnsLeft(o)' = IF pc'[o] = "wait" THEN Limit[cur[o]] - (count[o] + 1) + 2 ELSE 0
    BY <2>1 DEF TurnsLeft
  <2>5. TurnsLeft(o)' \in 0..TurnsLeft(o) - 1
    BY <2>3, <2>4, MeasureTypes
  <2> QED
    BY <2>2, <2>5 DEF Nearer
<1>7. CASE Record(o)
  <2>1. pc[o] = "record"
    BY <1>7 DEF Record
  <2>2. CASE cur[o] = N
    <3>1. pc'[o] = "done"
      BY <1>0, <1>7, <2>2 DEF Record, Goto
    <3>2. Parts[pc'[o]] < Parts[pc[o]]
      BY <2>1, <3>1 DEF Parts
    <3> QED
      BY <1>1, <3>2
  <2>3. CASE cur[o] # N
    <3>1. pc'[o] = "launch" /\ cur'[o] = cur[o] + 1
      BY <1>0, <1>7, <2>3 DEF Record, Goto
    <3>2. PartsLeft(o)' = PartsLeft(o)
      BY <2>1, <3>1 DEF PartsLeft, Parts
    <3>3. RoundsLeft(o) = N - cur[o] /\ RoundsLeft(o)' = N - (cur[o] + 1)
      BY <2>1, <3>1 DEF RoundsLeft
    <3>4. RoundsLeft(o)' \in 0..RoundsLeft(o) - 1
      BY <2>3, <3>3, MeasureTypes
    <3> QED
      BY <3>2, <3>4 DEF Nearer
  <2> QED
    BY <2>2, <2>3
<1>8. CASE Signal(o)
  <2>1. /\ pc[o] = "kill" /\ pc'[o] = "kill" /\ HasLine(o)
        /\ row'[o] = row[o] + 1 /\ pidlog' = pidlog /\ cwd' = cwd
    BY <1>0, <1>8 DEF Signal, diskVars
  <2>2. PartsLeft(o)' = PartsLeft(o)
    BY <2>1 DEF PartsLeft
  <2>3. RoundsLeft(o) = Len(pidlog) - row[o] + 1
    BY <2>1 DEF RoundsLeft
  <2>4. RoundsLeft(o)' = IF row[o] + 1 <= Len(pidlog) THEN Len(pidlog) - (row[o] + 1) + 1 ELSE 0
    BY <2>1 DEF RoundsLeft, HasLine
  <2>5. row[o] <= Len(pidlog)
    BY <2>1 DEF HasLine
  <2>6. RoundsLeft(o)' \in 0..RoundsLeft(o) - 1
    BY <2>3, <2>4, <2>5, MeasureTypes
  <2> QED
    BY <2>2, <2>6 DEF Nearer
<1> QED
  BY <1>3, <1>4, <1>5, <1>6, <1>7, <1>8 DEF Step

(* What others do to a script: nothing, or they take pid.log away.         *)
LEMMA OthersKeep ==
    ASSUME TypeInv, NEW o \in Ops,
           pc'[o] = pc[o], cur'[o] = cur[o], count'[o] = count[o], row'[o] = row[o],
           \/ Len(pidlog') = Len(pidlog) /\ cwd'[o] = cwd[o]
           \/ pidlog' = <<>>
    PROVE  Nearer(o) \/ AsFar(o)
<1>1. PartsLeft(o)' = PartsLeft(o) /\ TurnsLeft(o)' = TurnsLeft(o)
  BY DEF PartsLeft, TurnsLeft
<1>2. CASE Len(pidlog') = Len(pidlog) /\ cwd'[o] = cwd[o]
  <2>1. RoundsLeft(o)' = RoundsLeft(o)
    BY <1>2 DEF RoundsLeft, HasLine
  <2> QED
    BY <1>1, <2>1 DEF AsFar
<1>3. CASE pidlog' = <<>>
  <2>1. ~HasLine(o)'
    <3>1. Len(pidlog') = 0
      BY <1>3, EmptySeq
    <3> QED
      BY <3>1, MeasureTypes DEF HasLine
  <2>2. CASE pc[o] = "kill" /\ HasLine(o)
    <3>1. RoundsLeft(o) = Len(pidlog) - row[o] + 1 /\ RoundsLeft(o)' = 0
      BY <2>1, <2>2 DEF RoundsLeft
    <3>2. row[o] <= Len(pidlog)
      BY <2>2 DEF HasLine
    <3>3. RoundsLeft(o)' \in 0..RoundsLeft(o) - 1
      BY <3>1, <3>2, MeasureTypes
    <3> QED
      BY <1>1, <3>3 DEF Nearer
  <2>3. CASE ~(pc[o] = "kill" /\ HasLine(o))
    <3>1. RoundsLeft(o)' = RoundsLeft(o)
      BY <2>1, <2>3 DEF RoundsLeft
    <3> QED
      BY <1>1, <3>1 DEF AsFar
  <2> QED
    BY <2>2, <2>3
<1> QED
  BY <1>2, <1>3

(* A step of another terminal.                                             *)
LEMMA TerminalsKeep ==
    ASSUME TypeInv, NEW o \in Ops, pc[o] # "off", NEW q \in Ops, q # o,
           StartAll(q) \/ StopAll(q) \/ Clear(q) \/ Step(q) \/ Abort(q),
           Len(pidlog') <= Len(pidlog)
    PROVE  Nearer(o) \/ AsFar(o)
<1>0. /\ pc \in [Ops -> Labels] /\ cur \in [Ops -> Services] /\ count \in [Ops -> Nat]
      /\ row \in [Ops -> Nat \ {0}] /\ cwd \in [Ops -> {"top", "stack", "stale"}]
  BY DEF TypeInv, TypeOK
<1> USE DEF Goto, Quit, diskVars
<1>1. CASE StartAll(q) \/ StopAll(q) \/ Abort(q) \/ Provision(q) \/ Unpack(q)
  <2>1. /\ pc'[o] = pc[o] /\ cur'[o] = cur[o] /\ count'[o] = count[o] /\ row'[o] = row[o]
        /\ pidlog' = pidlog /\ cwd'[o] = cwd[o]
    BY <1>0, <1>1 DEF StartAll, StopAll, Abort, Provision, Unpack
  <2> QED
    BY <2>1, OthersKeep
<1>2. CASE Launch(q) \/ Probe(q) \/ GiveUp(q) \/ Finish(q) \/ Signal(q) \/ LastLine(q)
  <2>1. pc'[o] = pc[o] /\ cur'[o] = cur[o] /\ count'[o] = count[o] /\ row'[o] = row[o]
    BY <1>0, <1>2 DEF Launch, Probe, GiveUp, Finish, Signal, LastLine
  <2>2. pidlog' = pidlog /\ cwd'[o] = cwd[o]
    BY <1>0, <1>2 DEF Launch, Probe, GiveUp, Finish, Signal, LastLine
  <2> QED
    BY <2>1, <2>2, OthersKeep
<1>3. CASE Clear(q) \/ Wipe(q)
  <2>1. /\ pc'[o] = pc[o] /\ cur'[o] = cur[o] /\ count'[o] = count[o] /\ row'[o] = row[o]
        /\ pidlog' = <<>>
    BY <1>0, <1>3 DEF Clear, Wipe
  <2> QED
    BY <2>1, OthersKeep
<1>4. CASE Unlog(q)
  <2>1. /\ pc'[o] = pc[o] /\ cur'[o] = cur[o] /\ count'[o] = count[o] /\ row'[o] = row[o]
        /\ pidlog' \in {<<>>, pidlog} /\ cwd'[o] = cwd[o]
    BY <1>0, <1>4 DEF Unlog
  <2> QED
    BY <2>1, OthersKeep
<1>5. CASE Record(q)
  <2>1. /\ pc'[o] = pc[o] /\ cur'[o] = cur[o] /\ count'[o] = count[o] /\ row'[o] = row[o]
        /\ cwd'[o] = cwd[o]
    BY <1>0, <1>5 DEF Record
  <2>2. Len(pidlog') = Len(pidlog)
    <3>1. CASE cwd[q] = "stack"
      <4>1. found[q] \in SUBSET Pids /\ pidlog \in Seq(Pids)
        BY DEF TypeInv, TypeOK
      <4>2. PICK l \in Lines(found[q]) : pidlog' = pidlog \o l
        BY <1>5, <3>1 DEF Record
      <4>3. l \in Seq(Pids)
        BY <4>1, LinesType
      <4>4. Len(pidlog') = Len(pidlog) + Len(l) /\ Len(l) \in Nat /\ Len(pidlog) \in Nat
        BY <4>1, <4>2, <4>3, ConcatProperties
      <4> QED
        BY <4>4
    <3>2. CASE cwd[q] # "stack"
      BY <1>5, <3>2 DEF Record
    <3> QED
      BY <3>1, <3>2
  <2> QED
    BY <2>1, <2>2, OthersKeep
<1> QED
  BY <1>1, <1>2, <1>3, <1>4, <1>5 DEF Step

(* Every command of a script brings its end nearer, and neither processes  *)
(* nor other terminals take it away again, unless pid.log grows, for any   *)
(* number of them, any number of services and any patience.                *)
THEOREM ScriptComesNearer == Spec => ScriptAdvances
<1>1. ASSUME TypeInv, TypeInv', Patience, Patience', Next, NEW o \in Ops, pc[o] # "off",
             Len(pidlog') <= Len(pidlog)
      PROVE  Nearer(o) \/ AsFar(o)
  <2>0. pc \in [Ops -> Labels]
    BY <1>1 DEF TypeInv, TypeOK
  <2>1. ASSUME pc'[o] = "off" PROVE Nearer(o)
    <3>1. Parts[pc'[o]] < Parts[pc[o]]
      BY <1>1, <2>0, <2>1 DEF Parts, Labels
    <3> QED
      BY <3>1 DEF Nearer, PartsLeft
  <2>2. ASSUME NEW q \in Ops, StartAll(q) \/ StopAll(q) \/ Clear(q) \/ Step(q) \/ Abort(q)
        PROVE  Nearer(o) \/ AsFar(o)
    <3>1. CASE q # o
      BY <1>1, <2>2, <3>1, TerminalsKeep
    <3>2. CASE q = o
      <4>1. CASE Step(o)
        BY <1>1, <4>1, StepAdvances
      <4>2. CASE Abort(o)
        BY <2>0, <2>1, <4>2 DEF Abort, Quit, Goto
      <4>3. ~StartAll(o) /\ ~StopAll(o) /\ ~Clear(o)
        BY <1>1 DEF StartAll, StopAll, Clear
      <4> QED
        BY <2>2, <3>2, <4>1, <4>2, <4>3
    <3> QED
      BY <3>1, <3>2
  <2>3. CASE Reboot
    BY <2>1, <2>3 DEF Reboot
  <2>4. CASE \/ \E p \in Pids : Bind(p) \/ Exit(p) \/ Spawn(p)
             \/ \E p \in Pids, s \in Services : Visit(p, s)
    <3>1. UNCHANGED shellVars /\ UNCHANGED diskVars
      BY <2>4 DEF Bind, Exit, Spawn, Visit
    <3> QED
      BY <1>1, <3>1, OthersKeep DEF shellVars, diskVars
  <2> QED
    BY <1>1, <2>2, <2>3, <2>4 DEF Next
<1>2. ASSUME TypeInv, TypeInv', Patience, Patience', [Next]_vars
      PROVE  [\A o \in Ops : pc[o] # "off" =>
                /\ Step(o) => Nearer(o)
                /\ Len(pidlog') <= Len(pidlog) => Nearer(o) \/ AsFar(o)]_vars
  BY <1>1, <1>2, StepAdvances
<1>3. Init => Patience
  BY DEF Init, Patience
<1> QED
  BY <1>2, <1>3, TypeInvInit, TypeInvStep, PatienceStep, PTL DEF Spec, ScriptAdvances

=============================================================================
