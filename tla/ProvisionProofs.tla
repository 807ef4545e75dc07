-------------------------- MODULE ProvisionProofs --------------------------
(***************************************************************************)
(* Proofs about Provision, for every number of tries.                      *)
(***************************************************************************)
EXTENDS Provision, TLAPS

(* What a run knows of the host. The parts present inside the download     *)
(* loop are those of its last try, and redis is configured by the time the *)
(* loop that installed it is entered again.                                *)
ProvInv ==
    /\ TypeOK
    /\ ToolsReady
    /\ pc \in {"parts", "ready"} => \A i \in 1..2 : part[i] \in {0, count}
    /\ pc = "ready" => HasParts
    /\ pc \in {"jdk", "mysql", "database", "user"} => ~had
    /\ pc = "redis" /\ "redis" \in have /\ count > 0 => redis # "default"
    /\ pc = "conf" => count > 0 /\ "redis" \in have
    /\ RedisConfigured

LEMMA ProvInvInit == Init => ProvInv
<1> SUFFICES ASSUME Init PROVE ProvInv
  OBVIOUS
<1>1. part \in [1..2 -> 0..MaxTries] /\ count \in 0..MaxTries
  BY TriesAssumption DEF Init
<1> QED
  BY <1>1
  DEF Init, ProvInv, TypeOK, ToolsReady, Passed, RedisConfigured, Labels, Tools

LEMMA ProvInvStep == ProvInv /\ [Next]_vars => ProvInv'
<1> SUFFICES ASSUME ProvInv, [Next]_vars PROVE ProvInv'
  OBVIOUS
<1> USE TriesAssumption
    DEF ProvInv, TypeOK, ToolsReady, Passed, RedisConfigured, HasParts, Labels,
        Tools, Enter, hostVars
<1>1. CASE Start
  <2>1. pc' = "jdk" /\ count' = 0 /\ had' = FALSE
    BY <1>1 DEF Start
  <2>2. UNCHANGED <<have, made, redis, part>> /\ count' \in 0..MaxTries
    BY <1>1, <2>1 DEF Start
  <2> QED
    BY <2>1, <2>2
<1>2. ASSUME NEW t \in Tools, Present(t) PROVE ProvInv'
  <2>1. /\ After["jdk"] = "mysql" /\ After["mysql"] = "database"
        /\ After["redis"] = "unrar" /\ After["unrar"] = "clean"
    BY DEF After
  <2>2. CASE t = "jdk"
    BY <1>2, <2>1, <2>2 DEF Present
  <2>3. CASE t = "mysql"
    BY <1>2, <2>1, <2>3 DEF Present
  <2>4. CASE t = "redis"
    <3>1. pc = "redis" /\ pc' = "unrar" /\ count' = 0 /\ "redis" \in have
      BY <1>2, <2>1, <2>4 DEF Present
    <3>2. UNCHANGED <<have, made, redis, part>> /\ count' \in 0..MaxTries
      BY <1>2, <2>4 DEF Present
    <3>3. had' \in BOOLEAN
      BY <1>2, <2>4 DEF Present
    <3>4. had' = FALSE => count > 0
      BY <1>2, <2>4 DEF Present
    <3> QED
      BY <3>1, <3>2, <3>3, <3>4
  <2>5. CASE t = "unrar"
    BY <1>2, <2>1, <2>5 DEF Present
  <2> QED
    BY <2>2, <2>3, <2>4, <2>5
<1>3. ASSUME NEW t \in Tools, OutOfTries(t) PROVE ProvInv'
  <2>1. pc' = "idle" /\ count' = 0 /\ UNCHANGED <<have, made, redis, part, had>>
    BY <1>3 DEF OutOfTries
  <2>2. count' \in 0..MaxTries
    BY <2>1
  <2> QED
    BY <2>1, <2>2
<1>4. ASSUME NEW t \in Tools, Install(t) PROVE ProvInv'
  BY <1>4 DEF Install
<1>5. CASE MakeInMysql("database", "user")
  BY <1>5 DEF MakeInMysql
<1>6. CASE MakeInMysql("user", "redis")
  BY <1>6 DEF MakeInMysql
<1>7. CASE Configure
  BY <1>7 DEF Configure
<1>8. CASE CleanParts
  BY <1>8 DEF CleanParts
<1>9. CASE Fetch
  BY <1>9 DEF Fetch
<1>10. CASE FetchGivesUp \/ Ready \/ HandOver
  BY <1>10 DEF FetchGivesUp, Ready, HandOver
<1>11. CASE Clear
  BY <1>11 DEF Clear
<1>12. CASE Interrupt
  BY <1>12 DEF Interrupt
<1>13. CASE UNCHANGED vars
  BY <1>13 DEF vars
<1> QED
  BY <1>1, <1>2, <1>3, <1>4, <1>5, <1>6, <1>7, <1>8, <1>9, <1>10, <1>11, <1>12,
     <1>13
  DEF Next, Step

LEMMA ProvInvAlways == Spec => []ProvInv
  BY ProvInvInit, ProvInvStep, PTL DEF Spec

(* No run gets past the loop of a tool that is not installed.              *)
THEOREM ToolsAreReady == Spec => []ToolsReady
<1>1. ProvInv => ToolsReady
  BY DEF ProvInv
<1> QED
  BY <1>1, ProvInvAlways, PTL

(* The two parts that are unpacked were fetched by the same try.           *)
THEOREM OneTryFetchesBoth == Spec => []PartsOfOneTry
<1>1. ProvInv => PartsOfOneTry
  BY DEF ProvInv, PartsOfOneTry, HasParts, TypeOK
<1> QED
  BY <1>1, ProvInvAlways, PTL

(* A run that installed redis goes on only when redis.conf arrived and the *)
(* commands that put it in force were run, or it exits.                    *)
THEOREM InstallerConfigures == Spec => []RedisConfigured
<1>1. ProvInv => RedisConfigured
  BY DEF ProvInv
<1> QED
  BY <1>1, ProvInvAlways, PTL

(* No download is tried more often than its loop allows (line 171).        *)
THEOREM ProvisionTypes == Spec => []TypeOK
<1>1. ProvInv => TypeOK
  BY DEF ProvInv
<1> QED
  BY <1>1, ProvInvAlways, PTL

(* A loop less outweighs all the tries of a loop.                          *)
LEMMA LoopOutweighsTries ==
  ASSUME NEW l \in Nat, NEW m \in Nat, m < l, NEW M \in Nat,
         NEW c \in 0..M, NEW d \in 0..M, NEW x \in {0, 1}
  PROVE  m * (2 * M + 2) + 2 * (M - d) + 0 \in 0..(l * (2 * M + 2) + 2 * (M - c) + x) - 1
<1>1. PICK K \in Nat : K = 2 * M + 2
  OBVIOUS
<1>2. l * K >= (m + 1) * K
  BY <1>1
<1>3. (m + 1) * K = m * K + K
  BY <1>1
<1>4. PICK a \in Nat, b \in Nat : a = l * K /\ b = m * K
  BY <1>1
<1>5. b + 2 * (M - d) + 0 \in 0..(a + 2 * (M - c) + x) - 1
  BY <1>1, <1>2, <1>3, <1>4
<1> QED
  BY <1>1, <1>4, <1>5

(* So a step into a later loop, or out of the script, brings the end       *)
(* nearer, wherever the count of this loop was.                            *)
LEMMA NextLoopIsNearer ==
  ASSUME TypeOK, pc' \in Labels, count' \in 0..MaxTries,
         Loops[pc'] < Loops[pc], pc' # "conf"
  PROVE  StepsLeft' \in 0..StepsLeft - 1
<1>1. Loops[pc] \in Nat /\ Loops[pc'] \in Nat
  BY DEF TypeOK, Labels, Tools, Loops
<1>2. MaxTries \in Nat /\ count \in 0..MaxTries
  BY TriesAssumption DEF TypeOK
<1>3. PICK x \in {0, 1} : x = IF pc = "conf" THEN 1 ELSE 0
  OBVIOUS
<1>4. Loops[pc'] * (2 * MaxTries + 2) + 2 * (MaxTries - count') + 0
        \in 0..(Loops[pc] * (2 * MaxTries + 2) + 2 * (MaxTries - count) + x) - 1
  BY <1>1, <1>2, LoopOutweighsTries
<1>5. StepsLeft' = Loops[pc'] * (2 * MaxTries + 2) + 2 * (MaxTries - count') + 0
  BY DEF StepsLeft
<1> QED
  BY <1>3, <1>4, <1>5 DEF StepsLeft

(* A try of a loop brings its end nearer by two, and redis.conf, the one   *)
(* step between two tries, takes one of them.                              *)
LEMMA NextTryIsNearer ==
  ASSUME TypeOK, pc' \in Labels, count' \in 0..MaxTries, Loops[pc'] = Loops[pc],
         \/ count' = count + 1 /\ pc # "conf"
         \/ count' = count /\ pc = "conf" /\ pc' # "conf"
  PROVE  StepsLeft' \in 0..StepsLeft - 1
<1>1. /\ MaxTries \in Nat
      /\ count \in Nat /\ count <= MaxTries /\ count' \in Nat /\ count' <= MaxTries
  BY TriesAssumption DEF TypeOK
<1>2. PICK a \in Nat : a = Loops[pc] * (2 * MaxTries + 2)
  <2>1. Loops[pc] \in Nat
    BY DEF TypeOK, Labels, Tools, Loops
  <2> QED
    BY <2>1, <1>1
<1>3. StepsLeft = a + 2 * (MaxTries - count) + (IF pc = "conf" THEN 1 ELSE 0)
  BY <1>2 DEF StepsLeft
<1>4. StepsLeft' = a + 2 * (MaxTries - count') + (IF pc' = "conf" THEN 1 ELSE 0)
  BY <1>2 DEF StepsLeft
<1>5. CASE count' = count + 1 /\ pc # "conf"
  BY <1>1, <1>3, <1>4, <1>5
<1>6. CASE count' = count /\ pc = "conf" /\ pc' # "conf"
  BY <1>1, <1>3, <1>4, <1>6
<1> QED
  BY <1>5, <1>6

(* A run is nearer to its end after every step, for any number of tries.   *)
THEOREM RunComesNearer == Spec => RunAdvances
<1>1. ASSUME ProvInv, ProvInv', Step \/ Interrupt, pc # "idle"
      PROVE  StepsLeft' \in 0..StepsLeft - 1
  <2> USE DEF Enter, Labels, Tools, Loops, After
  <2>1. TypeOK /\ pc' \in Labels /\ count' \in 0..MaxTries
    BY <1>1 DEF ProvInv, TypeOK
  <2>2. pc \in Labels
    BY <1>1 DEF ProvInv, TypeOK
  <2>3. ASSUME NEW t \in Tools, Present(t) PROVE StepsLeft' \in 0..StepsLeft - 1
    <3>1. Loops[pc'] < Loops[pc] /\ pc' # "conf"
      BY <2>3 DEF Present
    <3> QED
      BY <2>1, <3>1, NextLoopIsNearer
  <2>4. ASSUME NEW t \in Tools, Install(t) PROVE StepsLeft' \in 0..StepsLeft - 1
    <3>1. Loops[pc'] = Loops[pc] /\ count' = count + 1 /\ pc # "conf"
      BY <2>4 DEF Install
    <3> QED
      BY <2>1, <3>1, NextTryIsNearer
  <2>5. CASE pc' = "idle"
    <3>1. Loops[pc'] < Loops[pc]
      BY <1>1, <2>2, <2>5
    <3> QED
      BY <2>1, <2>5, <3>1, NextLoopIsNearer
  <2>6. CASE MakeInMysql("database", "user") \/ MakeInMysql("user", "redis")
    <3>1. Loops[pc'] < Loops[pc] /\ pc' # "conf"
      BY <2>6 DEF MakeInMysql
    <3> QED
      BY <2>1, <3>1, NextLoopIsNearer
  <2>7. CASE Configure
    <3>1. CASE pc' = "redis"
      <4>1. Loops[pc'] = Loops[pc] /\ count' = count /\ pc = "conf"
        BY <2>7, <3>1 DEF Configure
      <4> QED
        BY <2>1, <3>1, <4>1, NextTryIsNearer
    <3> QED
      BY <2>5, <2>7, <3>1 DEF Configure
  <2>8. CASE CleanParts \/ Ready
    <3>1. Loops[pc'] < Loops[pc] /\ pc' # "conf"
      BY <2>8 DEF CleanParts, Ready
    <3> QED
      BY <2>1, <3>1, NextLoopIsNearer
  <2>9. CASE Fetch
    <3>1. Loops[pc'] = Loops[pc] /\ count' = count + 1 /\ pc # "conf"
      BY <2>9 DEF Fetch
    <3> QED
      BY <2>1, <3>1, NextTryIsNearer
  <2>10. CASE \/ \E t \in Tools : OutOfTries(t)
              \/ FetchGivesUp \/ HandOver \/ Interrupt
    BY <2>5, <2>10 DEF OutOfTries, FetchGivesUp, HandOver, Interrupt
  <2> QED
    BY <1>1, <2>3, <2>4, <2>6, <2>7, <2>8, <2>9, <2>10 DEF Step
<1>2. ASSUME ProvInv, ProvInv', [Next]_vars
      PROVE  [pc # "idle" => StepsLeft' \in 0..StepsLeft - 1]_vars
  <2>1. CASE Start \/ Clear
    BY <2>1 DEF Start, Clear
  <2>2. CASE Step \/ Interrupt
    BY <1>1, <1>2, <2>2
  <2> QED
    BY <1>2, <2>1, <2>2 DEF Next
<1> QED
  BY <1>2, ProvInvAlways, PTL DEF Spec, RunAdvances

=============================================================================
