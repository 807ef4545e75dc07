------------------------- MODULE SwitchScriptProofs -------------------------
(***************************************************************************)
(* What "Show" prints is what runs, and what the V2Ray choice prints is    *)
(* what it wrote, for any set of ports.                                    *)
(***************************************************************************)
EXTENDS SwitchScript, TLAPS

V2Busy  == pc \in {"v_install", "v_config", "v_dy", "v_al", "v_id", "v_start"}
V2Edit  == pc \in {"v_dy", "v_al", "v_id", "v_start"}
SsrBusy == pc \in {"s_clone", "s_config", "s_port", "s_id", "s_start"}

(* The configuration of V2Ray at each label of the substitution.           *)
SubstInv ==
    vconf # Missing =>
        /\ pc = "v_dy" => vconf = V2Template
        /\ pc = "v_al" => vconf = [dy |-> dy, al |-> AlMark, id |-> "uuid"]
        /\ pc = "v_id" =>
              vconf = [dy |-> IF dy = AlMark THEN al ELSE dy, al |-> al, id |-> "uuid"]
        /\ pc = "v_start" =>
              vconf = [dy |-> IF dy = AlMark THEN al ELSE dy, al |-> al, id |-> "drawn"]

(* No server runs while its files are edited.                              *)
SwitchInv ==
    /\ TypeOK
    /\ SubstInv
    /\ V2Edit => vrun = Missing
    /\ SsrBusy => srun[cwd] = Missing
    /\ \A d \in Dirs : ~sdir[d] => sconf[d] = Missing
    /\ ShownIsServed

LEMMA FilesType ==
    /\ V2Template \in V2Files /\ V2Package \in V2Files
    /\ SsrTemplate \in SsrFiles /\ SsrPackage \in SsrFiles
    /\ Missing \notin V2Files /\ Missing \notin SsrFiles
  BY SwitchAssumption, MissingAssumption
     DEF V2Template, V2Package, SsrTemplate, SsrPackage, V2Files, SsrFiles, Secrets

LEMMA SwitchInvInit == Init => SwitchInv
  BY FilesType
     DEF Init, SwitchInv, TypeOK, SubstInv, ShownIsServed, V2Edit, SsrBusy, Labels

(* What sed leaves is a configuration.                                     *)
LEMMA PutPortType ==
    ASSUME NEW c \in V2Files, NEW m \in Ports, NEW p \in Ports
    PROVE  /\ PutPort(c, m, p) \in V2Files
           /\ PutPort(c, m, p) = [dy |-> IF c.dy = m THEN p ELSE c.dy,
                                  al |-> IF c.al = m THEN p ELSE c.al, id |-> c.id]
<1>1. c # Missing
  BY FilesType
<1>2. PutPort(c, m, p) = [c EXCEPT !.dy = IF @ = m THEN p ELSE @,
                                   !.al = IF @ = m THEN p ELSE @]
  BY <1>1 DEF PutPort
<1> QED
  BY <1>2 DEF V2Files

LEMMA PutIdType ==
    /\ \A c \in V2Files :
          PutId(c) \in V2Files
          /\ PutId(c) = [dy |-> c.dy, al |-> c.al,
                         id |-> IF c.id = "uuid" THEN "drawn" ELSE c.id]
    /\ \A c \in SsrFiles : PutId(c) \in SsrFiles
<1>1. ASSUME NEW c \in V2Files
      PROVE  /\ PutId(c) \in V2Files
             /\ PutId(c) = [dy |-> c.dy, al |-> c.al,
                            id |-> IF c.id = "uuid" THEN "drawn" ELSE c.id]
  <2>1. PutId(c) = [c EXCEPT !.id = IF @ = "uuid" THEN "drawn" ELSE @]
    BY FilesType DEF PutId
  <2> QED
    BY <2>1 DEF V2Files, Secrets
<1>2. ASSUME NEW c \in SsrFiles PROVE PutId(c) \in SsrFiles
  <2>1. PutId(c) = [c EXCEPT !.id = IF @ = "uuid" THEN "drawn" ELSE @]
    BY FilesType DEF PutId
  <2> QED
    BY <2>1 DEF SsrFiles, Secrets
<1> QED
  BY <1>1, <1>2

(* What stop.sh leaves running.                                            *)
LEMMA StoppedFacts ==
    ASSUME TypeOK, NEW d \in Dirs, NEW run \in Stopped(d)
    PROVE  /\ run \in [Dirs -> SsrFiles \cup {Missing}]
           /\ \A e \in Dirs : run[e] \in {srun[e], Missing}
           /\ run[d] = Missing
<1>1. PICK S \in SUBSET Dirs :
         d \in S /\ run = [e \in Dirs |-> IF e \in S THEN Missing ELSE srun[e]]
  BY DEF Stopped
<1> QED
  BY <1>1 DEF TypeOK

(* A step of the SSR choice up to the start: it works in one directory,    *)
(* out of which nothing runs.                                              *)
LEMMA SsrKept ==
    ASSUME SwitchInv, UNCHANGED <<taken, vconf, vrun, venabled, al>>, dy' \in Ports \cup {0},
           pc' \in {"s_clone", "s_config", "s_port", "s_id", "s_start"},
           cwd' \in Dirs,
           srun' \in [Dirs -> SsrFiles \cup {Missing}],
           \A e \in Dirs : srun'[e] \in {srun[e], Missing},
           srun'[cwd'] = Missing,
           sdir' \in [Dirs -> BOOLEAN],
           sconf' \in [Dirs -> SsrFiles \cup {Missing}],
           \A e \in Dirs : e # cwd' => sdir'[e] = sdir[e] /\ sconf'[e] = sconf[e],
           ~sdir'[cwd'] => sconf'[cwd'] = Missing
    PROVE  SwitchInv'
<1>1. TypeOK'
  BY DEF SwitchInv, TypeOK, Labels
<1>2. SubstInv' /\ ~V2Edit' /\ (vrun # Missing => vrun = vconf)
  BY DEF SwitchInv, SubstInv, V2Edit, ShownIsServed
<1>3. \A e \in Dirs : ~sdir'[e] => sconf'[e] = Missing
  BY DEF SwitchInv
<1>4. ShownIsServed'
  BY <1>2 DEF SwitchInv, ShownIsServed
<1> QED
  BY <1>1, <1>2, <1>3, <1>4 DEF SwitchInv

LEMMA SwitchInvStep == SwitchInv /\ [Next]_vars => SwitchInv'
<1> SUFFICES ASSUME SwitchInv, [Next]_vars PROVE SwitchInv'
  OBVIOUS
<1> USE DEF SwitchInv, V2Edit, SsrBusy
<1>1. CASE V2Remove
  BY <1>1 DEF V2Remove, TypeOK, SubstInv, ShownIsServed, ssrVars, Labels
<1>2. CASE V2Install
  BY <1>2, FilesType
     DEF V2Install, TypeOK, SubstInv, ShownIsServed, ssrVars, v2Vars, Labels
<1>3. CASE V2Config
  BY <1>3, FilesType
     DEF V2Config, TypeOK, SubstInv, ShownIsServed, ssrVars, Labels
<1>4. CASE V2Dy
  <2>1. /\ dy' \in Ports /\ pc' = "v_al" /\ vrun = Missing
        /\ UNCHANGED <<taken, vrun, venabled, sdir, sconf, srun, cwd, al>>
    BY <1>4 DEF V2Dy, ssrVars
  <2>2. CASE vconf = Missing
    <3>1. vconf' = Missing
      BY <1>4, <2>2 DEF V2Dy, PutPort
    <3> QED
      BY <2>1, <3>1 DEF TypeOK, SubstInv, ShownIsServed, Labels
  <2>3. CASE vconf # Missing
    <3>1. vconf = V2Template
      BY <1>4, <2>3 DEF V2Dy, SubstInv
    <3>2. /\ vconf' \in V2Files
          /\ vconf' = [dy |-> dy', al |-> AlMark, id |-> "uuid"]
      <4>1. V2Template.dy = DyMark /\ V2Template.al = AlMark /\ V2Template.id = "uuid"
        BY DEF V2Template
      <4>2. vconf' = PutPort(V2Template, DyMark, dy')
        BY <1>4, <3>1 DEF V2Dy
      <4> QED
        BY <2>1, <4>1, <4>2, FilesType, PutPortType, SwitchAssumption
    <3> QED
      BY <2>1, <3>2 DEF TypeOK, SubstInv, ShownIsServed, Labels
  <2> QED
    BY <2>2, <2>3
<1>5. CASE V2Al
  <2>1. /\ al' \in Ports /\ pc' = "v_id" /\ vrun = Missing
        /\ UNCHANGED <<taken, vrun, venabled, sdir, sconf, srun, cwd, dy>>
    BY <1>5 DEF V2Al, ssrVars
  <2>2. CASE vconf = Missing
    <3>1. vconf' = Missing
      BY <1>5, <2>2 DEF V2Al, PutPort
    <3> QED
      BY <2>1, <3>1 DEF TypeOK, SubstInv, ShownIsServed, Labels
  <2>3. CASE vconf # Missing
    <3>1. vconf = [dy |-> dy, al |-> AlMark, id |-> "uuid"] /\ vconf \in V2Files
      BY <1>5, <2>3 DEF V2Al, SubstInv, TypeOK
    <3>2. vconf.dy = dy /\ vconf.al = AlMark /\ vconf.id = "uuid"
      BY <3>1
    <3>3. /\ vconf' \in V2Files
          /\ vconf' = [dy |-> IF dy = AlMark THEN al' ELSE dy, al |-> al', id |-> "uuid"]
      BY <1>5, <2>1, <3>1, <3>2, PutPortType, SwitchAssumption DEF V2Al
    <3> QED
      BY <2>1, <3>3 DEF TypeOK, SubstInv, ShownIsServed, Labels
  <2> QED
    BY <2>2, <2>3
<1>6. CASE V2Id
  <2>1. /\ pc' = "v_start" /\ vrun = Missing
        /\ UNCHANGED <<taken, vrun, venabled, sdir, sconf, srun, cwd, dy, al>>
    BY <1>6 DEF V2Id, ssrVars
  <2>2. CASE vconf = Missing
    <3>1. vconf' = Missing
      BY <1>6, <2>2 DEF V2Id, PutId
    <3> QED
      BY <2>1, <3>1 DEF TypeOK, SubstInv, ShownIsServed, Labels
  <2>3. CASE vconf # Missing
    <3> DEFINE first == IF dy = AlMark THEN al ELSE dy
    <3>1. vconf = [dy |-> first, al |-> al, id |-> "uuid"] /\ vconf \in V2Files
      BY <1>6, <2>3 DEF V2Id, SubstInv, TypeOK
    <3>2. vconf.dy = first /\ vconf.al = al /\ vconf.id = "uuid"
      BY <3>1
    <3>3. /\ vconf' \in V2Files
          /\ vconf' = [dy |-> first, al |-> al, id |-> "drawn"]
      BY <1>6, <3>1, <3>2, PutIdType DEF V2Id
    <3> QED
      BY <2>1, <3>3 DEF TypeOK, SubstInv, ShownIsServed, Labels
  <2> QED
    BY <2>2, <2>3
<1>7. CASE V2Start
  BY <1>7 DEF V2Start, TypeOK, SubstInv, ShownIsServed, ssrVars, Labels
<1>8. ASSUME NEW d \in Dirs, SsrRemove(d) PROVE SwitchInv'
  <2>1. /\ pc' = "s_clone" /\ cwd' = d
        /\ sdir' = [sdir EXCEPT ![d] = FALSE] /\ sconf' = [sconf EXCEPT ![d] = Missing]
        /\ UNCHANGED <<taken, vconf, vrun, venabled, dy, al>>
    BY <1>8 DEF SsrRemove, v2Vars
  <2>2. /\ srun' \in [Dirs -> SsrFiles \cup {Missing}]
        /\ \A e \in Dirs : srun'[e] \in {srun[e], Missing}
        /\ srun'[d] = Missing
    <3>1. CASE sdir[d]
      BY <1>8, <3>1, StoppedFacts DEF SsrRemove, TypeOK
    <3>2. CASE ~sdir[d]
      BY <1>8, <3>2 DEF SsrRemove, ShownIsServed, TypeOK
    <3> QED
      BY <3>1, <3>2
  <2>3. /\ sdir' \in [Dirs -> BOOLEAN] /\ sconf' \in [Dirs -> SsrFiles \cup {Missing}]
        /\ \A e \in Dirs : e # d => sdir'[e] = sdir[e] /\ sconf'[e] = sconf[e]
        /\ sconf'[d] = Missing /\ dy' \in Ports \cup {0}
    BY <2>1 DEF TypeOK
  <2> QED
    BY <2>1, <2>2, <2>3, SsrKept
<1>9. CASE SsrClone
  <2>1. /\ pc = "s_clone" /\ pc' = "s_config"
        /\ UNCHANGED <<taken, vconf, vrun, venabled, srun, cwd, dy, al>>
    BY <1>9 DEF SsrClone, v2Vars
  <2>2. CASE UNCHANGED <<sdir, sconf>>
    BY <2>1, <2>2, SsrKept DEF TypeOK, Labels
  <2>3. CASE /\ sdir' = [sdir EXCEPT ![cwd] = TRUE]
             /\ sconf' = [sconf EXCEPT ![cwd] = SsrPackage]
    BY <2>1, <2>3, FilesType, SsrKept DEF TypeOK, Labels
  <2> QED
    BY <1>9, <2>2, <2>3 DEF SsrClone
<1>10. CASE SsrConfig
  <2>1. /\ pc = "s_config" /\ pc' = "s_port"
        /\ UNCHANGED <<taken, vconf, vrun, venabled, sdir, srun, cwd, dy, al>>
    BY <1>10 DEF SsrConfig, v2Vars
  <2>2. \/ sconf' = sconf
        \/ sdir[cwd] /\ \E c \in SsrFiles \cup {Missing} : sconf' = [sconf EXCEPT ![cwd] = c]
    BY <1>10, FilesType DEF SsrConfig
  <2> QED
    BY <2>1, <2>2, SsrKept DEF TypeOK, Labels
<1>11. CASE SsrPort
  <2>1. /\ dy' \in Ports /\ pc = "s_port" /\ pc' = "s_id"
        /\ UNCHANGED <<taken, vconf, vrun, venabled, sdir, srun, cwd, al>>
    BY <1>11 DEF SsrPort, v2Vars
  <2>2. /\ sconf' = [sconf EXCEPT ![cwd] = PutServerPort(sconf[cwd], dy')]
        /\ PutServerPort(sconf[cwd], dy') \in SsrFiles \cup {Missing}
        /\ sconf[cwd] = Missing => PutServerPort(sconf[cwd], dy') = Missing
    BY <1>11, <2>1 DEF SsrPort, PutServerPort, TypeOK, SsrFiles
  <2> QED
    BY <2>1, <2>2, SsrKept DEF TypeOK, Labels
<1>12. CASE SsrId
  <2>1. /\ pc = "s_id" /\ pc' = "s_start"
        /\ UNCHANGED <<taken, vconf, vrun, venabled, sdir, srun, cwd, dy, al>>
    BY <1>12 DEF SsrId, v2Vars
  <2>2. /\ sconf' = [sconf EXCEPT ![cwd] = PutId(sconf[cwd])]
        /\ PutId(sconf[cwd]) \in SsrFiles \cup {Missing}
        /\ sconf[cwd] = Missing => PutId(sconf[cwd]) = Missing
    <3>1. sconf[cwd] \in SsrFiles \cup {Missing}
      BY DEF TypeOK
    <3>2. PutId(Missing) = Missing
      BY DEF PutId
    <3> QED
      BY <1>12, <3>1, <3>2, PutIdType DEF SsrId
  <2> QED
    BY <2>1, <2>2, SsrKept DEF TypeOK, Labels
<1>13. CASE SsrStart
  <2>1. /\ pc' = "off"
        /\ UNCHANGED <<taken, vconf, vrun, venabled, sdir, sconf, cwd, dy, al>>
    BY <1>13 DEF SsrStart, v2Vars
  <2>2. CASE ~sdir[cwd]
    BY <1>13, <2>1, <2>2 DEF SsrStart, TypeOK, SubstInv, ShownIsServed, Labels
  <2>3. CASE sdir[cwd]
    <3>1. PICK run \in Stopped(cwd) :
             srun' = run \/ srun' = [run EXCEPT ![cwd] = SsrServes(cwd)]
      BY <1>13, <2>3 DEF SsrStart
    <3>2. /\ run \in [Dirs -> SsrFiles \cup {Missing}]
          /\ \A e \in Dirs : run[e] \in {srun[e], Missing}
          /\ cwd \in Dirs
      BY StoppedFacts DEF TypeOK
    <3>3. /\ SsrServes(cwd) \in SsrFiles
          /\ \/ SsrServes(cwd) = sconf[cwd]
             \/ sconf[cwd] = Missing /\ SsrServes(cwd) = SsrPackage
      BY <3>2, FilesType DEF SsrServes, TypeOK
    <3>4. /\ srun' \in [Dirs -> SsrFiles \cup {Missing}]
          /\ \A e \in Dirs : \/ srun'[e] \in {srun[e], Missing}
                             \/ e = cwd /\ srun'[e] = SsrServes(cwd)
      BY <3>1, <3>2, <3>3
    <3>5. ShownIsServed'
      BY <2>1, <2>3, <3>3, <3>4 DEF ShownIsServed
    <3> QED
      BY <2>1, <3>4, <3>5 DEF TypeOK, SubstInv, Labels
  <2> QED
    BY <2>2, <2>3
<1>14. CASE Others
  BY <1>14 DEF Others, TypeOK, SubstInv, ShownIsServed, v2Vars, ssrVars
<1>15. CASE Crash
  BY <1>15 DEF Crash, TypeOK, SubstInv, ShownIsServed, V2Starts
<1>16. CASE Abort
  BY <1>16 DEF Abort, TypeOK, SubstInv, ShownIsServed, v2Vars, ssrVars, Labels
<1>17. CASE Reboot
  BY <1>17 DEF Reboot, TypeOK, SubstInv, ShownIsServed, Labels
<1>18. CASE UNCHANGED vars
  BY <1>18 DEF vars, TypeOK, SubstInv, ShownIsServed, v2Vars, ssrVars
<1> QED
  BY <1>1, <1>2, <1>3, <1>4, <1>5, <1>6, <1>7, <1>8, <1>9, <1>10, <1>11, <1>12,
     <1>13, <1>14, <1>15, <1>16, <1>17, <1>18 DEF Next

(* "Show" never prints another configuration than the one that a server    *)
(* which was installed there runs with (switch.sh 110-138); the one case   *)
(* in which it prints none is an SSR without user-config.json.             *)
THEOREM ShowTellsTheTruth == Spec => []ShownIsServed
<1>1. SwitchInv => ShownIsServed
  BY DEF SwitchInv
<1> QED
  BY <1>1, SwitchInvInit, SwitchInvStep, PTL DEF Spec

(* What the V2Ray choice prints is what it wrote (switch.sh 27-56), but    *)
(* for a first port that is the second placeholder.                        *)
THEOREM PrintsWhatItWrote == Spec => []PrintedIsConfigured
<1>1. SwitchInv => PrintedIsConfigured
  BY DEF SwitchInv, SubstInv, PrintedIsConfigured
<1> QED
  BY <1>1, SwitchInvInit, SwitchInvStep, PTL DEF Spec

(* The script is always at one of its prompts or commands, with ports in   *)
(* the range that it accepts.                                              *)
THEOREM SwitchTypes == Spec => []TypeOK
<1>1. SwitchInv => TypeOK
  BY DEF SwitchInv
<1> QED
  BY <1>1, SwitchInvInit, SwitchInvStep, PTL DEF Spec

=============================================================================
