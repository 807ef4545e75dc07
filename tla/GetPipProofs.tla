---------------------------- MODULE GetPipProofs ----------------------------
(***************************************************************************)
(* Any number of invocations, with any arguments: what is left of the      *)
(* temporary directories, what pip is asked for, and what the host has     *)
(* when all of them succeeded; and what the decoder makes of any text.     *)
(***************************************************************************)
EXTENDS GetPip, WellFoundedInduction, TLAPS

(* The names of the requirements on the command line.                      *)
Given(r) == {Req[t].name : t \in (argv[r] \ Flags) \cap DOMAIN Req}

(* What bootstrap knows about the arguments at each of its statements.     *)
ArgsInv ==
    \A r \in Runs :
        /\ pc[r] \in {"setuptools", "wheel", "scan", "cert", "pip"} =>
             implicit[r] \cap Declined(r) = {}
        /\ pc[r] \in {"setuptools", "wheel", "scan"} => args[r] = argv[r] \ Flags
        /\ pc[r] \in {"cert", "pip"} =>
             /\ args[r] = (argv[r] \ Flags) \cup implicit[r]
             /\ implicit[r] \cap Given(r) = {}

LEMMA TypesInit == Init => TypeOK
  BY ReqAssumption DEF ReqAssumption, Init, TypeOK, Inside, Over

LEMMA NotAnOption ==
  ASSUME NEW S, S \in SUBSET Pkgs
  PROVE  S \in SUBSET (((UNION Lines) \cup Pkgs) \ Flags)
BY DEF Pkgs, Flags

LEMMA TypesStep == TypeOK /\ [Next]_vars => TypeOK'
<1> SUFFICES ASSUME TypeOK, [Next]_vars PROVE TypeOK'
  OBVIOUS
<1> USE DEF TypeOK, Inside, Over, Goto, NewDir, own, work, pips
<1>1. ASSUME NEW r \in Runs, Mkdtemp(r) \/ Bind(r) \/ Unpack(r)
      PROVE  TypeOK'
  BY <1>1 DEF Mkdtemp, Bind, Unpack
<1>2. ASSUME NEW r \in Runs, ReadFlags(r)
      PROVE  TypeOK'
  <2>1. argv[r] \ Flags \in SUBSET (((UNION Lines) \cup Pkgs) \ Flags)
    OBVIOUS
  <2> QED
    BY <1>2, <2>1 DEF ReadFlags
<1>3. ASSUME NEW r \in Runs, Probe(r, "setuptools", "wheel") \/ Probe(r, "wheel", "scan")
      PROVE  TypeOK'
  BY <1>3 DEF Probe
<1>4. ASSUME NEW r \in Runs, Scan(r)
      PROVE  TypeOK'
  <2>1. implicit' \in [Runs -> SUBSET Pkgs]
    BY <1>4 DEF Scan
  <2>2. implicit'[r] \in SUBSET (((UNION Lines) \cup Pkgs) \ Flags)
    BY <2>1, NotAnOption
  <2> QED
    BY <1>4, <2>1, <2>2 DEF Scan
<1>5. ASSUME NEW r \in Runs, WriteCert(r)
      PROVE  TypeOK'
  BY <1>5 DEF WriteCert, Wanted
<1>6. ASSUME NEW r \in Runs, NEW p \in Pkgs, PipRemove(r, p)
      PROVE  TypeOK'
  BY <1>6 DEF PipRemove
<1>7. ASSUME NEW r \in Runs, PipPut(r)
      PROVE  TypeOK'
  BY <1>7 DEF PipPut
<1>8. ASSUME NEW r \in Runs, PipDone(r)
      PROVE  TypeOK'
  BY <1>8 DEF PipDone
<1>9. ASSUME NEW r \in Runs, PipFail(r)
      PROVE  TypeOK'
  <2>1. hold[r].was = "absent" \/ hold[r] \in [pkg : Pkgs, was : {"present", "absent", "broken"}]
    BY DEF Nothing
  <2>2. site' \in [Pkgs -> {"present", "absent", "broken"}]
    BY <1>9, <2>1 DEF PipFail
  <2> QED
    BY <1>9, <2>2 DEF PipFail
<1>10. ASSUME NEW r \in Runs, Raise(r) \/ RaiseUnbound(r) \/ Kill(r)
       PROVE  TypeOK'
  BY <1>10 DEF Raise, RaiseUnbound, Kill
<1>11. ASSUME NEW r \in Runs, Finally(r) \/ FinallyInPart(r) \/ FinallyInterrupted(r)
       PROVE  TypeOK'
  BY <1>11 DEF Finally, FinallyInPart, FinallyInterrupted
<1>12. CASE UNCHANGED vars
  BY <1>12 DEF vars
<1> QED
  BY <1>1, <1>2, <1>3, <1>4, <1>5, <1>6, <1>7, <1>8, <1>9, <1>10, <1>11, <1>12
     DEF Next, Step, Fault

LEMMA TypesAlways == Spec => []TypeOK
  BY TypesInit, TypesStep, PTL DEF Spec

(* pip is never given the script's own options (lines 105-113).            *)
THEOREM OptionsFiltered == Spec => []TypeOK
  BY TypesAlways

-----------------------------------------------------------------------------
(* The temporary directory.                                                *)

LEMMA TmpStep == TypeOK /\ TmpLife /\ [Next]_vars => TmpLife'
<1> SUFFICES ASSUME TypeOK, TmpLife, [Next]_vars PROVE TmpLife'
  OBVIOUS
<1> USE DEF TypeOK, TmpLife, Inside, Over, Goto, NewDir
<1>1. ASSUME NEW r \in Runs, Mkdtemp(r) \/ Bind(r) \/ Unpack(r) \/ ReadFlags(r)
      PROVE  TmpLife'
  BY <1>1 DEF Mkdtemp, Bind, Unpack, ReadFlags
<1>2. ASSUME NEW r \in Runs,
             Probe(r, "setuptools", "wheel") \/ Probe(r, "wheel", "scan") \/ Scan(r)
      PROVE  TmpLife'
  BY <1>2 DEF Probe, Scan
<1>3. ASSUME NEW r \in Runs, WriteCert(r)
      PROVE  TmpLife'
  BY <1>3 DEF WriteCert
<1>4. ASSUME NEW r \in Runs, (\E p \in Pkgs : PipRemove(r, p)) \/ PipPut(r)
      PROVE  TmpLife'
  BY <1>4 DEF PipRemove, PipPut
<1>5. ASSUME NEW r \in Runs, PipDone(r) \/ PipFail(r)
      PROVE  TmpLife'
  BY <1>5 DEF PipDone, PipFail
<1>6. ASSUME NEW r \in Runs, Raise(r) \/ RaiseUnbound(r) \/ Kill(r)
      PROVE  TmpLife'
  BY <1>6 DEF Raise, RaiseUnbound, Kill
<1>7. ASSUME NEW r \in Runs, Finally(r) \/ FinallyInPart(r) \/ FinallyInterrupted(r)
      PROVE  TmpLife'
  BY <1>7 DEF Finally, FinallyInPart, FinallyInterrupted
<1>8. CASE UNCHANGED vars
  BY <1>8 DEF vars
<1> QED
  BY <1>1, <1>2, <1>3, <1>4, <1>5, <1>6, <1>7, <1>8 DEF Next, Step, Fault

(* An invocation leaves no temporary directory behind, whatever interrupts *)
(* it, with the four exceptions of TmpLife: a kill, an interrupt before    *)
(* the assignment or during the clean-up, files that cannot be removed     *)
(* (lines 184-202).                                                        *)
THEOREM DirectoryRemoved == Spec => []TmpLife
<1>1. Init => TmpLife
  BY DEF Init, TmpLife
<1> QED
  BY <1>1, TypesAlways, TmpStep, PTL DEF Spec

-----------------------------------------------------------------------------
(* The arguments.                                                          *)

LEMMA ArgsStep == TypeOK /\ ArgsInv /\ [Next]_vars => ArgsInv'
<1> SUFFICES ASSUME TypeOK, ArgsInv, [Next]_vars PROVE ArgsInv'
  OBVIOUS
<1>1. UNCHANGED own
  BY DEF Next, Step, Fault, vars, Mkdtemp, Bind, Unpack, ReadFlags, Probe, Scan,
         WriteCert, PipRemove, PipPut, PipDone, PipFail, Raise, RaiseUnbound,
         Finally, FinallyInPart, FinallyInterrupted, Kill
<1>2. \A r \in Runs : Declined(r)' = Declined(r) /\ Given(r)' = Given(r)
  BY <1>1 DEF own, Declined, Given
<1> USE DEF TypeOK, ArgsInv, Inside, Over, Goto
<1>3. ASSUME NEW r \in Runs, ReadFlags(r)
      PROVE  ArgsInv'
  BY <1>1, <1>2, <1>3 DEF ReadFlags, own
<1>4. ASSUME NEW r \in Runs,
             Probe(r, "setuptools", "wheel") \/ Probe(r, "wheel", "scan")
      PROVE  ArgsInv'
  BY <1>1, <1>2, <1>4 DEF Probe, own
<1>5. ASSUME NEW r \in Runs, Scan(r)
      PROVE  ArgsInv'
  <2>1. args[r] = argv[r] \ Flags /\ implicit[r] \cap Declined(r) = {}
    BY <1>5 DEF Scan
  <2>2. Names(r) = Given(r)
    BY <2>1 DEF Names, Given
  <2>3. /\ implicit'[r] = implicit[r] \ Given(r)
        /\ args'[r] = (argv[r] \ Flags) \cup implicit'[r]
        /\ pc'[r] = "cert"
    BY <1>5, <2>1, <2>2 DEF Scan
  <2>4. \A q \in Runs \ {r} : /\ pc'[q] = pc[q] /\ args'[q] = args[q]
                              /\ implicit'[q] = implicit[q]
    BY <1>5 DEF Scan
  <2> QED
    BY <1>1, <1>2, <2>1, <2>3, <2>4 DEF own
<1>6. CASE UNCHANGED work /\ \A q \in Runs : \/ pc'[q] = pc[q]
                                             \/ pc[q] = "cert" /\ pc'[q] = "pip"
                                             \/ pc'[q] \notin {"setuptools", "wheel", "scan",
                                                             "cert", "pip"}
  BY <1>1, <1>2, <1>6 DEF own, work
<1>7. ASSUME NEW r \in Runs,
             \/ Mkdtemp(r) \/ Bind(r) \/ Unpack(r) \/ WriteCert(r)
             \/ (\E p \in Pkgs : PipRemove(r, p)) \/ PipPut(r)
      PROVE  ArgsInv'
  <2>1. UNCHANGED work
    BY <1>7 DEF Mkdtemp, Bind, Unpack, WriteCert, PipRemove, PipPut
  <2>2. \A q \in Runs : \/ pc'[q] = pc[q]
                        \/ pc[q] = "cert" /\ pc'[q] = "pip"
                        \/ pc'[q] \notin {"setuptools", "wheel", "scan", "cert", "pip"}
    BY <1>7 DEF Mkdtemp, Bind, Unpack, WriteCert, PipRemove, PipPut
  <2> QED
    BY <1>6, <2>1, <2>2
<1>8. ASSUME NEW r \in Runs,
             \/ PipDone(r) \/ PipFail(r) \/ Raise(r) \/ RaiseUnbound(r)
             \/ Finally(r) \/ FinallyInPart(r) \/ FinallyInterrupted(r) \/ Kill(r)
      PROVE  ArgsInv'
  <2>1. UNCHANGED work
    BY <1>8 DEF PipDone, PipFail, Raise, RaiseUnbound, Finally, FinallyInPart, FinallyInterrupted, Kill
  <2>2. /\ pc'[r] \in {"exit", "finally", "failed", "ended", "killed"}
        /\ \A q \in Runs \ {r} : pc'[q] = pc[q]
    BY <1>8 DEF PipDone, PipFail, Raise, RaiseUnbound, Finally, FinallyInPart, FinallyInterrupted, Kill
  <2> QED
    BY <1>6, <2>1, <2>2
<1>9. CASE UNCHANGED vars
  <2>1. UNCHANGED work /\ \A q \in Runs : pc'[q] = pc[q]
    BY <1>9 DEF vars
  <2> QED
    BY <1>6, <2>1
<1> QED
  BY <1>3, <1>4, <1>5, <1>7, <1>8, <1>9 DEF Next, Step, Fault

LEMMA ArgsAlways == Spec => []ArgsInv
<1>1. Init => ArgsInv
  BY DEF Init, ArgsInv
<1> QED
  BY <1>1, TypesAlways, ArgsStep, PTL DEF Spec

-----------------------------------------------------------------------------
(* What pip installs.                                                      *)

LEMMA PlainRequirement ==
  ASSUME NEW p \in Pkgs
  PROVE  p \in DOMAIN Req /\ Req[p].pkg = p /\ Req[p].spec = "any"
<1>1. p \in DOMAIN Req /\ Req[p] = [name |-> p, pkg |-> p, spec |-> "any"]
  BY ReqAssumption DEF ReqAssumption
<1> QED
  BY <1>1

LEMMA DeclinedStep == TypeOK /\ ArgsInv /\ DeclinedStays /\ [Next]_vars => DeclinedStays'
<1> SUFFICES ASSUME TypeOK, ArgsInv, DeclinedStays, [Next]_vars PROVE DeclinedStays'
  OBVIOUS
<1>1. UNCHANGED own
  BY DEF Next, Step, Fault, vars, Mkdtemp, Bind, Unpack, ReadFlags, Probe, Scan,
         WriteCert, PipRemove, PipPut, PipDone, PipFail, Raise, RaiseUnbound,
         Finally, FinallyInPart, FinallyInterrupted, Kill
<1>2. argv' = argv /\ \A r \in Runs : Declined(r)' = Declined(r)
  BY <1>1 DEF own, Declined
<1>3. CASE \A r \in Runs : todo'[r] \subseteq todo[r]
  BY <1>2, <1>3 DEF DeclinedStays
<1>4. ASSUME NEW r \in Runs, WriteCert(r)
      PROVE  DeclinedStays'
  <2>1. todo'[r] = Wanted(r) /\ \A q \in Runs \ {r} : todo'[q] = todo[q]
    BY <1>4 DEF WriteCert, TypeOK
  <2>2. /\ args[r] = (argv[r] \ Flags) \cup implicit[r]
        /\ implicit[r] \cap Declined(r) = {} /\ implicit[r] \subseteq Pkgs
    BY <1>4 DEF WriteCert, Goto, ArgsInv, TypeOK
  <2>3. ASSUME NEW p \in Declined(r), p \in Wanted(r)
        PROVE  \E t \in argv[r] \cap DOMAIN Req : Req[t].pkg = p
    <3>1. PICK t \in args[r] \cap DOMAIN Req : Req[t].pkg = p
      BY <2>3 DEF Wanted, Reqs
    <3>2. t \notin implicit[r]
      BY <2>2, <2>3, <3>1, PlainRequirement
    <3> QED
      BY <2>2, <3>1, <3>2
  <2> QED
    BY <1>2, <2>1, <2>3 DEF DeclinedStays
<1>5. ASSUME NEW r \in Runs, PipPut(r)
      PROVE  DeclinedStays'
  <2>1. \A q \in Runs : todo'[q] \subseteq todo[q]
    BY <1>5 DEF PipPut, TypeOK
  <2> QED
    BY <1>3, <2>1
<1>6. CASE UNCHANGED todo
  BY <1>3, <1>6
<1> QED
  BY <1>4, <1>5, <1>6
     DEF Next, Step, Fault, vars, pips, Mkdtemp, Bind, Unpack, ReadFlags, Probe, Scan,
         PipRemove, PipDone, PipFail, Raise, RaiseUnbound, Finally, FinallyInPart, FinallyInterrupted, Kill

(* setuptools and wheel, once declined, are installed only when the        *)
(* command line asks for them by name (lines 104-114, 153-155).            *)
THEOREM DeclinedIsHonoured == Spec => []DeclinedStays
<1>1. Init => DeclinedStays
  BY DEF Init, DeclinedStays
<1> QED
  BY <1>1, TypesAlways, ArgsAlways, DeclinedStep, PTL DEF Spec

(* Every requirement for one of the three packages is typed in small       *)
(* letters.                                                                *)
SmallLetters == \A t \in DOMAIN Req : Req[t].pkg \in Pkgs => Req[t].name = Req[t].pkg

(* With names in small letters pip gets two specifiers for one package     *)
(* only when the user gave both (lines 131-149): the scan catches every    *)
(* requirement an implicit one would clash with.                           *)
THEOREM NoDoubleInstall == ASSUME SmallLetters PROVE Spec => []NoDoubleRequirement
<1>1. TypeOK /\ ArgsInv => NoDoubleRequirement
  <2> SUFFICES ASSUME TypeOK, ArgsInv, NEW r \in Runs, pc[r] = "pip",
                      NEW d \in Doubled(r)
               PROVE  {d[1], d[2]} \subseteq argv[r]
    BY DEF NoDoubleRequirement
  <2>1. /\ args[r] = (argv[r] \ Flags) \cup implicit[r]
        /\ implicit[r] \cap Given(r) = {} /\ implicit[r] \subseteq Pkgs
    BY DEF ArgsInv, TypeOK
  <2>2. ASSUME NEW t \in Reqs(r), NEW u \in Reqs(r),
               Req[t].pkg = Req[u].pkg, Req[t].spec # Req[u].spec, t \in implicit[r]
        PROVE  FALSE
    <3>1. t \in Pkgs /\ Req[t].pkg = t /\ Req[t].spec = "any"
      BY <2>1, <2>2, PlainRequirement
    <3>2. u \notin implicit[r]
      BY <2>1, <2>2, <3>1, PlainRequirement
    <3>3. u \in (argv[r] \ Flags) \cap DOMAIN Req
      BY <2>1, <3>2 DEF Reqs
    <3>4. Req[u].name = t
      BY <2>2, <3>1, <3>3 DEF SmallLetters
    <3> QED
      BY <2>1, <2>2, <3>3, <3>4 DEF Given
  <2>3. /\ d[1] \in Reqs(r) /\ d[2] \in Reqs(r)
        /\ Req[d[1]].pkg = Req[d[2]].pkg /\ Req[d[1]].spec # Req[d[2]].spec
    BY DEF Doubled
  <2>4. d[1] \notin implicit[r] /\ d[2] \notin implicit[r]
    BY <2>2, <2>3
  <2> QED
    BY <2>1, <2>3, <2>4 DEF Reqs
<1> QED
  BY <1>1, TypesAlways, ArgsAlways, PTL

-----------------------------------------------------------------------------
(* The packages of the host.                                               *)

Settled(p) == \/ site[p] = "present"
              \/ \E q \in Runs : hold[q] # Nothing /\ hold[q].pkg = p

(* No invocation has failed.                                               *)
Quiet == \A r \in Runs : pc[r] \notin {"finally", "failed", "killed"}

HoldInv == \A r \in Runs : hold[r] # Nothing =>
             /\ pc[r] \in {"pip", "killed"} /\ hold[r].pkg \in Pkgs
             /\ pc[r] = "pip" => hold[r].pkg \in todo[r]

(* As long as nothing failed, a package that was not declined is still to  *)
(* be installed, or there, or being replaced.                              *)
OutInv ==
    Quiet => \A r \in Runs : \A p \in Pkgs \ (Declined(r) \cup Misread(r)) :
      /\ pc[r] \in {"setuptools", "wheel", "scan"} => p \in implicit[r] \/ Settled(p)
      /\ pc[r] = "cert" => p \in Wanted(r) \/ Settled(p)
      /\ pc[r] = "pip" => p \in todo[r] \/ Settled(p)
      /\ pc[r] \in {"exit", "ended"} => Settled(p)

LEMMA HoldStep == TypeOK /\ HoldInv /\ [Next]_vars => HoldInv'
<1> SUFFICES ASSUME TypeOK, HoldInv, [Next]_vars PROVE HoldInv'
  OBVIOUS
<1> USE DEF TypeOK, HoldInv, Inside, Over, Goto
<1>1. ASSUME NEW r \in Runs, NEW p \in Pkgs, PipRemove(r, p)
      PROVE  HoldInv'
  BY <1>1 DEF PipRemove
<1>2. ASSUME NEW r \in Runs, PipPut(r) \/ PipFail(r)
      PROVE  HoldInv'
  BY <1>2 DEF PipPut, PipFail
<1>3. ASSUME NEW r \in Runs, WriteCert(r)
      PROVE  HoldInv'
  BY <1>3 DEF WriteCert
<1>4. ASSUME NEW r \in Runs, PipDone(r)
      PROVE  HoldInv'
  BY <1>4 DEF PipDone, pips
<1>5. ASSUME NEW r \in Runs,
             \/ Mkdtemp(r) \/ Bind(r) \/ Unpack(r) \/ ReadFlags(r) \/ Scan(r)
             \/ Probe(r, "setuptools", "wheel") \/ Probe(r, "wheel", "scan")
      PROVE  HoldInv'
  <2>1. /\ UNCHANGED pips /\ pc[r] \notin {"pip", "killed"}
        /\ \A q \in Runs \ {r} : pc'[q] = pc[q]
    BY <1>5 DEF Mkdtemp, Bind, Unpack, ReadFlags, Scan, Probe
  <2> QED
    BY <2>1 DEF pips
<1>6. ASSUME NEW r \in Runs,
             \/ Raise(r) \/ RaiseUnbound(r) \/ Finally(r) \/ FinallyInPart(r) \/ FinallyInterrupted(r) \/ Kill(r)
      PROVE  HoldInv'
  <2>1. /\ UNCHANGED pips /\ pc[r] # "killed"
        /\ pc[r] # "pip" \/ pc'[r] = "killed"
        /\ \A q \in Runs \ {r} : pc'[q] = pc[q]
    BY <1>6 DEF Raise, RaiseUnbound, Finally, FinallyInPart, FinallyInterrupted, Kill
  <2> QED
    BY <2>1 DEF pips
<1>7. CASE UNCHANGED vars
  BY <1>7 DEF vars, pips
<1> QED
  BY <1>1, <1>2, <1>3, <1>4, <1>5, <1>6, <1>7 DEF Next, Step, Fault

LEMMA SettledStep ==
  TypeOK /\ HoldInv /\ [Next]_vars /\ Quiet' =>
    \A p \in Pkgs : Settled(p) => Settled(p)'
<1> SUFFICES ASSUME TypeOK, HoldInv, [Next]_vars, Quiet', NEW p \in Pkgs, Settled(p)
             PROVE  Settled(p)'
  OBVIOUS
<1> USE DEF TypeOK, Settled, Goto
<1>1. ASSUME NEW r \in Runs, NEW u \in Pkgs, PipRemove(r, u)
      PROVE  Settled(p)'
  <2>1. hold' = [hold EXCEPT ![r] = [pkg |-> u, was |-> site[u]]]
    BY <1>1 DEF PipRemove
  <2>2. hold'[r] # Nothing /\ hold'[r].pkg = u
    BY <2>1 DEF Nothing, Pkgs
  <2>3. CASE p = u
    BY <2>2, <2>3
  <2>4. CASE p # u /\ site[p] = "present"
    BY <1>1, <2>4 DEF PipRemove
  <2>5. ASSUME NEW q \in Runs, hold[q] # Nothing /\ hold[q].pkg = p
        PROVE  Settled(p)'
    BY <1>1, <2>1, <2>5 DEF PipRemove
  <2> QED
    BY <2>3, <2>4, <2>5
<1>2. ASSUME NEW r \in Runs, PipPut(r)
      PROVE  Settled(p)'
  <2>1. hold[r].pkg \in Pkgs
    BY <1>2 DEF PipPut, HoldInv
  <2>2. site' = [site EXCEPT ![hold[r].pkg] = "present"] /\ hold' = [hold EXCEPT ![r] = Nothing]
    BY <1>2 DEF PipPut
  <2>3. CASE site[p] = "present" \/ hold[r].pkg = p
    BY <2>1, <2>2, <2>3
  <2>4. ASSUME NEW q \in Runs, hold[q] # Nothing /\ hold[q].pkg = p, q # r
        PROVE  Settled(p)'
    BY <2>2, <2>4
  <2> QED
    BY <2>3, <2>4
<1>3. ASSUME NEW r \in Runs, PipFail(r)
      PROVE  FALSE
  BY <1>3 DEF PipFail, Quiet
<1>4. CASE UNCHANGED <<site, hold>>
  BY <1>4
<1> QED
  BY <1>1, <1>2, <1>3, <1>4
     DEF Next, Step, Fault, vars, pips, Mkdtemp, Bind, Unpack, ReadFlags, Probe, Scan,
         WriteCert, PipDone, Raise, RaiseUnbound, Finally, FinallyInPart, FinallyInterrupted, Kill

LEMMA OutStep == TypeOK /\ ArgsInv /\ HoldInv /\ OutInv /\ [Next]_vars => OutInv'
<1> SUFFICES ASSUME TypeOK, ArgsInv, HoldInv, OutInv, [Next]_vars, Quiet' PROVE OutInv'
  BY DEF OutInv
<1>1. UNCHANGED own
  BY DEF Next, Step, Fault, vars, Mkdtemp, Bind, Unpack, ReadFlags, Probe, Scan,
         WriteCert, PipRemove, PipPut, PipDone, PipFail, Raise, RaiseUnbound,
         Finally, FinallyInPart, FinallyInterrupted, Kill
<1>2. /\ argv' = argv
      /\ \A r \in Runs : Declined(r)' = Declined(r) /\ Misread(r)' = Misread(r)
  BY <1>1 DEF own, Declined, Misread
<1>3. \A p \in Pkgs : Settled(p) => Settled(p)'
  BY SettledStep
<1>4. Quiet
  BY DEF Quiet, TypeOK, Next, Step, Fault, vars, Goto, Mkdtemp, Bind, Unpack, ReadFlags,
         Probe, Scan, WriteCert, PipRemove, PipPut, PipDone, PipFail, Raise, RaiseUnbound,
         Finally, FinallyInPart, FinallyInterrupted, Kill
<1> DEFINE At(r, p) ==
      /\ pc[r] \in {"setuptools", "wheel", "scan"} => p \in implicit[r] \/ Settled(p)
      /\ pc[r] = "cert" => p \in Wanted(r) \/ Settled(p)
      /\ pc[r] = "pip" => p \in todo[r] \/ Settled(p)
      /\ pc[r] \in {"exit", "ended"} => Settled(p)
<1>5. \A r \in Runs : \A p \in Pkgs \ (Declined(r) \cup Misread(r)) : At(r, p)
  BY <1>4 DEF OutInv
<1> SUFFICES ASSUME NEW r \in Runs, NEW p \in Pkgs, p \notin Declined(r), p \notin Misread(r)
             PROVE  At(r, p)'
  BY <1>2 DEF OutInv
<1>6. At(r, p)
  BY <1>5
<1>7. CASE Settled(p)'
  BY <1>7
<1> SUFFICES ASSUME ~Settled(p)' PROVE At(r, p)'
  BY <1>7
<1>8. ~Settled(p)
  BY <1>3
<1>9. CASE pc'[r] = pc[r] /\ implicit'[r] = implicit[r] /\ args'[r] = args[r] /\ todo'[r] = todo[r]
  BY <1>6, <1>8, <1>9 DEF Wanted, Reqs
<1>10. ASSUME NEW q \in Runs \ {r}, Mkdtemp(q) \/ Step(q) \/ Fault(q)
       PROVE  At(r, p)'
  <2>1. /\ pc'[r] = pc[r] /\ implicit'[r] = implicit[r]
        /\ args'[r] = args[r] /\ todo'[r] = todo[r]
    BY <1>10 DEF TypeOK, Step, Fault, Goto, own, work, pips, Mkdtemp, Bind, Unpack, ReadFlags,
         Probe, Scan, WriteCert, PipRemove, PipPut, PipDone, PipFail, Raise, RaiseUnbound,
         Finally, FinallyInPart, FinallyInterrupted, Kill
  <2> QED
    BY <1>9, <2>1
<1>11. ASSUME Mkdtemp(r) \/ Bind(r) \/ Unpack(r)
       PROVE  At(r, p)'
  BY <1>11 DEF Mkdtemp, Bind, Unpack, Goto, TypeOK
<1>12. ASSUME ReadFlags(r)
       PROVE  At(r, p)'
  <2>1. pc'[r] = "setuptools" /\ p \in implicit'[r]
    BY <1>12 DEF ReadFlags, Goto, TypeOK
  <2> QED
    BY <2>1
<1>13. ASSUME Probe(r, "setuptools", "wheel") \/ Probe(r, "wheel", "scan")
       PROVE  At(r, p)'
  <2>1. /\ pc[r] \in {"setuptools", "wheel"} /\ pc'[r] \in {"wheel", "scan"}
        /\ site' = site /\ implicit[r] \ {pc[r]} \subseteq implicit'[r]
        /\ site[pc[r]] = "present" \/ implicit'[r] = implicit[r]
    BY <1>13 DEF Probe, Goto, TypeOK
  <2>2. p \in implicit[r]
    BY <1>6, <1>8, <2>1
  <2>3. p \in implicit'[r]
    BY <1>8, <2>1, <2>2 DEF Settled
  <2> QED
    BY <2>1, <2>3
<1>14. ASSUME Scan(r)
       PROVE  At(r, p)'
  <2>1. /\ pc[r] = "scan" /\ pc'[r] = "cert"
        /\ implicit'[r] = implicit[r] \ Names(r) /\ args'[r] = args[r] \cup implicit'[r]
    BY <1>14 DEF Scan, Goto, TypeOK
  <2>2. p \in implicit[r]
    BY <1>6, <1>8, <2>1
  <2>3. CASE p \in Names(r)
    <3>1. PICK t \in args[r] \cap DOMAIN Req : Req[t].name = p
      BY <2>3 DEF Names
    <3>2. t \in argv[r]
      BY <2>1, <3>1 DEF ArgsInv
    <3>3. Req[t].pkg = p
      BY <3>1, <3>2, ReqAssumption DEF ReqAssumption, Misread
    <3>4. p # "none"
      BY DEF Pkgs
    <3> QED
      BY <2>1, <3>1, <3>3, <3>4 DEF Wanted, Reqs
  <2>4. CASE p \notin Names(r)
    BY <2>1, <2>2, <2>4, PlainRequirement DEF Wanted, Reqs, Pkgs
  <2> QED
    BY <2>3, <2>4
<1>15. ASSUME WriteCert(r)
       PROVE  At(r, p)'
  <2>1. pc[r] = "cert" /\ pc'[r] = "pip" /\ todo'[r] = Wanted(r)
    BY <1>15 DEF WriteCert, Goto, TypeOK
  <2> QED
    BY <1>6, <1>8, <2>1
<1>16. ASSUME NEW u \in Pkgs, PipRemove(r, u)
       PROVE  At(r, p)'
  BY <1>9, <1>16 DEF PipRemove, work
<1>17. ASSUME PipPut(r)
       PROVE  At(r, p)'
  <2>1. /\ pc[r] = "pip" /\ pc'[r] = "pip" /\ todo'[r] = todo[r] \ {hold[r].pkg}
        /\ hold[r] # Nothing
    BY <1>17 DEF PipPut, TypeOK
  <2>2. p \in todo[r]
    BY <1>6, <1>8, <2>1
  <2>3. p # hold[r].pkg
    BY <1>8, <2>1 DEF Settled
  <2> QED
    BY <2>1, <2>2, <2>3
<1>18. ASSUME PipDone(r)
       PROVE  At(r, p)'
  <2>1. pc[r] = "pip" /\ todo[r] = {}
    BY <1>18 DEF PipDone, Goto
  <2> QED
    BY <1>6, <1>8, <2>1
<1>19. ASSUME Finally(r) \/ FinallyInPart(r) \/ FinallyInterrupted(r)
       PROVE  At(r, p)'
  <2>1. pc[r] = "exit"
    BY <1>4, <1>19 DEF Finally, FinallyInPart, FinallyInterrupted, Goto, Quiet
  <2> QED
    BY <1>6, <1>8, <2>1
<1>20. ASSUME PipFail(r) \/ Raise(r) \/ RaiseUnbound(r) \/ Kill(r)
       PROVE  At(r, p)'
  BY <1>20 DEF PipFail, Raise, RaiseUnbound, Kill, Goto, TypeOK, Quiet
<1>21. CASE UNCHANGED vars
  BY <1>9, <1>21 DEF vars, work, pips
<1> QED
  BY <1>10, <1>11, <1>12, <1>13, <1>14, <1>15, <1>16, <1>17, <1>18, <1>19, <1>20, <1>21
     DEF Next, Step, Fault

(* However the invocations overlap, when all of them succeeded the host    *)
(* has what was to be installed (lines 100-155, 171-176): a package that   *)
(* an invocation finds absent, present or half replaced is installed by    *)
(* that invocation or by the one that is replacing it.                     *)
THEOREM EverythingInstalled == Spec => []Outcome
<1>1. Init => HoldInv /\ OutInv
  BY DEF Init, HoldInv, OutInv
<1>2. HoldInv /\ OutInv => Outcome
  BY DEF HoldInv, OutInv, Outcome, Quiet, Settled
<1> QED
  BY <1>1, <1>2, TypesAlways, ArgsAlways, HoldStep, OutStep, PTL DEF Spec

-----------------------------------------------------------------------------
(* Implicit installs.                                                      *)

(* While no other invocation has begun, an optional package that is still  *)
(* to be installed implicitly was absent when it was looked for, and is.   *)
AbsentInv ==
    \A r \in Runs :
        /\ pc[r] = "pip" => todo[r] \subseteq Wanted(r)
        /\ Alone(r) =>
             /\ pc[r] = "wheel" /\ "setuptools" \in implicit[r] => site["setuptools"] = "absent"
             /\ pc[r] \in {"scan", "cert"} =>
                  \A p \in Optional \cap implicit[r] : site[p] = "absent"
             /\ pc[r] = "pip" =>
                  \A p \in Optional \cap implicit[r] \cap todo[r] : site[p] = "absent"

LEMMA AbsentStep == TypeOK /\ HoldInv /\ AbsentInv /\ [Next]_vars => AbsentInv'
<1> SUFFICES ASSUME TypeOK, HoldInv, AbsentInv, [Next]_vars, NEW r \in Runs
             PROVE  /\ (pc[r] = "pip" => todo[r] \subseteq Wanted(r))'
                    /\ (Alone(r) =>
                          /\ pc[r] = "wheel" /\ "setuptools" \in implicit[r] =>
                               site["setuptools"] = "absent"
                          /\ pc[r] \in {"scan", "cert"} =>
                               \A p \in Optional \cap implicit[r] : site[p] = "absent"
                          /\ pc[r] = "pip" =>
                               \A p \in Optional \cap implicit[r] \cap todo[r] :
                                  site[p] = "absent")'
  BY DEF AbsentInv
<1> USE DEF TypeOK, Goto, Inside, Over, Optional
<1>1. ASSUME NEW q \in Runs \ {r}, Mkdtemp(q) \/ Step(q) \/ Fault(q)
      PROVE  /\ pc'[r] = pc[r] /\ todo'[r] = todo[r] /\ args'[r] = args[r]
             /\ implicit'[r] = implicit[r]
             /\ Alone(r)' => FALSE
  <2>1. pc'[q] # "idle"
    BY <1>1 DEF Step, Fault, Mkdtemp, Bind, Unpack, ReadFlags, Probe, Scan, WriteCert, PipRemove,
         PipPut, PipDone, PipFail, Raise, RaiseUnbound, Finally, FinallyInPart, FinallyInterrupted, Kill
  <2>2. /\ pc'[r] = pc[r] /\ todo'[r] = todo[r] /\ args'[r] = args[r]
        /\ implicit'[r] = implicit[r]
    BY <1>1 DEF Step, Fault, own, work, pips, Mkdtemp, Bind, Unpack, ReadFlags, Probe, Scan,
         WriteCert, PipRemove, PipPut, PipDone, PipFail, Raise, RaiseUnbound, Finally,
         FinallyInPart, FinallyInterrupted, Kill
  <2> QED
    BY <2>1, <2>2 DEF Alone
<1>2. CASE \E q \in Runs \ {r} : Mkdtemp(q) \/ Step(q) \/ Fault(q)
  BY <1>1, <1>2 DEF AbsentInv, Wanted, Reqs
<1>3. CASE UNCHANGED vars
  BY <1>3 DEF AbsentInv, Wanted, Reqs, Alone, vars, work, pips
<1>4. CASE Mkdtemp(r) \/ Step(r) \/ Fault(r)
  <2>1. Alone(r)' => Alone(r)
    <3>1. \A q \in Runs \ {r} : pc'[q] = pc[q]
      BY <1>4 DEF Step, Fault, Mkdtemp, Bind, Unpack, ReadFlags, Probe, Scan, WriteCert, PipRemove,
           PipPut, PipDone, PipFail, Raise, RaiseUnbound, Finally, FinallyInPart, FinallyInterrupted, Kill
    <3> QED
      BY <3>1 DEF Alone
  <2>2. CASE Probe(r, "setuptools", "wheel")
    BY <2>2 DEF Probe
  <2>3. CASE Probe(r, "wheel", "scan")
    BY <2>1, <2>3 DEF Probe, AbsentInv
  <2>4. CASE Scan(r)
    BY <2>1, <2>4 DEF Scan, AbsentInv
  <2>5. CASE WriteCert(r)
    <3>1. Wanted(r)' = Wanted(r)
      BY <2>5 DEF WriteCert, work, Wanted, Reqs
    <3> QED
      BY <2>1, <2>5, <3>1 DEF WriteCert, work, AbsentInv
  <2>6. ASSUME NEW p \in Pkgs, PipRemove(r, p)
        PROVE  /\ Wanted(r)' = Wanted(r)
               /\ pc'[r] = "pip" /\ pc[r] = "pip" /\ todo' = todo /\ implicit' = implicit
               /\ \A u \in Pkgs : site[u] = "absent" => site'[u] = "absent"
    BY <2>6 DEF PipRemove, work, Wanted, Reqs
  <2>7. CASE \E p \in Pkgs : PipRemove(r, p)
    BY <2>1, <2>6, <2>7 DEF AbsentInv, Pkgs
  <2>8. CASE PipPut(r)
    <3>1. /\ Wanted(r)' = Wanted(r) /\ implicit' = implicit
          /\ pc'[r] = "pip" /\ pc[r] = "pip" /\ todo'[r] = todo[r] \ {hold[r].pkg}
          /\ \A u \in Pkgs : u # hold[r].pkg => site'[u] = site[u]
      BY <2>8 DEF PipPut, work, Wanted, Reqs
    <3> QED
      BY <2>1, <3>1 DEF AbsentInv, Pkgs
  <2>9. CASE \/ Mkdtemp(r) \/ Bind(r) \/ Unpack(r) \/ ReadFlags(r) \/ PipDone(r) \/ Finally(r)
             \/ Raise(r) \/ Fault(r)
    <3>1. pc'[r] \notin {"wheel", "scan", "cert", "pip"}
      BY <2>9 DEF Fault, Mkdtemp, Bind, Unpack, ReadFlags, PipDone, PipFail, Raise, RaiseUnbound,
           Finally, FinallyInPart, FinallyInterrupted, Kill
    <3> QED
      BY <3>1
  <2>10. CASE PipFail(r)
    BY <2>9, <2>10 DEF Fault
  <2> QED
    BY <1>4, <2>2, <2>3, <2>4, <2>5, <2>7, <2>8, <2>9, <2>10 DEF Step
<1> QED
  BY <1>2, <1>3, <1>4 DEF Next

(* setuptools and wheel are replaced only on request, as long as no other  *)
(* invocation has begun (lines 116-129): the imports at lines 120 and 126  *)
(* are right about what pip finds later.                                   *)
THEOREM ImplicitWhenAbsent == Spec => ImplicitOnlyIfAbsent
<1>1. Init => HoldInv /\ AbsentInv
  BY DEF Init, HoldInv, AbsentInv
<1>2. ASSUME TypeOK, ArgsInv, AbsentInv, NEW r \in Runs, NEW p \in Optional,
             PipRemove(r, p), site[p] = "present", Alone(r)
      PROVE  \E t \in argv[r] \cap DOMAIN Req : Req[t].pkg = p
  <2>1. pc[r] = "pip" /\ p \in todo[r]
    BY <1>2 DEF PipRemove
  <2>2. p \in Wanted(r) /\ p \notin implicit[r]
    BY <1>2, <2>1 DEF AbsentInv
  <2>3. PICK t \in args[r] \cap DOMAIN Req : Req[t].pkg = p
    BY <2>2 DEF Wanted, Reqs
  <2>4. args[r] = (argv[r] \ Flags) \cup implicit[r] /\ implicit[r] \subseteq Pkgs
    BY <1>2, <2>1 DEF ArgsInv, TypeOK
  <2>5. t \notin implicit[r]
    BY <2>2, <2>3, <2>4, PlainRequirement
  <2> QED
    BY <2>3, <2>4, <2>5
<1>3. TypeOK /\ ArgsInv /\ AbsentInv =>
        [\A r \in Runs : \A p \in Optional :
           PipRemove(r, p) /\ site[p] = "present" /\ Alone(r) =>
             \E t \in argv[r] \cap DOMAIN Req : Req[t].pkg = p]_vars
  BY <1>2
<1> QED
  BY <1>1, <1>3, TypesAlways, ArgsAlways, HoldStep, AbsentStep, PTL DEF Spec, ImplicitOnlyIfAbsent

-----------------------------------------------------------------------------
(***************************************************************************)
(* The decoder. Its loops are functions over the turns: by induction they  *)
(* have a value at each of them, and what holds of it holds at the last.   *)
(***************************************************************************)

(* A set of numbers that has 0, and n + 1 with n, has all.                 *)
LEMMA AllNumbers ==
    ASSUME NEW T, 0 \in T, \A n \in Nat : n \in T => n + 1 \in T
    PROVE  Nat \subseteq T
<1> DEFINE R == OpToRel(<, Nat)
           M == Nat \ T
<1>1. SUFFICES ASSUME M # {} PROVE FALSE
  OBVIOUS
<1>2. IsWellFoundedOn(R, Nat)
  BY NatLessThanWellFounded, Zenon
<1>3. \A a, b \in Nat : a < b => <<a, b>> \in R
  BY Zenon DEF OpToRel
<1> HIDE DEF R
<1>4. PICK x \in M : \A y \in M : ~ (<<y, x>> \in R)
  BY <1>1, <1>2, WFMin, Zenon
<1>5. x \in Nat /\ x # 0 /\ x - 1 \in Nat /\ x - 1 < x
  OBVIOUS
<1>6. <<x - 1, x>> \in R
  BY <1>5, <1>3
<1>7. x - 1 \in T
  BY <1>4, <1>5, <1>6
<1> QED
  BY <1>5, <1>7

(* A loop that begins with c and goes on with F, turn after turn.          *)
Loop(V, c, F) == c \in V /\ F \in [V \X Nat -> V]
LoopTo(V, c, F, n, g) ==
    g \in [0..n -> V] /\ g[0] = c /\ \A k \in 1..n : g[k] = F[<<g[k - 1], k>>]

LoopOn(V, c, F, g) ==
    /\ g \in [Nat -> V]
    /\ g = [k \in Nat |-> IF k = 0 THEN c ELSE F[<<g[k - 1], k>>]]

LEMMA LoopStarts ==
    ASSUME NEW V, NEW c, NEW F, Loop(V, c, F)
    PROVE  \A n \in Nat : \E g : LoopTo(V, c, F, n, g)
<1> USE DEF Loop
<1> DEFINE T == {n \in Nat : \E g : LoopTo(V, c, F, n, g)}
<1>1. 0 \in T
  <2> DEFINE g == [k \in 0..0 |-> c]
  <2>1. LoopTo(V, c, F, 0, g)
    BY DEF LoopTo
  <2> QED
    BY <2>1
<1>2. ASSUME NEW m \in Nat, m \in T PROVE m + 1 \in T
  <2>1. PICK g : LoopTo(V, c, F, m, g)
    BY <1>2
  <2> USE DEF LoopTo
  <2> DEFINE h == [k \in 0..m + 1 |-> IF k = m + 1 THEN F[<<g[m], m + 1>>] ELSE g[k]]
  <2>2. g[m] \in V /\ <<g[m], m + 1>> \in V \X Nat /\ F[<<g[m], m + 1>>] \in V
    BY <2>1
  <2>3. h \in [0..m + 1 -> V] /\ h[0] = c
    BY <2>1, <2>2
  <2>4. ASSUME NEW k \in 1..m + 1 PROVE h[k] = F[<<h[k - 1], k>>]
    <3>1. k \in 0..m + 1 /\ k # 0 /\ k - 1 \in 0..m + 1 /\ k - 1 # m + 1 /\ h[k - 1] = g[k - 1]
      OBVIOUS
    <3>2. CASE k = m + 1
      <4>1. k - 1 = m /\ h[k] = F[<<g[m], m + 1>>]
        BY <3>1, <3>2
      <4> QED
        BY <3>1, <3>2, <4>1
    <3>3. CASE k # m + 1
      <4>1. k \in 1..m /\ h[k] = g[k]
        BY <3>1, <3>3
      <4> HIDE DEF h
      <4> QED
        BY <2>1, <3>1, <4>1
    <3> QED
      BY <3>2, <3>3
  <2> HIDE DEF h
  <2>5. LoopTo(V, c, F, m + 1, h)
    BY <2>3, <2>4
  <2> HIDE DEF LoopTo
  <2> QED
    BY <2>5
<1> HIDE DEF T
<1>3. Nat \subseteq T
  BY <1>1, <1>2, AllNumbers
<1> QED
  BY <1>3 DEF T

LEMMA LoopAgrees ==
    ASSUME NEW V, NEW c, NEW F, Loop(V, c, F), NEW n \in Nat, NEW m \in Nat, n <= m,
           NEW g, NEW h, LoopTo(V, c, F, n, g), LoopTo(V, c, F, m, h)
    PROVE  \A k \in 0..n : g[k] = h[k]
<1> USE DEF LoopTo, Loop
<1> DEFINE T == {k \in Nat : k <= n => g[k] = h[k]}
<1>1. 0 \in T
  OBVIOUS
<1>2. ASSUME NEW k \in Nat, k \in T PROVE k + 1 \in T
  <2>1. CASE k + 1 <= n
    <3>1. k + 1 \in 1..n /\ k + 1 \in 1..m /\ (k + 1) - 1 = k /\ k <= n
      BY <2>1
    <3>2. g[k + 1] = F[<<g[k], k + 1>>] /\ h[k + 1] = F[<<h[k], k + 1>>]
      BY <3>1
    <3> QED
      BY <1>2, <3>1, <3>2
  <2> QED
    BY <2>1
<1> HIDE DEF T
<1>3. Nat \subseteq T
  BY <1>1, <1>2, AllNumbers
<1> QED
  BY <1>3 DEF T

LEMMA LoopRuns ==
    ASSUME NEW V, NEW c, NEW F, Loop(V, c, F)
    PROVE  \E g : LoopOn(V, c, F, g)
<1> DEFINE run(n) == CHOOSE g : LoopTo(V, c, F, n, g)
           all    == [n \in Nat |-> run(n)[n]]
<1>1. \A n \in Nat : LoopTo(V, c, F, n, run(n))
  BY LoopStarts
<1> HIDE DEF run
<1>2. all \in [Nat -> V]
  BY <1>1 DEF LoopTo
<1>3. all[0] = c
  BY <1>1 DEF LoopTo, Loop
<1>4. ASSUME NEW k \in Nat, k # 0 PROVE all[k] = F[<<all[k - 1], k>>]
  <2>1. k \in Nat /\ k - 1 \in Nat /\ k - 1 \in 0..k - 1 /\ k - 1 <= k /\ k \in 1..k
    BY <1>4
  <2>2. run(k - 1)[k - 1] = run(k)[k - 1]
    <3>1. LoopTo(V, c, F, k - 1, run(k - 1)) /\ LoopTo(V, c, F, k, run(k)) /\ Loop(V, c, F)
      BY <1>1, <2>1
    <3>2. \A j \in 0..k - 1 : run(k - 1)[j] = run(k)[j]
      BY <2>1, <3>1, LoopAgrees
    <3> QED
      BY <2>1, <3>2
  <2>3. run(k)[k] = F[<<run(k)[k - 1], k>>]
    BY <1>1, <2>1 DEF LoopTo
  <2> QED
    BY <2>1, <2>2, <2>3
<1> HIDE DEF all
<1>5. all = [k \in Nat |-> IF k = 0 THEN c ELSE F[<<all[k - 1], k>>]]
  BY <1>2, <1>3, <1>4
<1> QED
  BY <1>2, <1>5 DEF LoopOn

-----------------------------------------------------------------------------
(* Division.                                                               *)

LEMMA DivMod ==
    ASSUME NEW a \in Nat, NEW m \in Nat \ {0}
    PROVE  /\ a \div m \in Nat /\ a % m \in 0..m - 1
           /\ a = m * (a \div m) + (a % m)
           /\ (a \div m) * m <= a /\ a < ((a \div m) + 1) * m
<1>1. PICK q \in Nat : q = a \div m
  OBVIOUS
<1>2. PICK r \in 0..m - 1 : r = a % m
  OBVIOUS
<1>3. a = m * q + r
  <2>1. a = m * (a \div m) + (a % m)
    OBVIOUS
  <2> QED
    BY <1>1, <1>2, <2>1
<1>4. m * q = q * m /\ (q + 1) * m = q * m + m /\ q * m \in Nat
  OBVIOUS
<1>5. q * m <= a /\ a < (q + 1) * m
  BY <1>3, <1>4
<1> QED
  BY <1>1, <1>2, <1>3, <1>5

LEMMA Times ==
    ASSUME NEW a \in Nat, NEW b \in Nat, NEW m \in Nat
    PROVE  /\ a * m \in Nat /\ m * a = a * m
           /\ a <= b => a * m <= b * m
           /\ a * m < b * m => a < b
  OBVIOUS

LEMMA Quotient ==
    ASSUME NEW a \in Nat, NEW m \in Nat \ {0}, NEW q \in Nat,
           q * m <= a, a < (q + 1) * m
    PROVE  a \div m = q
<1> DEFINE p == a \div m
<1>1. p \in Nat /\ p * m <= a /\ a < (p + 1) * m
  BY DivMod
<1> HIDE DEF p
<1>2. p * m < (q + 1) * m /\ q * m < (p + 1) * m
  BY <1>1, Times
<1>3. p < q + 1 /\ q < p + 1
  BY <1>1, <1>2, Times
<1> QED
  BY <1>1, <1>3 DEF p

LEMMA DivTwice ==
    ASSUME NEW v \in Nat, NEW p \in Nat \ {0}, NEW b \in Nat \ {0}
    PROVE  v \div (p * b) = (v \div p) \div b
<1> DEFINE x == v \div p
           y == x \div b
<1>1. x \in Nat /\ x * p <= v /\ v < (x + 1) * p
  BY DivMod
<1> HIDE DEF x
<1>2. y \in Nat /\ y * b <= x /\ x < (y + 1) * b
  BY <1>1, DivMod
<1> HIDE DEF y
<1>3. p * b \in Nat \ {0}
  OBVIOUS
<1>4. (y * b) * p <= x * p /\ (x + 1) * p <= ((y + 1) * b) * p
  BY <1>1, <1>2, Times
<1>5. (y * b) * p = y * (p * b) /\ ((y + 1) * b) * p = (y + 1) * (p * b)
  BY <1>2
<1>6. y * (p * b) <= v /\ v < (y + 1) * (p * b)
  BY <1>1, <1>2, <1>3, <1>4, <1>5
<1>7. v \div (p * b) = y
  BY <1>2, <1>3, <1>6, Quotient
<1> QED
  BY <1>7 DEF x, y

-----------------------------------------------------------------------------
(* Powers.                                                                 *)

LEMMA PowerIs ==
    ASSUME NEW base \in Nat
    PROVE  /\ Power(base, 0) = 1
           /\ \A n \in Nat : Power(base, n) \in Nat /\ Power(base, n + 1) = base * Power(base, n)
<1> DEFINE F == [z \in Nat \X Nat |-> base * z[1]]
           power == CHOOSE p : p = [k \in Nat |-> IF k = 0 THEN 1 ELSE base * p[k - 1]]
<1>1. \A n : Power(base, n) = power[n]
  BY DEF Power
<1>2. PICK g : LoopOn(Nat, 1, F, g)
  <2>1. Loop(Nat, 1, F)
    BY DEF Loop
  <2> HIDE DEF F
  <2> QED
    BY <2>1, LoopRuns, Zenon
<1>3. g = [k \in Nat |-> IF k = 0 THEN 1 ELSE base * g[k - 1]]
  <2>1. \A k \in Nat : k # 0 => F[<<g[k - 1], k>>] = base * g[k - 1]
    BY <1>2 DEF LoopOn
  <2> HIDE DEF F
  <2> QED
    BY <1>2, <2>1 DEF LoopOn
<1>4. power = [k \in Nat |-> IF k = 0 THEN 1 ELSE base * power[k - 1]]
  BY <1>3
<1> HIDE DEF power
<1>5. power[0] = 1 /\ \A n \in Nat : power[n + 1] = base * power[n]
  <2>1. \A n \in Nat : (n + 1) - 1 = n /\ n + 1 # 0 /\ n + 1 \in Nat
    OBVIOUS
  <2> QED
    BY <1>4, <2>1
<1> DEFINE T == {k \in Nat : power[k] \in Nat}
<1>6. Nat \subseteq T
  <2>1. 0 \in T /\ \A n \in Nat : n \in T => n + 1 \in T
    BY <1>5
  <2> HIDE DEF T
  <2> QED
    BY <2>1, AllNumbers
<1> QED
  BY <1>1, <1>5, <1>6

LEMMA PowerIsPositive ==
    ASSUME NEW base \in Nat \ {0}
    PROVE  \A n \in Nat : Power(base, n) \in Nat \ {0}
<1> DEFINE T == {n \in Nat : Power(base, n) # 0}
<1>1. 0 \in T
  BY PowerIs
<1>2. ASSUME NEW n \in Nat, n \in T PROVE n + 1 \in T
  <2>1. PICK p \in Nat : p = Power(base, n) /\ p # 0 /\ Power(base, n + 1) = base * p
    BY <1>2, PowerIs
  <2> QED
    BY <2>1
<1> HIDE DEF T
<1>3. Nat \subseteq T
  BY <1>1, <1>2, AllNumbers
<1> QED
  BY <1>3, PowerIs DEF T

LEMMA PowerOfSum ==
    ASSUME NEW base \in Nat, NEW m \in Nat
    PROVE  \A n \in Nat : Power(base, m + n) = Power(base, m) * Power(base, n)
<1> DEFINE T == {n \in Nat : Power(base, m + n) = Power(base, m) * Power(base, n)}
<1>1. 0 \in T
  <2>1. Power(base, m) \in Nat /\ Power(base, 0) = 1 /\ m + 0 = m
    BY PowerIs
  <2> QED
    BY <2>1
<1>2. ASSUME NEW n \in Nat, n \in T PROVE n + 1 \in T
  <2>1. PICK p \in Nat, q \in Nat : p = Power(base, m) /\ q = Power(base, n)
    BY PowerIs
  <2>2. Power(base, m + n) = p * q /\ Power(base, n + 1) = base * q
    BY <1>2, <2>1, PowerIs
  <2>3. m + n \in Nat /\ m + (n + 1) = (m + n) + 1
    OBVIOUS
  <2>4. Power(base, m + (n + 1)) = base * (p * q)
    BY <2>2, <2>3, PowerIs
  <2>5. base * (p * q) = p * (base * q)
    OBVIOUS
  <2> QED
    BY <2>1, <2>2, <2>4, <2>5
<1> HIDE DEF T
<1>3. Nat \subseteq T
  BY <1>1, <1>2, AllNumbers
<1> QED
  BY <1>3 DEF T

LEMMA PowerGrows ==
    ASSUME NEW a \in Nat, NEW b \in Nat, a <= b
    PROVE  \A n \in Nat : Power(a, n) <= Power(b, n)
<1> DEFINE T == {n \in Nat : Power(a, n) <= Power(b, n)}
<1>1. 0 \in T
  BY PowerIs
<1>2. ASSUME NEW n \in Nat, n \in T PROVE n + 1 \in T
  <2>1. PICK p \in Nat, q \in Nat : p = Power(a, n) /\ q = Power(b, n)
    BY PowerIs
  <2>2. p <= q /\ Power(a, n + 1) = a * p /\ Power(b, n + 1) = b * q
    BY <1>2, <2>1, PowerIs
  <2>3. a * p <= b * p /\ p * b <= q * b /\ b * p = p * b /\ b * q = q * b
        /\ a * p \in Nat /\ b * p \in Nat /\ b * q \in Nat
    BY <2>2, Times
  <2>4. a * p <= b * q
    BY <2>3
  <2> QED
    BY <2>2, <2>4
<1> HIDE DEF T
<1>3. Nat \subseteq T
  BY <1>1, <1>2, AllNumbers
<1> QED
  BY <1>3 DEF T

-----------------------------------------------------------------------------
(* Values of digits.                                                       *)

LEMMA ValuesAre ==
    ASSUME NEW base \in Nat, NEW n \in Nat, NEW d \in [1..n -> Nat]
    PROVE  /\ Values(d, base)[0] = 0
           /\ \A k \in 1..n : Values(d, base)[k] = Values(d, base)[k - 1] * base + d[k]
           /\ \A k \in 0..n : Values(d, base)[k] \in Nat
           /\ Value(d, base) = Values(d, base)[n]
<1> DEFINE F == [z \in Nat \X Nat |-> z[1] * base + (IF z[2] \in 1..n THEN d[z[2]] ELSE 0)]
           acc == CHOOSE a : a = [k \in 0..n |-> IF k = 0 THEN 0 ELSE a[k - 1] * base + d[k]]
<1>1. Len(d) = n
  OBVIOUS
<1>2. Values(d, base) = acc
  BY <1>1 DEF Values
<1>3. PICK g : LoopOn(Nat, 0, F, g)
  <2>1. ASSUME NEW z \in Nat \X Nat
        PROVE  z[1] * base + (IF z[2] \in 1..n THEN d[z[2]] ELSE 0) \in Nat
    <3>1. z[1] * base \in Nat
      OBVIOUS
    <3>2. (IF z[2] \in 1..n THEN d[z[2]] ELSE 0) \in Nat
      OBVIOUS
    <3> QED
      BY <3>1, <3>2
  <2>2. Loop(Nat, 0, F)
    BY <2>1 DEF Loop
  <2> HIDE DEF F
  <2> QED
    BY <2>2, LoopRuns, Zenon
<1> DEFINE f == [k \in 0..n |-> g[k]]
<1>4. f = [k \in 0..n |-> IF k = 0 THEN 0 ELSE f[k - 1] * base + d[k]]
  <2>1. \A k \in 0..n : k # 0 => f[k] = f[k - 1] * base + d[k]
    <3> SUFFICES ASSUME NEW k \in 0..n, k # 0 PROVE f[k] = f[k - 1] * base + d[k]
      OBVIOUS
    <3>1. /\ k \in Nat /\ k \in 1..n /\ k - 1 \in 0..n /\ k - 1 \in Nat
          /\ g \in [Nat -> Nat] /\ g[k - 1] \in Nat
      <4>1. k \in Nat /\ k \in 1..n /\ k - 1 \in 0..n /\ k - 1 \in Nat
        OBVIOUS
      <4>2. g \in [Nat -> Nat]
        BY <1>3 DEF LoopOn
      <4> QED
        BY <4>1, <4>2
    <3>2. F[<<g[k - 1], k>>] = g[k - 1] * base + d[k]
      BY <3>1
    <3> HIDE DEF F
    <3>3. g[k] = F[<<g[k - 1], k>>]
      BY <1>3, <3>1 DEF LoopOn
    <3> QED
      BY <3>1, <3>2, <3>3
  <2>2. f[0] = 0
    BY <1>3 DEF LoopOn
  <2>3. f = [k \in 0..n |-> f[k]]
    OBVIOUS
  <2> HIDE DEF f
  <2> QED
    BY <2>1, <2>2, <2>3
<1> HIDE DEF f
<1>5. acc = [k \in 0..n |-> IF k = 0 THEN 0 ELSE acc[k - 1] * base + d[k]]
  BY <1>4
<1> HIDE DEF acc
<1>6. acc[0] = 0 /\ \A k \in 1..n : acc[k] = acc[k - 1] * base + d[k]
  <2>1. 0 \in 0..n /\ \A k \in 1..n : k \in 0..n /\ k # 0
    OBVIOUS
  <2> QED
    BY <1>5, <2>1
<1> DEFINE T == {k \in Nat : k <= n => acc[k] \in Nat}
<1>7. Nat \subseteq T
  <2>1. 0 \in T
    BY <1>6
  <2>2. ASSUME NEW k \in Nat, k \in T PROVE k + 1 \in T
    <3>1. CASE k + 1 <= n
      <4>1. k + 1 \in 1..n /\ (k + 1) - 1 = k /\ acc[k] \in Nat
        BY <2>2, <3>1
      <4>2. acc[k + 1] = acc[k] * base + d[k + 1] /\ d[k + 1] \in Nat
        BY <1>6, <4>1
      <4> QED
        BY <4>1, <4>2
    <3> QED
      BY <3>1
  <2> HIDE DEF T
  <2> QED
    BY <2>1, <2>2, AllNumbers
<1> QED
  BY <1>1, <1>2, <1>6, <1>7 DEF Value

Number(d, base, n) == base \in Nat \ {0} /\ n \in Nat /\ d \in [1..n -> 0..base - 1]

Rest(d, m, n, x)          == \A k \in m + 1..n : d[k] = x
Same(d, e, m)             == \A k \in 1..m : d[k] = e[k]
Near(v, d, base, n, m)    ==
    /\ v \in Nat
    /\ Values(d, base)[m] * Power(base, n - m) <= v
    /\ v < (Values(d, base)[m] + 1) * Power(base, n - m)

(* What the digits after the first m can add.                              *)
LEMMA DigitsBound ==
    ASSUME NEW d, NEW base, NEW n, NEW m, Number(d, base, n), m \in 0..n
    PROVE  \A i \in 0..n - m :
              /\ Values(d, base)[m] * Power(base, i) <= Values(d, base)[m + i]
              /\ Values(d, base)[m + i] + 1 <= (Values(d, base)[m] + 1) * Power(base, i)
<1>0. base \in Nat \ {0} /\ n \in Nat /\ d \in [1..n -> 0..base - 1] /\ m \in 0..n
  BY DEF Number
<1> USE <1>0
<1> DEFINE v == Values(d, base)
           T == {i \in Nat : i <= n - m =>
                     /\ v[m] * Power(base, i) <= v[m + i]
                     /\ v[m + i] + 1 <= (v[m] + 1) * Power(base, i)}
<1>1. /\ \A k \in 1..n : v[k] = v[k - 1] * base + d[k]
      /\ \A k \in 0..n : v[k] \in Nat
  <2>1. d \in [1..n -> Nat]
    OBVIOUS
  <2> QED
    BY <2>1, ValuesAre
<1> HIDE DEF v
<1>2. 0 \in T
  <2>1. PICK x \in Nat : x = v[m] /\ v[m + 0] = x
    BY <1>1
  <2>2. Power(base, 0) = 1
    BY PowerIs
  <2> QED
    BY <2>1, <2>2
<1>3. ASSUME NEW i \in Nat, i \in T PROVE i + 1 \in T
  <2> SUFFICES ASSUME i + 1 <= n - m
               PROVE  /\ v[m] * Power(base, i + 1) <= v[m + (i + 1)]
                      /\ v[m + (i + 1)] + 1 <= (v[m] + 1) * Power(base, i + 1)
    OBVIOUS
  <2>1. PICK p \in Nat : p = Power(base, i) /\ Power(base, i + 1) = base * p
    BY PowerIs
  <2>2. m + (i + 1) \in 1..n /\ m + i \in 0..n /\ (m + (i + 1)) - 1 = m + i
    OBVIOUS
  <2>3. PICK x \in Nat, y \in Nat, c \in 0..base - 1 :
          x = v[m] /\ y = v[m + i] /\ c = d[m + (i + 1)]
    BY <1>1, <2>2
  <2>4. v[m + (i + 1)] = y * base + c
    BY <1>1, <2>2, <2>3
  <2>5. x * p <= y /\ y + 1 <= (x + 1) * p
    BY <1>3, <2>1, <2>3
  <2>6. x * p \in Nat /\ (x + 1) * p \in Nat
    OBVIOUS
  <2>7. (x * p) * base <= y * base /\ (y + 1) * base <= ((x + 1) * p) * base
    BY <2>5, <2>6, Times
  <2>8. (x * p) * base = x * (base * p) /\ ((x + 1) * p) * base = (x + 1) * (base * p)
    OBVIOUS
  <2>9. (y + 1) * base = y * base + base /\ y * base \in Nat
        /\ x * (base * p) \in Nat /\ (x + 1) * (base * p) \in Nat
    OBVIOUS
  <2>10. x * (base * p) <= y * base + c /\ (y * base + c) + 1 <= (x + 1) * (base * p)
    BY <2>7, <2>8, <2>9
  <2> QED
    BY <2>1, <2>3, <2>4, <2>10
<1> HIDE DEF T
<1>4. Nat \subseteq T
  BY <1>2, <1>3, AllNumbers
<1>5. \A i \in 0..n - m : i \in T /\ i <= n - m
  BY <1>4
<1> QED
  BY <1>5 DEF T, v

LEMMA ValueBound ==
    ASSUME NEW d, NEW base, NEW n, Number(d, base, n)
    PROVE  Value(d, base) \in Nat /\ Value(d, base) < Power(base, n)
<1>0. base \in Nat \ {0} /\ n \in Nat /\ d \in [1..n -> 0..base - 1]
  BY DEF Number
<1> USE <1>0
<1>1. 0 \in 0..n /\ n \in 0..n - 0 /\ 0 + n = n
  OBVIOUS
<1>2. d \in [1..n -> Nat]
  OBVIOUS
<1>3. Values(d, base)[0] = 0 /\ Values(d, base)[n] \in Nat /\ Value(d, base) = Values(d, base)[n]
  BY <1>1, <1>2, ValuesAre
<1>4. Values(d, base)[0 + n] + 1 <= (Values(d, base)[0] + 1) * Power(base, n)
  BY <1>1, DigitsBound
<1>5. Power(base, n) \in Nat
  BY PowerIs
<1> QED
  BY <1>1, <1>3, <1>4, <1>5

(* Highest digits at the end.                                              *)
LEMMA HighestAtEnd ==
    ASSUME NEW d, NEW base, NEW n, NEW m, Number(d, base, n), m \in 0..n,
           Rest(d, m, n, base - 1)
    PROVE  Value(d, base) + 1 = (Values(d, base)[m] + 1) * Power(base, n - m)
<1>0. /\ base \in Nat \ {0} /\ n \in Nat /\ d \in [1..n -> 0..base - 1]
      /\ m \in 0..n /\ \A k \in m + 1..n : d[k] = base - 1
  BY DEF Number, Rest
<1> USE <1>0
<1> DEFINE v == Values(d, base)
           T == {i \in Nat : i <= n - m => v[m + i] + 1 = (v[m] + 1) * Power(base, i)}
<1>1. /\ \A k \in 1..n : v[k] = v[k - 1] * base + d[k]
      /\ \A k \in 0..n : v[k] \in Nat
      /\ Value(d, base) = v[n]
  <2>1. d \in [1..n -> Nat]
    OBVIOUS
  <2> QED
    BY <2>1, ValuesAre
<1> HIDE DEF v
<1>2. 0 \in T
  <2>1. PICK x \in Nat : x = v[m] /\ v[m + 0] = x
    BY <1>1
  <2>2. Power(base, 0) = 1
    BY PowerIs
  <2> QED
    BY <2>1, <2>2
<1>3. ASSUME NEW i \in Nat, i \in T PROVE i + 1 \in T
  <2> SUFFICES ASSUME i + 1 <= n - m
               PROVE  v[m + (i + 1)] + 1 = (v[m] + 1) * Power(base, i + 1)
    OBVIOUS
  <2>1. PICK p \in Nat : p = Power(base, i) /\ Power(base, i + 1) = base * p
    BY PowerIs
  <2>2. m + (i + 1) \in 1..n /\ m + (i + 1) \in m + 1..n
        /\ m + i \in 0..n /\ (m + (i + 1)) - 1 = m + i
    OBVIOUS
  <2>3. PICK x \in Nat, y \in Nat : x = v[m] /\ y = v[m + i]
    BY <1>1, <2>2
  <2>4. v[m + (i + 1)] = y * base + (base - 1)
    BY <1>1, <2>2, <2>3
  <2>5. y + 1 = (x + 1) * p
    BY <1>3, <2>1, <2>3
  <2>6. (y + 1) * base = y * base + base /\ ((x + 1) * p) * base = (x + 1) * (base * p)
    OBVIOUS
  <2>7. (y * base + (base - 1)) + 1 = y * base + base
    OBVIOUS
  <2>8. (y * base + (base - 1)) + 1 = (x + 1) * (base * p)
    BY <2>5, <2>6, <2>7
  <2> QED
    BY <2>1, <2>3, <2>4, <2>8
<1> HIDE DEF T
<1>4. Nat \subseteq T
  BY <1>2, <1>3, AllNumbers
<1>5. n - m \in T /\ n - m <= n - m /\ m + (n - m) = n
  BY <1>4
<1> QED
  BY <1>1, <1>5 DEF T, v

(* Zeros at the end.                                                       *)
LEMMA ZerosAtEnd ==
    ASSUME NEW d, NEW base, NEW n, NEW m, Number(d, base, n), m \in 0..n,
           Rest(d, m, n, 0)
    PROVE  Value(d, base) = Values(d, base)[m] * Power(base, n - m)
<1>0. /\ base \in Nat \ {0} /\ n \in Nat /\ d \in [1..n -> 0..base - 1]
      /\ m \in 0..n /\ \A k \in m + 1..n : d[k] = 0
  BY DEF Number, Rest
<1> USE <1>0
<1> DEFINE v == Values(d, base)
           T == {i \in Nat : i <= n - m => v[m + i] = v[m] * Power(base, i)}
<1>1. /\ \A k \in 1..n : v[k] = v[k - 1] * base + d[k]
      /\ \A k \in 0..n : v[k] \in Nat
      /\ Value(d, base) = v[n]
  <2>1. d \in [1..n -> Nat]
    OBVIOUS
  <2> QED
    BY <2>1, ValuesAre
<1> HIDE DEF v
<1>2. 0 \in T
  <2>1. PICK x \in Nat : x = v[m] /\ v[m + 0] = x
    BY <1>1
  <2>2. Power(base, 0) = 1
    BY PowerIs
  <2> QED
    BY <2>1, <2>2
<1>3. ASSUME NEW i \in Nat, i \in T PROVE i + 1 \in T
  <2> SUFFICES ASSUME i + 1 <= n - m
               PROVE  v[m + (i + 1)] = v[m] * Power(base, i + 1)
    OBVIOUS
  <2>1. PICK p \in Nat : p = Power(base, i) /\ Power(base, i + 1) = base * p
    BY PowerIs
  <2>2. m + (i + 1) \in 1..n /\ m + (i + 1) \in m + 1..n
        /\ m + i \in 0..n /\ (m + (i + 1)) - 1 = m + i
    OBVIOUS
  <2>3. PICK x \in Nat, y \in Nat : x = v[m] /\ y = v[m + i]
    BY <1>1, <2>2
  <2>4. v[m + (i + 1)] = y * base
    BY <1>1, <2>2, <2>3
  <2>5. y = x * p
    BY <1>3, <2>1, <2>3
  <2>6. (x * p) * base = x * (base * p)
    OBVIOUS
  <2> QED
    BY <2>1, <2>3, <2>4, <2>5, <2>6
<1> HIDE DEF T
<1>4. Nat \subseteq T
  BY <1>2, <1>3, AllNumbers
<1>5. n - m \in T /\ n - m <= n - m /\ m + (n - m) = n
  BY <1>4
<1> QED
  BY <1>1, <1>5 DEF T, v

(* A number has n places.                                                  *)
LEMMA PlacesAre ==
    ASSUME NEW base \in Nat \ {0}, NEW n \in Nat, NEW v \in Nat
    PROVE  /\ Places(v, base, n) \in [1..n -> 0..base - 1]
           /\ \A k \in 1..n :
                 /\ Places(v, base, n)[k] = (v \div Power(base, n - k)) % base
                 /\ v \div Power(base, n - k) =
                      (v \div Power(base, n - (k - 1))) * base + Places(v, base, n)[k]
<1>1. ASSUME NEW k \in 1..n
      PROVE  /\ (v \div Power(base, n - k)) % base \in 0..base - 1
             /\ v \div Power(base, n - k) =
                  (v \div Power(base, n - (k - 1))) * base + ((v \div Power(base, n - k)) % base)
  <2>1. n - k \in Nat /\ n - (k - 1) = (n - k) + 1
    OBVIOUS
  <2>2. PICK p \in Nat \ {0} : p = Power(base, n - k)
    BY <2>1, PowerIsPositive
  <2>3. Power(base, n - (k - 1)) = p * base
    <3>1. Power(base, (n - k) + 1) = base * p
      BY <2>1, <2>2, PowerIs
    <3> QED
      BY <2>1, <3>1
  <2>4. PICK x \in Nat : x = v \div p
    BY DivMod
  <2>5. v \div (p * base) = x \div base
    BY <2>2, <2>4, DivTwice
  <2>6. x % base \in 0..base - 1 /\ x = base * (x \div base) + (x % base) /\ x \div base \in Nat
    BY DivMod
  <2>7. base * (x \div base) = (x \div base) * base
    BY <2>6, Times
  <2> QED
    BY <2>2, <2>3, <2>4, <2>5, <2>6, <2>7
<1>2. \A k \in 1..n : Places(v, base, n)[k] = (v \div Power(base, n - k)) % base
  BY DEF Places
<1>3. Places(v, base, n) \in [1..n -> 0..base - 1]
  BY <1>1 DEF Places
<1> QED
  BY <1>1, <1>2, <1>3

(* The value of what begins with the places of v.                          *)
LEMMA PlacesRead ==
    ASSUME NEW d, NEW base, NEW n, NEW m, Number(d, base, n), m \in 0..n,
           NEW v, v \in Nat, v < Power(base, n),
           Same(d, Places(v, base, n), m)
    PROVE  Values(d, base)[m] = v \div Power(base, n - m)
<1>0. /\ base \in Nat \ {0} /\ n \in Nat /\ d \in [1..n -> 0..base - 1] /\ m \in 0..n
      /\ v \in Nat /\ v < Power(base, n)
      /\ \A k \in 1..m : d[k] = Places(v, base, n)[k]
  BY DEF Number, Same
<1> USE <1>0
<1> DEFINE a == Values(d, base)
           T == {k \in Nat : k <= m => a[k] = v \div Power(base, n - k)}
<1>1. a[0] = 0 /\ \A k \in 1..n : a[k] = a[k - 1] * base + d[k]
  <2>1. d \in [1..n -> Nat]
    OBVIOUS
  <2> QED
    BY <2>1, ValuesAre
<1> HIDE DEF a
<1>2. 0 \in T
  <2>1. PICK p \in Nat \ {0} : p = Power(base, n) /\ v < p
    BY PowerIsPositive
  <2>2. 0 * p <= v /\ v < (0 + 1) * p
    BY <2>1
  <2>3. v \div p = 0 /\ n - 0 = n
    BY <2>1, <2>2, Quotient
  <2> QED
    BY <1>1, <2>1, <2>3
<1>3. ASSUME NEW k \in Nat, k \in T PROVE k + 1 \in T
  <2> SUFFICES ASSUME k + 1 <= m PROVE a[k + 1] = v \div Power(base, n - (k + 1))
    OBVIOUS
  <2>1. k + 1 \in 1..m /\ k + 1 \in 1..n /\ (k + 1) - 1 = k
    OBVIOUS
  <2>2. a[k + 1] = a[k] * base + Places(v, base, n)[k + 1]
    BY <1>1, <2>1
  <2>3. v \div Power(base, n - (k + 1)) =
          (v \div Power(base, n - ((k + 1) - 1))) * base + Places(v, base, n)[k + 1]
    <3>1. PICK j \in 1..n : j = k + 1
      BY <2>1
    <3>2. v \div Power(base, n - j) =
            (v \div Power(base, n - (j - 1))) * base + Places(v, base, n)[j]
      <4>1. j \in 1..n /\ base \in Nat \ {0} /\ n \in Nat /\ v \in Nat
        BY <3>1
      <4>2. \A i \in 1..n : v \div Power(base, n - i) =
              (v \div Power(base, n - (i - 1))) * base + Places(v, base, n)[i]
        BY PlacesAre
      <4> QED
        BY <4>1, <4>2, Zenon
    <3> QED
      BY <3>1, <3>2, Zenon
  <2> QED
    BY <1>3, <2>1, <2>2, <2>3
<1> HIDE DEF T
<1>4. Nat \subseteq T
  BY <1>2, <1>3, AllNumbers
<1>5. m \in T /\ m <= m
  BY <1>4
<1> QED
  BY <1>5 DEF T, a

(* The places of what is near enough to the value of the first m digits.   *)
LEMMA PlacesOf ==
    ASSUME NEW d, NEW base, NEW n, NEW m, Number(d, base, n), m \in 0..n,
           NEW v, Near(v, d, base, n, m)
    PROVE  Same(Places(v, base, n), d, m)
<1>0. /\ base \in Nat \ {0} /\ n \in Nat /\ d \in [1..n -> 0..base - 1]
      /\ m \in 0..n /\ v \in Nat
      /\ Values(d, base)[m] * Power(base, n - m) <= v
      /\ v < (Values(d, base)[m] + 1) * Power(base, n - m)
  BY DEF Number, Near
<1> USE <1>0
<1> DEFINE a == Values(d, base)
<1>1. /\ \A k \in 1..n : a[k] = a[k - 1] * base + d[k]
      /\ \A k \in 0..n : a[k] \in Nat
  <2>1. d \in [1..n -> Nat]
    OBVIOUS
  <2> QED
    BY <2>1, ValuesAre
<1> HIDE DEF a
<1>2. ASSUME NEW k \in 0..m PROVE v \div Power(base, n - k) = a[k]
  <2>1. k \in 0..n /\ m - k \in 0..n - k /\ k + (m - k) = m
        /\ n - m \in Nat /\ m - k \in Nat /\ n - k = (n - m) + (m - k) /\ n - k \in Nat
    OBVIOUS
  <2>2. PICK x \in Nat, y \in Nat : x = a[k] /\ y = a[m]
    BY <1>1, <2>1
  <2>3. PICK p \in Nat \ {0}, q \in Nat \ {0} :
          p = Power(base, n - m) /\ q = Power(base, m - k)
    BY <2>1, PowerIsPositive
  <2>4. Power(base, n - k) = p * q
    BY <2>1, <2>3, PowerOfSum
  <2>5. x * q <= y /\ y + 1 <= (x + 1) * q
    BY <2>1, <2>2, <2>3, DigitsBound DEF a
  <2>6. y * p <= v /\ v < (y + 1) * p
    BY <2>2, <2>3 DEF a
  <2>7. x * q \in Nat /\ (x + 1) * q \in Nat /\ p * q \in Nat \ {0}
        /\ (x * q) * p = x * (p * q) /\ ((x + 1) * q) * p = (x + 1) * (p * q)
    OBVIOUS
  <2>8. (x * q) * p <= y * p /\ (y + 1) * p <= ((x + 1) * q) * p
    BY <2>5, <2>7, Times
  <2>9. x * (p * q) <= v /\ v < (x + 1) * (p * q)
    <3>1. PICK b \in Nat, c \in Nat : b = y * p /\ c = (y + 1) * p
      OBVIOUS
    <3>2. PICK e \in Nat, f \in Nat : e = x * (p * q) /\ f = (x + 1) * (p * q)
      BY <2>7
    <3>3. e <= b /\ c <= f
      BY <2>7, <2>8, <3>1, <3>2, Zenon
    <3>4. b <= v /\ v < c
      BY <2>6, <3>1, Zenon
    <3>5. e <= v /\ v < f
      BY <3>3, <3>4
    <3> QED
      BY <3>2, <3>5, Zenon
  <2>10. v \div (p * q) = x
    BY <2>7, <2>9, Quotient
  <2> QED
    BY <2>2, <2>4, <2>10
<1>3. ASSUME NEW k \in 1..m PROVE Places(v, base, n)[k] = d[k]
  <2>1. k \in 0..m /\ k - 1 \in 0..m /\ k \in 1..n /\ k - 1 \in 0..n
    OBVIOUS
  <2>2. a[k] = a[k - 1] * base + Places(v, base, n)[k]
    <3>1. v \div Power(base, n - k) =
            (v \div Power(base, n - (k - 1))) * base + Places(v, base, n)[k]
      BY <2>1, PlacesAre, Zenon
    <3> QED
      BY <1>2, <2>1, <3>1, Zenon
  <2>3. a[k] = a[k - 1] * base + d[k]
    BY <1>1, <2>1
  <2>4. PICK x \in Nat : x = a[k - 1] * base
    <3>1. a[k - 1] \in Nat
      BY <1>1, <2>1
    <3> QED
      BY <3>1
  <2>5. Places(v, base, n)[k] \in Nat /\ d[k] \in Nat
    <3>1. Places(v, base, n) \in [1..n -> 0..base - 1]
      BY PlacesAre
    <3> QED
      BY <2>1, <3>1
  <2>6. PICK i \in Nat, j \in Nat : i = Places(v, base, n)[k] /\ j = d[k]
    BY <2>5
  <2>7. a[k] = x + i /\ a[k] = x + j
    BY <2>2, <2>3, <2>4, <2>6, Zenon
  <2>8. i = j
    BY <2>7
  <2> QED
    BY <2>6, <2>8
<1> QED
  BY <1>3 DEF Same

-----------------------------------------------------------------------------
(* One group.                                                              *)

LEMMA Sizes ==
    /\ Alpha \in Nat \ {0} /\ Byte \in Nat \ {0} /\ Group \in Nat \ {0} /\ Word \in Nat \ {0}
    /\ Word <= Group /\ Alpha <= Byte /\ Power(Byte, Word) <= Power(Alpha, Group)
    /\ Bad \notin Digits /\ Bad \notin Nat
    /\ Alpha - 1 \in Digits /\ 0 \in Bytes
<1>1. /\ Alpha \in Nat \ {0} /\ Byte \in Nat \ {0} /\ Group \in Nat \ {0} /\ Word \in Nat \ {0}
      /\ Word <= Group /\ Alpha <= Byte /\ Power(Alpha, Group) >= Power(Byte, Word)
      /\ Bad \notin Nat
  BY B85Assumption DEF B85Assumption
<1>2. Power(Alpha, Group) \in Nat /\ Power(Byte, Word) \in Nat
  BY <1>1, PowerIs
<1> QED
  BY <1>1, <1>2 DEF Digits, Bytes

(* chunk is the group of a word that ends in f zeros, with the highest     *)
(* digit in place of the last f characters.                                *)
FilledUp(word, f, chunk) ==
    /\ word \in [1..Word -> Bytes] /\ f \in 0..Word - 1 /\ chunk \in [1..Group -> Digits]
    /\ \A k \in Word - f + 1..Word : word[k] = 0
    /\ \A k \in 1..Group - f : chunk[k] = EncodeWord(word)[k]
    /\ \A k \in Group - f + 1..Group : chunk[k] = Alpha - 1

(* It is a word, and has the bytes before the zeros.                       *)
LEMMA WordComesBack ==
    ASSUME NEW word, NEW f, NEW chunk, FilledUp(word, f, chunk)
    PROVE  /\ Value(chunk, Alpha) \in Nat
           /\ Value(chunk, Alpha) < Power(Byte, Word)
           /\ \A k \in 1..Word - f : Places(Value(chunk, Alpha), Byte, Word)[k] = word[k]
<1>1. /\ f \in Nat /\ Group \in Nat /\ Word \in Nat /\ Alpha \in Nat /\ Byte \in Nat
      /\ f \in 0..Word - 1
  BY Sizes DEF FilledUp
<1>2. Number(chunk, Alpha, Group) /\ Number(word, Byte, Word)
  BY Sizes DEF FilledUp, Digits, Bytes, Number
<1>3. word \in [1..Word -> Nat]
  BY DEF FilledUp, Bytes
<1>4. PICK m \in 0..Group : m = Group - f /\ Group - m = f
  BY <1>1, Sizes
<1>5. PICK l \in 0..Word : l = Word - f /\ Word - l = f
  BY <1>1, Sizes
<1>6. PICK v \in Nat : v = Value(word, Byte) /\ v < Power(Byte, Word)
  BY <1>2, ValueBound
<1>7. v < Power(Alpha, Group)
  <2>1. Power(Byte, Word) \in Nat /\ Power(Alpha, Group) \in Nat
    BY <1>1, PowerIs
  <2> QED
    BY <1>6, <2>1, Sizes
<1>8. PICK p \in Nat \ {0}, q \in Nat \ {0} : p = Power(Alpha, f) /\ q = Power(Byte, f) /\ p <= q
  <2>1. Power(Alpha, f) \in Nat \ {0} /\ Power(Byte, f) \in Nat \ {0}
    BY <1>1, Sizes, PowerIsPositive
  <2>2. Power(Alpha, f) <= Power(Byte, f)
    BY <1>1, PowerGrows, Sizes
  <2> QED
    BY <2>1, <2>2
<1>9. PICK c \in Nat : c = Values(chunk, Alpha)[m] /\ c = v \div p
  <2>1. Same(chunk, Places(v, Alpha, Group), m)
    BY <1>4, <1>6 DEF FilledUp, EncodeWord, Same
  <2>2. Values(chunk, Alpha)[m] = v \div Power(Alpha, Group - m)
    <3>1. m \in 0..Group /\ v \in Nat
      BY <1>4, <1>6
    <3> QED
      BY <1>2, <1>7, <2>1, <3>1, PlacesRead, SMTT(30)
  <2>3. v \div p \in Nat
    BY DivMod
  <2> QED
    BY <1>4, <1>8, <2>2, <2>3
<1>10. PICK w \in Nat : w = Value(chunk, Alpha) /\ w + 1 = (c + 1) * p
  <2>1. Value(chunk, Alpha) \in Nat
    BY <1>2, ValueBound
  <2>2. Rest(chunk, m, Group, Alpha - 1)
    BY <1>4 DEF FilledUp, Rest
  <2>3. Value(chunk, Alpha) + 1 = (Values(chunk, Alpha)[m] + 1) * Power(Alpha, Group - m)
    <3>1. m \in 0..Group
      BY <1>4
    <3> QED
      BY <1>2, <2>2, <3>1, HighestAtEnd, SMTT(30)
  <2> QED
    BY <1>4, <1>8, <1>9, <2>1, <2>3
<1>11. Values(word, Byte)[0] = 0 /\ Values(word, Byte)[l] \in Nat
  <2>1. \A k \in 0..Word : Values(word, Byte)[k] \in Nat
    BY <1>1, <1>3, ValuesAre
  <2>2. Values(word, Byte)[0] = 0
    BY <1>1, <1>3, ValuesAre
  <2> QED
    BY <1>5, <2>1, <2>2
<1>12. PICK u \in Nat : u = Values(word, Byte)[l] /\ v = u * q
  <2>1. Rest(word, l, Word, 0)
    BY <1>5 DEF FilledUp, Rest
  <2>2. Value(word, Byte) = Values(word, Byte)[l] * Power(Byte, Word - l)
    BY <1>2, <1>5, <2>1, ZerosAtEnd
  <2> QED
    BY <1>5, <1>6, <1>8, <1>11, <2>2
<1>13. u * q <= w /\ w < (u + 1) * q
  <2>1. c * p <= v /\ v < (c + 1) * p
    BY <1>9, DivMod
  <2>2. (c + 1) * p = c * p + p /\ (u + 1) * q = u * q + q /\ c * p \in Nat /\ u * q \in Nat
    OBVIOUS
  <2>3. PICK a \in Nat, b \in Nat : a = c * p /\ b = u * q
    BY <2>2
  <2>4. a <= b /\ b < a + p /\ w + 1 = a + p
    BY <1>10, <1>12, <2>1, <2>2, <2>3
  <2>5. b <= w /\ w < b + q
    BY <1>8, <2>4
  <2> QED
    BY <2>2, <2>3, <2>5
<1>14. w < Power(Byte, Word)
  <2>1. 0 \in 0..Word /\ l \in Nat /\ l \in 0..Word - 0 /\ 0 + l = l /\ l + f = Word
    BY <1>1, <1>5
  <2>2. PICK r \in Nat : r = Power(Byte, l) /\ Power(Byte, l + f) = r * q
    <3>1. Power(Byte, l) \in Nat
      BY <1>1, <2>1, PowerIs
    <3>2. Power(Byte, l + f) = Power(Byte, l) * Power(Byte, f)
      BY <1>1, <2>1, PowerOfSum, Zenon
    <3> QED
      BY <1>8, <3>1, <3>2
  <2>3. Values(word, Byte)[0 + l] + 1 <= (Values(word, Byte)[0] + 1) * Power(Byte, l)
    BY <1>2, <2>1, DigitsBound
  <2>4. u + 1 <= r
    BY <1>11, <1>12, <2>1, <2>2, <2>3
  <2>5. (u + 1) * q <= r * q /\ (u + 1) * q \in Nat /\ r * q \in Nat
    BY <2>4, Times
  <2>6. PICK a \in Nat, b \in Nat : a = (u + 1) * q /\ b = r * q
    BY <2>5
  <2> QED
    BY <1>13, <2>1, <2>2, <2>5, <2>6
<1>15. \A k \in 1..Word - f : Places(w, Byte, Word)[k] = word[k]
  <2>1. Near(w, word, Byte, Word, l)
    BY <1>5, <1>8, <1>10, <1>12, <1>13 DEF Near
  <2>2. l \in 0..Word
    BY <1>5
  <2>3. Same(Places(w, Byte, Word), word, l)
    BY <1>2, <2>1, <2>2, PlacesOf, Zenon
  <2> QED
    BY <1>5, <2>3 DEF Same
<1> QED
  BY <1>10, <1>14, <1>15

-----------------------------------------------------------------------------
(* The turns of the loop.                                                  *)

LEMMA Lowest ==
    ASSUME NEW S, S \subseteq Nat, S # {}
    PROVE  Min(S) \in S /\ \A y \in S : Min(S) <= y
<1> DEFINE R == OpToRel(<, Nat)
<1>1. IsWellFoundedOn(R, Nat)
  BY NatLessThanWellFounded, Zenon
<1>2. \A a, b \in Nat : a < b => <<a, b>> \in R
  BY Zenon DEF OpToRel
<1> HIDE DEF R
<1>3. PICK x \in S : \A y \in S : ~ (<<y, x>> \in R)
  BY <1>1, WFMin, Zenon
<1>4. ASSUME NEW y \in S PROVE x <= y
  <2>1. x \in Nat /\ y \in Nat /\ ~ (<<y, x>> \in R)
    BY <1>3
  <2>2. ~ (y < x)
    BY <1>2, <2>1, Zenon
  <2> QED
    BY <2>1, <2>2
<1> QED
  BY <1>4 DEF Min

LEMMA InPiece ==
    ASSUME NEW n \in Nat, NEW size \in Nat \ {0}, NEW k \in 1..n \div size, NEW j \in 1..size
    PROVE  /\ n \div size \in Nat /\ k \in Nat \ {0} /\ (k - 1) * size \in Nat
           /\ (k - 1) * size + j \in 1..n
<1>1. PICK q \in Nat : q = n \div size /\ q * size <= n
  BY DivMod
<1>2. k \in Nat \ {0} /\ k - 1 \in Nat /\ (k - 1) + 1 <= q
  BY <1>1
<1>3. PICK i \in Nat : i = k - 1 /\ i + 1 <= q
  BY <1>2
<1>4. (i + 1) * size <= q * size /\ (i + 1) * size = i * size + size
      /\ i * size \in Nat /\ q * size \in Nat
  BY <1>3, Times
<1> QED
  BY <1>1, <1>2, <1>3, <1>4

Text    == Seq(Digits \cup {Bad})
Results == [out : Seq(Bytes), error : [what : {"none", "bad", "overflow"}, at : Nat]]

LEMMA PieceOfText ==
    ASSUME NEW b \in Text, NEW k \in 1..Len(b) \div Group
    PROVE  /\ (k - 1) * Group \in Nat
           /\ Piece(b, k, Group) \in [1..Group -> Digits \cup {Bad}]
           /\ \A j \in 1..Group : Piece(b, k, Group)[j] = b[(k - 1) * Group + j]
<1>1. Group \in Nat \ {0} /\ Len(b) \in Nat /\ b \in [1..Len(b) -> Digits \cup {Bad}]
  BY Sizes DEF Text
<1>2. \A j \in 1..Group : (k - 1) * Group \in Nat /\ (k - 1) * Group + j \in 1..Len(b)
  BY <1>1, InPiece
<1>3. (k - 1) * Group \in Nat
  BY <1>1, <1>2
<1> QED
  BY <1>1, <1>2, <1>3 DEF Piece

LEMMA TurnInResults ==
    ASSUME NEW b \in Text, NEW k \in 1..Len(b) \div Group, NEW s \in Results
    PROVE  DecodeChunk(b, s, k) \in Results
<1> DEFINE chunk == Piece(b, k, Group)
           bad   == {j \in 1..Group : chunk[j] = Bad}
           v     == Value(chunk, Alpha)
<1>1. (k - 1) * Group \in Nat /\ chunk \in [1..Group -> Digits \cup {Bad}]
  BY PieceOfText
<1> HIDE DEF chunk
<1>2. CASE s.error # NoError
  BY <1>2 DEF DecodeChunk
<1>3. CASE s.error = NoError /\ bad # {}
  <2>1. Group \in Nat /\ bad \subseteq Nat /\ bad \subseteq 1..Group
    BY Sizes
  <2>2. Min(bad) \in 1..Group
    BY <1>3, <2>1, Lowest
  <2>3. (k - 1) * Group + Min(bad) - 1 \in Nat
    BY <1>1, <2>2, Sizes
  <2>4. DecodeChunk(b, s, k) =
          [s EXCEPT !.error = [what |-> "bad", at |-> (k - 1) * Group + Min(bad) - 1]]
    BY <1>3 DEF DecodeChunk, Position, chunk
  <2> QED
    BY <2>3, <2>4 DEF Results
<1>4. CASE s.error = NoError /\ bad = {} /\ v >= Power(Byte, Word)
  <2>1. DecodeChunk(b, s, k) =
          [s EXCEPT !.error = [what |-> "overflow", at |-> (k - 1) * Group]]
    BY <1>4 DEF DecodeChunk, chunk
  <2> QED
    BY <1>1, <2>1 DEF Results
<1>5. CASE s.error = NoError /\ bad = {} /\ ~ (v >= Power(Byte, Word))
  <2>1. DecodeChunk(b, s, k) = [s EXCEPT !.out = @ \o Places(v, Byte, Word)]
    BY <1>5 DEF DecodeChunk, chunk
  <2>2. Number(chunk, Alpha, Group)
    BY <1>1, <1>5, Sizes DEF Number, Digits
  <2>3. v \in Nat
    BY <2>2, ValueBound
  <2>4. Places(v, Byte, Word) \in Seq(Bytes)
    <3>1. Places(v, Byte, Word) \in [1..Word -> Bytes] /\ Word \in Nat
      <4>1. Places(v, Byte, Word) \in [1..Word -> 0..Byte - 1]
        BY <2>3, Sizes, PlacesAre, Zenon
      <4> QED
        BY <4>1, Sizes DEF Bytes
    <3> QED
      BY <3>1
  <2>5. s.out \in Seq(Bytes)
    BY DEF Results
  <2>6. s.out \o Places(v, Byte, Word) \in Seq(Bytes)
    BY <2>4, <2>5
  <2> QED
    BY <2>1, <2>6 DEF Results
<1> QED
  BY <1>2, <1>3, <1>4, <1>5

LEMMA TurnsAre ==
    ASSUME NEW b \in Text
    PROVE  /\ Turns(b)[0] = [out |-> <<>>, error |-> NoError]
           /\ \A k \in 1..Len(b) \div Group : Turns(b)[k] = DecodeChunk(b, Turns(b)[k - 1], k)
           /\ \A k \in 0..Len(b) \div Group : Turns(b)[k] \in Results
<1> DEFINE c == [out |-> <<>>, error |-> NoError]
           T(z, k) == DecodeChunk(b, z, k)
<1>1. PICK n \in Nat : n = Len(b) \div Group
  <2>1. Group \in Nat \ {0} /\ Len(b) \in Nat
    BY Sizes DEF Text
  <2> QED
    BY <2>1, DivMod
<1>2. c \in Results
  BY DEF Results, NoError
<1>3. \A k \in 1..n, z \in Results : T(z, k) \in Results
  BY <1>1, TurnInResults
<1> DEFINE F == [z \in Results \X Nat |-> IF z[2] \in 1..n THEN T(z[1], z[2]) ELSE z[1]]
           run == CHOOSE a : a = [k \in 0..n |-> IF k = 0 THEN c ELSE T(a[k - 1], k)]
<1>4. Turns(b) = run
  BY <1>1 DEF Turns
<1> HIDE DEF T, c
<1>5. PICK g : LoopOn(Results, c, F, g)
  <2>1. Loop(Results, c, F)
    BY <1>2, <1>3 DEF Loop
  <2> HIDE DEF F
  <2> QED
    BY <2>1, LoopRuns, Zenon
<1> DEFINE f == [k \in 0..n |-> g[k]]
<1>6. f = [k \in 0..n |-> IF k = 0 THEN c ELSE T(f[k - 1], k)]
  <2>1. \A k \in 0..n : k # 0 => f[k] = T(f[k - 1], k)
    <3> SUFFICES ASSUME NEW k \in 0..n, k # 0 PROVE f[k] = T(f[k - 1], k)
      OBVIOUS
    <3>1. k \in Nat /\ k \in 1..n /\ k - 1 \in 0..n /\ k - 1 \in Nat
      OBVIOUS
    <3>2. g \in [Nat -> Results]
      BY <1>5 DEF LoopOn
    <3>3. F[<<g[k - 1], k>>] = T(g[k - 1], k)
      BY <3>1, <3>2
    <3> HIDE DEF F
    <3>4. g[k] = F[<<g[k - 1], k>>]
      BY <1>5, <3>1 DEF LoopOn
    <3> QED
      BY <3>1, <3>3, <3>4
  <2>2. f[0] = c
    BY <1>5 DEF LoopOn
  <2>3. f = [k \in 0..n |-> f[k]]
    OBVIOUS
  <2> HIDE DEF f
  <2> QED
    BY <2>1, <2>2, <2>3
<1> HIDE DEF f
<1>7. run = [k \in 0..n |-> IF k = 0 THEN c ELSE T(run[k - 1], k)]
  BY <1>6
<1> HIDE DEF run
<1>8. run[0] = c /\ \A k \in 1..n : run[k] = T(run[k - 1], k)
  <2>1. 0 \in 0..n /\ \A k \in 1..n : k \in 0..n /\ k # 0
    OBVIOUS
  <2> QED
    BY <1>7, <2>1
<1> DEFINE S == {k \in Nat : k <= n => run[k] \in Results}
<1>9. Nat \subseteq S
  <2>1. 0 \in S
    BY <1>2, <1>8
  <2>2. ASSUME NEW k \in Nat, k \in S PROVE k + 1 \in S
    <3>1. CASE k + 1 <= n
      <4>1. k + 1 \in 1..n /\ (k + 1) - 1 = k /\ run[k] \in Results
        BY <2>2, <3>1
      <4> QED
        BY <1>3, <1>8, <4>1
    <3> QED
      BY <3>1
  <2> HIDE DEF S
  <2> QED
    BY <2>1, <2>2, AllNumbers
<1> QED
  BY <1>1, <1>4, <1>8, <1>9 DEF c, T

-----------------------------------------------------------------------------
(* The filling.                                                            *)

LEMMA Filled ==
    ASSUME NEW n \in Nat, NEW m \in Nat \ {0}
    PROVE  /\ (-n) % m \in 0..m - 1
           /\ \E q \in Nat : n + ((-n) % m) = q * m /\ (n + ((-n) % m)) \div m = q
<1>1. PICK r \in 0..m - 1 : r = (-n) % m
  OBVIOUS
<1>2. PICK e \in Int : e = (-n) \div m
  OBVIOUS
<1>3. -n = m * e + r
  <2>1. -n = m * ((-n) \div m) + ((-n) % m)
    OBVIOUS
  <2> QED
    BY <1>1, <1>2, <2>1
<1>4. PICK q \in Int : q = -e
  BY <1>2
<1>5. n + r = q * m
  <2>1. m * e = -(q * m)
    BY <1>4
  <2>2. PICK x \in Int : x = q * m
    OBVIOUS
  <2> QED
    BY <1>1, <1>3, <2>1, <2>2
<1>6. q \in Nat
  <2> SUFFICES ASSUME q < 0 PROVE FALSE
    BY <1>4
  <2>1. q * m < 0
    OBVIOUS
  <2> QED
    BY <1>1, <1>5, <2>1
<1>7. n + r \in Nat /\ q * m <= n + r /\ n + r < (q + 1) * m
  <2>1. (q + 1) * m = q * m + m
    BY <1>6
  <2>2. PICK x \in Nat : x = q * m
    BY <1>6
  <2> QED
    BY <1>5, <2>1, <2>2
<1>8. (n + r) \div m = q
  BY <1>6, <1>7, Quotient
<1> QED
  BY <1>1, <1>5, <1>6, <1>8

(* Where a place is.                                                       *)
LEMMA PlaceIs ==
    ASSUME NEW m \in Nat \ {0}, NEW k \in Nat, NEW j \in 0..m - 1
    PROVE  /\ k * m + j \in Nat /\ (k * m + j) \div m = k /\ (k * m + j) % m = j
<1>1. PICK x \in Nat : x = k * m /\ (k + 1) * m = x + m
  OBVIOUS
<1>2. x + j \in Nat
  OBVIOUS
<1>3. (x + j) \div m = k
  BY <1>1, <1>2, Quotient
<1>4. x + j = m * ((x + j) \div m) + ((x + j) % m) /\ (x + j) % m \in 0..m - 1
  BY <1>2, DivMod
<1>5. m * k = x
  BY <1>1
<1> QED
  BY <1>1, <1>2, <1>3, <1>4, <1>5

LEMMA FillIs ==
    ASSUME NEW m \in Nat \ {0}, NEW q \in Nat, NEW f \in 0..m - 1, NEW n \in Nat, n + f = q * m
    PROVE  (-n) % m = f
<1>1. PICK r \in 0..m - 1 : r = (-n) % m
  BY Filled
<1>2. PICK p \in Nat : n + r = p * m
  BY <1>1, Filled
<1>3. n + r \in Nat /\ n + f \in Nat
  OBVIOUS
<1>4. CASE f <= r
  <2>1. r - f \in 0..m - 1 /\ q * m + (r - f) = p * m + 0 /\ 0 \in 0..m - 1
    BY <1>2, <1>3, <1>4
  <2>2. (q * m + (r - f)) % m = r - f /\ (p * m + 0) % m = 0
    BY <2>1, PlaceIs
  <2> QED
    BY <1>1, <1>4, <2>1, <2>2
<1>5. CASE r < f
  <2>1. f - r \in 0..m - 1 /\ p * m + (f - r) = q * m + 0 /\ 0 \in 0..m - 1
    BY <1>2, <1>3, <1>5
  <2>2. (p * m + (f - r)) % m = f - r /\ (q * m + 0) % m = 0
    BY <2>1, PlaceIs
  <2> QED
    BY <1>1, <1>5, <2>1, <2>2
<1> QED
  BY <1>4, <1>5

(* The text and what it is filled up with.                                 *)
LEMMA PaddedIs ==
    ASSUME NEW text \in Text
    PROVE  /\ Padding(text) \in 0..Group - 1
           /\ Padded(text) \in Text
           /\ Len(Padded(text)) = Len(text) + Padding(text)
           /\ Len(Padded(text)) \div Group \in Nat
           /\ Len(Padded(text)) = (Len(Padded(text)) \div Group) * Group
           /\ \A j \in 1..Len(text) : Padded(text)[j] = text[j]
           /\ \A j \in Len(text) + 1..Len(text) + Padding(text) : Padded(text)[j] = Alpha - 1
<1>1. PICK n \in Nat : n = Len(text)
  BY DEF Text
<1>2. PICK p \in 0..Group - 1 : p = Padding(text)
  <2>1. (-n) % Group \in 0..Group - 1
    BY Filled, Sizes
  <2> QED
    BY <1>1, <2>1 DEF Padding
<1>3. PICK q \in Nat : n + p = q * Group /\ (n + p) \div Group = q
  BY <1>1, <1>2, Filled, Sizes DEF Padding
<1> DEFINE e == [k \in 1..p |-> Alpha - 1]
<1>4. p \in Nat /\ Alpha - 1 \in Digits \cup {Bad} /\ e \in [1..p -> Digits \cup {Bad}]
  BY Sizes
<1>5. e \in Text /\ Len(e) = p /\ \A k \in 1..p : e[k] = Alpha - 1
  BY <1>4 DEF Text
<1> HIDE DEF e
<1>6. Padded(text) = text \o e
  BY <1>2 DEF Padded, e
<1>7. /\ text \o e \in Text /\ Len(text \o e) = n + p
      /\ \A j \in 1..n + p : (text \o e)[j] = IF j <= n THEN text[j] ELSE e[j - n]
  BY <1>1, <1>5 DEF Text
<1>8. \A j \in 1..n : j \in 1..n + p /\ j <= n
  BY <1>4
<1>9. \A j \in n + 1..n + p : j \in 1..n + p /\ ~ (j <= n) /\ j - n \in 1..p
  BY <1>4
<1> QED
  BY <1>1, <1>2, <1>3, <1>5, <1>6, <1>7, <1>8, <1>9

-----------------------------------------------------------------------------
(* The first error.                                                        *)

(* Chunk i of b has a character that is not in the alphabet; is a word.    *)
Strange(b, i) == \E j \in 1..Group : Piece(b, i, Group)[j] = Bad
Fine(b, i) ==
    ~ Strange(b, i) /\ Value(Piece(b, i, Group), Alpha) < Power(Byte, Word)

(* Error is what chunk i of b is reported with.                            *)
Reported(b, i, error) ==
    \/ /\ Strange(b, i) /\ error.what = "bad"
       /\ \E j \in 1..Group :
             /\ Piece(b, i, Group)[j] = Bad /\ error.at = (i - 1) * Group + j - 1
             /\ \A l \in 1..j - 1 : Piece(b, i, Group)[l] # Bad
    \/ /\ ~ Strange(b, i) /\ ~ Fine(b, i)
       /\ error = [what |-> "overflow", at |-> (i - 1) * Group]

FirstOf(b, error, k) ==
    \/ error = NoError /\ \A i \in 1..k : Fine(b, i)
    \/ /\ error # NoError
       /\ \E i \in 1..k : Reported(b, i, error) /\ \A h \in 1..i - 1 : Fine(b, h)

LEMMA TurnReports ==
    ASSUME NEW b \in Text, NEW k \in 1..Len(b) \div Group, NEW s \in Results, s.error = NoError
    PROVE  \/ /\ DecodeChunk(b, s, k).error = NoError /\ Fine(b, k)
           \/ /\ DecodeChunk(b, s, k).error # NoError
              /\ Reported(b, k, DecodeChunk(b, s, k).error)
<1> DEFINE chunk == Piece(b, k, Group)
           bad   == {j \in 1..Group : chunk[j] = Bad}
           v     == Value(chunk, Alpha)
<1>1. (k - 1) * Group \in Nat /\ chunk \in [1..Group -> Digits \cup {Bad}]
  BY PieceOfText
<1>2. Strange(b, k) <=> bad # {}
  BY DEF Strange
<1>3. (v \in Int /\ Power(Byte, Word) \in Nat) \/ bad # {}
  <2> SUFFICES ASSUME bad = {} PROVE v \in Int /\ Power(Byte, Word) \in Nat
    OBVIOUS
  <2>1. Number(chunk, Alpha, Group)
    <3>1. chunk \in [1..Group -> Digits]
      BY <1>1
    <3> HIDE DEF chunk
    <3> QED
      BY <3>1, Sizes DEF Number, Digits
  <2>2. v \in Nat
    BY <2>1, ValueBound, Zenon
  <2> QED
    BY <2>2, Sizes, PowerIs
<1> HIDE DEF chunk
<1>4. CASE bad # {}
  <2>1. Group \in Nat /\ bad \subseteq Nat
    BY Sizes
  <2>2. Min(bad) \in bad /\ \A y \in bad : Min(bad) <= y
    BY <1>4, <2>1, Lowest
  <2>3. PICK m \in 1..Group : m = Min(bad) /\ chunk[m] = Bad
    BY <2>2
  <2>4. \A l \in 1..m - 1 : chunk[l] # Bad
    BY <2>1, <2>2, <2>3
  <2>5. DecodeChunk(b, s, k) =
          [s EXCEPT !.error = [what |-> "bad", at |-> (k - 1) * Group + m - 1]]
    BY <1>4, <2>3 DEF DecodeChunk, Position, chunk
  <2>6. DecodeChunk(b, s, k).error = [what |-> "bad", at |-> (k - 1) * Group + m - 1]
    BY <2>5 DEF Results
  <2>7. DecodeChunk(b, s, k).error # NoError
    BY <2>6 DEF NoError
  <2>8. PICK e : e = DecodeChunk(b, s, k).error
    OBVIOUS
  <2>9. e.what = "bad" /\ e.at = (k - 1) * Group + m - 1
    BY <2>6, <2>8
  <2>10. Reported(b, k, e)
    <3>1. Piece(b, k, Group)[m] = Bad /\ \A l \in 1..m - 1 : Piece(b, k, Group)[l] # Bad
      BY <2>3, <2>4 DEF chunk
    <3> QED
      BY <1>2, <1>4, <2>3, <2>9, <3>1, Zenon DEF Reported
  <2> QED
    BY <2>7, <2>8, <2>10
<1>5. CASE bad = {} /\ v >= Power(Byte, Word)
  <2>1. DecodeChunk(b, s, k) =
          [s EXCEPT !.error = [what |-> "overflow", at |-> (k - 1) * Group]]
    BY <1>5 DEF DecodeChunk, chunk
  <2>2. DecodeChunk(b, s, k).error = [what |-> "overflow", at |-> (k - 1) * Group]
    BY <2>1 DEF Results
  <2>3. DecodeChunk(b, s, k).error # NoError
    BY <2>2 DEF NoError
  <2>4. ~ Fine(b, k)
    BY <1>3, <1>5 DEF Fine, chunk
  <2> QED
    BY <1>2, <1>5, <2>2, <2>3, <2>4 DEF Reported
<1>6. CASE bad = {} /\ ~ (v >= Power(Byte, Word))
  <2>1. DecodeChunk(b, s, k) = [s EXCEPT !.out = @ \o Places(v, Byte, Word)]
    BY <1>6 DEF DecodeChunk, chunk
  <2>2. DecodeChunk(b, s, k).error = NoError
    BY <2>1 DEF Results
  <2>3. Fine(b, k)
    BY <1>2, <1>3, <1>6 DEF Fine, chunk
  <2> QED
    BY <2>2, <2>3
<1> QED
  BY <1>4, <1>5, <1>6

LEMMA TurnsReport ==
    ASSUME NEW b \in Text
    PROVE  /\ Len(b) \div Group \in Nat
           /\ \A k \in 0..Len(b) \div Group : FirstOf(b, Turns(b)[k].error, k)
<1>1. PICK n \in Nat : n = Len(b) \div Group
  <2>1. Group \in Nat \ {0} /\ Len(b) \in Nat
    BY Sizes DEF Text
  <2> QED
    BY <2>1, DivMod
<1> DEFINE T == {k \in Nat : k <= n => FirstOf(b, Turns(b)[k].error, k)}
<1>2. 0 \in T
  BY TurnsAre DEF FirstOf
<1>3. ASSUME NEW k \in Nat, k \in T PROVE k + 1 \in T
  <2> SUFFICES ASSUME k + 1 <= n PROVE FirstOf(b, Turns(b)[k + 1].error, k + 1)
    OBVIOUS
  <2>1. k + 1 \in 1..n /\ (k + 1) - 1 = k /\ k \in 0..n
    OBVIOUS
  <2>2. PICK s \in Results : s = Turns(b)[k]
    BY <1>1, <2>1, TurnsAre
  <2>3. Turns(b)[k + 1] = DecodeChunk(b, s, k + 1)
    BY <1>1, <2>1, <2>2, TurnsAre
  <2>4. FirstOf(b, s.error, k)
    BY <1>3, <2>1, <2>2
  <2>5. CASE s.error # NoError
    <3>1. DecodeChunk(b, s, k + 1) = s
      BY <2>5 DEF DecodeChunk
    <3>2. \A i \in 1..k : i \in 1..k + 1
      OBVIOUS
    <3> QED
      BY <2>3, <2>4, <2>5, <3>1, <3>2 DEF FirstOf
  <2>6. CASE s.error = NoError
    <3>1. PICK e : e = DecodeChunk(b, s, k + 1).error
      OBVIOUS
    <3>2. \/ e = NoError /\ Fine(b, k + 1)
          \/ e # NoError /\ Reported(b, k + 1, e)
      BY <1>1, <2>1, <2>6, <3>1, TurnReports
    <3>3. \A i \in 1..k : Fine(b, i)
      BY <2>4, <2>6 DEF FirstOf
    <3>4. FirstOf(b, e, k + 1)
      <4>1. \A i \in 1..k + 1 : i \in 1..k \/ i = k + 1
        OBVIOUS
      <4>2. k + 1 \in 1..k + 1 /\ (k + 1) - 1 = k
        OBVIOUS
      <4> QED
        BY <3>2, <3>3, <4>1, <4>2 DEF FirstOf
    <3> QED
      BY <2>3, <3>1, <3>4
  <2> QED
    BY <2>5, <2>6
<1> HIDE DEF T
<1>4. Nat \subseteq T
  BY <1>2, <1>3, AllNumbers
<1> QED
  BY <1>1, <1>4 DEF T

(* The groups of a text and the chunks of what it is filled up to.         *)
LEMMA GroupIsChunk ==
    ASSUME NEW text \in Text, NEW i \in 1..Len(Padded(text)) \div Group
    PROVE  /\ (i - 1) * Group \in 0..Len(text) - 1 /\ ((i - 1) * Group) % Group = 0
           /\ \A j \in 1..Group :
                 Piece(Padded(text), i, Group)[j] = GroupAt(text, (i - 1) * Group)[j]
           /\ BadIn(text, (i - 1) * Group) <=> Strange(Padded(text), i)
           /\ Sound(text, (i - 1) * Group) <=> Fine(Padded(text), i)
<1> DEFINE b == Padded(text)
<1>1. PICK n \in Nat, p \in 0..Group - 1, q \in Nat :
        /\ n = Len(text) /\ p = Padding(text) /\ q = Len(b) \div Group /\ n + p = q * Group
        /\ Len(b) = n + p
  BY PaddedIs DEF Text
<1>2. /\ b \in Text /\ \A j \in 1..n : b[j] = text[j]
      /\ \A j \in n + 1..n + p : b[j] = Alpha - 1
  BY <1>1, PaddedIs
<1> HIDE DEF b
<1>3. PICK s \in Nat : s = (i - 1) * Group /\ s % Group = 0 /\ s + Group <= n + p
  <2>1. PICK k \in Nat : k = i - 1 /\ k + 1 <= q
    BY <1>1 DEF b
  <2>2. 0 \in 0..Group - 1 /\ Group \in Nat \ {0}
    BY Sizes
  <2>3. (k * Group + 0) % Group = 0
    BY <2>2, PlaceIs
  <2>4. PICK x \in Nat : x = k * Group /\ (k + 1) * Group = x + Group
    BY <2>2
  <2>5. (k + 1) * Group <= q * Group
    BY <2>1, <2>2, Times
  <2> QED
    BY <1>1, <2>1, <2>3, <2>4, <2>5
<1>4. s \in 0..n - 1
  <2>1. PICK g \in Nat : g = Group /\ p \in 0..g - 1
    BY <1>1, Sizes
  <2> QED
    BY <1>1, <1>3, <2>1
<1>5. /\ Piece(b, i, Group) \in [1..Group -> Digits \cup {Bad}]
      /\ \A j \in 1..Group : Piece(b, i, Group)[j] = b[s + j]
  BY <1>1, <1>2, <1>3, PieceOfText DEF b
<1>6. ASSUME NEW j \in 1..Group
      PROVE  Piece(b, i, Group)[j] = IF s + j <= n THEN text[s + j] ELSE Alpha - 1
  <2>1. s + j \in 1..n + p /\ p \in Nat
    <3>1. PICK g \in Nat : g = Group /\ p \in 0..g - 1 /\ j \in 1..g
      BY <1>1, Sizes
    <3>2. n \in Nat /\ p \in Nat
      BY <1>1, <3>1
    <3>3. s \in Nat /\ s + g <= n + p
      BY <1>3, <3>1
    <3> QED
      BY <3>1, <3>2, <3>3
  <2>2. s + j <= n => s + j \in 1..n
    BY <2>1
  <2>3. ~ (s + j <= n) => s + j \in n + 1..n + p
    BY <1>1, <2>1
  <2> QED
    BY <1>2, <1>5, <2>2, <2>3
<1>7. GroupAt(text, s) = Piece(b, i, Group)
  <2>1. GroupAt(text, s) = [j \in 1..Group |-> IF s + j <= n THEN text[s + j] ELSE Alpha - 1]
    BY <1>1 DEF GroupAt
  <2>2. Piece(b, i, Group) = [j \in 1..Group |-> Piece(b, i, Group)[j]]
    BY <1>5
  <2> QED
    BY <1>6, <2>1, <2>2
<1>8. BadIn(text, s) <=> Strange(b, i)
  <2>1. ASSUME BadIn(text, s) PROVE Strange(b, i)
    <3>1. PICK k \in s + 1..s + Group : k <= n /\ text[k] = Bad
      BY <1>1, <2>1 DEF BadIn
    <3>2. PICK j \in 1..Group : j = k - s /\ s + j = k
      BY <1>3, Sizes
    <3> QED
      BY <1>6, <3>1, <3>2 DEF Strange
  <2>2. ASSUME Strange(b, i) PROVE BadIn(text, s)
    <3>1. PICK j \in 1..Group : Piece(b, i, Group)[j] = Bad
      BY <2>2 DEF Strange
    <3>2. s + j <= n /\ text[s + j] = Bad
      BY <1>6, <3>1, Sizes
    <3>3. s + j \in s + 1..s + Group
      BY <1>3, Sizes
    <3> QED
      BY <1>1, <3>2, <3>3 DEF BadIn
  <2> QED
    BY <2>1, <2>2
<1>9. Sound(text, s) <=> Fine(b, i)
  BY <1>7, <1>8, Zenon DEF Sound, Fine
<1>10. \A j \in 1..Group : Piece(b, i, Group)[j] = GroupAt(text, s)[j]
  BY <1>7
<1>11. (i - 1) * Group = s
  BY <1>3
<1>12. s \in 0..Len(text) - 1 /\ s % Group = 0
  BY <1>1, <1>3, <1>4
<1> QED
  BY <1>8, <1>9, <1>10, <1>11, <1>12 DEF b

LEMMA StartOfChunk ==
    ASSUME NEW text \in Text, NEW t \in 0..Len(text) - 1, t % Group = 0
    PROVE  \E i \in 1..Len(Padded(text)) \div Group : t = (i - 1) * Group
<1>1. PICK n \in Nat, p \in 0..Group - 1, q \in Nat :
        n = Len(text) /\ q = Len(Padded(text)) \div Group /\ n + p = q * Group
  <2>1. Padding(text) \in 0..Group - 1 /\ Len(text) \in Nat
    BY PaddedIs DEF Text
  <2> QED
    BY <2>1, PaddedIs
<1>2. t \in Nat /\ t < n /\ Group \in Nat \ {0}
  BY <1>1, Sizes
<1>3. PICK k \in Nat : t = Group * k
  <2>1. t = Group * (t \div Group) + (t % Group) /\ t \div Group \in Nat
    BY <1>2, DivMod
  <2>2. PICK k \in Nat : k = t \div Group
    BY <2>1
  <2>3. PICK x \in Nat : x = Group * k
    BY <1>2
  <2> QED
    BY <2>1, <2>2, <2>3
<1>4. k * Group < q * Group /\ Group * k = k * Group
  <2>1. Group * k = k * Group
    BY <1>2, Times
  <2> QED
    BY <1>1, <1>2, <1>3, <2>1
<1>5. k < q
  BY <1>2, <1>4, Times
<1>6. k + 1 \in 1..q /\ (k + 1) - 1 = k
  BY <1>5
<1> QED
  BY <1>1, <1>3, <1>4, <1>6

(* The error is the first one, at its place in the text, whatever is       *)
(* decoded, texts of every length included (get-pip.py, lines 58-72).      *)
THEOREM NamesTheFirst == FirstError
<1> DEFINE Starts(text) == {s \in 0..Len(text) - 1 : s % Group = 0}
           First(text, error) ==
             IF error = NoError THEN \A s \in Starts(text) : Sound(text, s)
             ELSE \E s \in Starts(text) :
                    /\ \A t \in Starts(text) : t < s => Sound(text, t)
                    /\ \/ /\ error.what = "bad" /\ s <= error.at /\ error.at < s + Group
                          /\ text[error.at + 1] = Bad
                          /\ \A k \in 1..error.at : text[k] # Bad
                       \/ /\ error = [what |-> "overflow", at |-> s]
                          /\ ~BadIn(text, s) /\ ~Sound(text, s)
<1>1. SUFFICES ASSUME NEW text \in Text PROVE First(text, b85decode(text).error)
  BY InputsAssumption DEF InputsAssumption, FirstError, Text
<1> DEFINE b == Padded(text)
           q == Len(b) \div Group
           error == Turns(b)[q].error
<1>2. b \in Text /\ q \in Nat
  BY PaddedIs
<1>3. b85decode(text).error = error
  <2>1. Turns(b)[q] \in Results
    BY <1>2, TurnsAre
  <2>2. b85decode(text) =
          [Turns(b)[q] EXCEPT !.out = SubSeq(@, 1, Len(@) - Padding(text))]
    BY DEF b85decode
  <2> HIDE DEF b, q
  <2> QED
    BY <2>1, <2>2 DEF Results
<1>4. FirstOf(b, error, q)
  <2>1. q \in 0..q
    BY <1>2
  <2> QED
    BY <1>2, <2>1, TurnsReport
<1>5. \A t \in Starts(text) : \E i \in 1..q : t = (i - 1) * Group
  BY StartOfChunk
<1>6. \A i \in 1..q :
        /\ (i - 1) * Group \in Starts(text)
        /\ BadIn(text, (i - 1) * Group) <=> Strange(b, i)
        /\ Sound(text, (i - 1) * Group) <=> Fine(b, i)
  BY GroupIsChunk
<1> HIDE DEF b, q, error
<1>7. CASE error = NoError
  BY <1>3, <1>4, <1>5, <1>6, <1>7, Zenon DEF FirstOf
<1>8. CASE error # NoError
  <2>1. PICK i \in 1..q : Reported(b, i, error) /\ \A h \in 1..i - 1 : Fine(b, h)
    BY <1>4, <1>8 DEF FirstOf
  <2>2. PICK s \in Starts(text) : s = (i - 1) * Group
    BY <1>6
  <2>3. ASSUME NEW t \in Starts(text), t < s PROVE Sound(text, t)
    <3>1. PICK h \in 1..q : t = (h - 1) * Group
      BY <1>5
    <3>2. h - 1 \in Nat /\ i - 1 \in Nat /\ Group \in Nat
      BY <1>2, Sizes
    <3>3. h - 1 < i - 1
      BY <2>2, <2>3, <3>1, <3>2, Times
    <3>4. h \in 1..i - 1
      BY <1>2, <3>3
    <3> QED
      BY <1>6, <2>1, <3>1, <3>4
  <2>4. CASE /\ Strange(b, i) /\ error.what = "bad"
             /\ \E j \in 1..Group :
                   /\ Piece(b, i, Group)[j] = Bad /\ error.at = (i - 1) * Group + j - 1
                   /\ \A l \in 1..j - 1 : Piece(b, i, Group)[l] # Bad
    <3>1. PICK j \in 1..Group :
            /\ Piece(b, i, Group)[j] = Bad /\ error.at = (i - 1) * Group + j - 1
            /\ \A l \in 1..j - 1 : Piece(b, i, Group)[l] # Bad
      BY <2>4
    <3>2. PICK g \in Nat \ {0} : g = Group /\ j \in 1..g
      BY Sizes
    <3>3. s \in Nat /\ Len(text) \in Nat /\ s < Len(text)
      BY DEF Text
    <3>4. error.at = s + j - 1 /\ error.at + 1 = s + j
      BY <2>2, <3>1, <3>2, <3>3
    <3>5. \A l \in 1..g : Piece(b, i, Group)[l] = GroupAt(text, s)[l]
      BY <2>2, <3>2, GroupIsChunk DEF b, q
    <3>6. \A l \in 1..g :
            GroupAt(text, s)[l] = IF s + l <= Len(text) THEN text[s + l] ELSE Alpha - 1
      BY <3>2 DEF GroupAt
    <3>7. Alpha - 1 # Bad
      BY Sizes
    <3>8. text[error.at + 1] = Bad
      BY <3>1, <3>2, <3>4, <3>5, <3>6, <3>7
    <3>9. ASSUME NEW k \in 1..error.at PROVE text[k] # Bad
      <4>1. s + j <= Len(text) /\ k \in Nat \ {0} /\ k <= s + j - 1 /\ k <= Len(text)
        <5>1. s + j <= Len(text)
          BY <3>1, <3>2, <3>5, <3>6, <3>7
        <5> QED
          BY <3>2, <3>3, <3>4, <5>1
      <4>2. CASE k > s
        <5>1. k - s \in 1..j - 1 /\ k - s \in 1..g /\ s + (k - s) = k
          BY <3>2, <3>3, <4>1, <4>2
        <5>2. Piece(b, i, Group)[k - s] # Bad
          BY <3>1, <5>1
        <5> QED
          BY <3>5, <3>6, <4>1, <5>1, <5>2
      <4>3. CASE k <= s
        <5>1. PICK r \in Nat : r = k - 1 /\ r < s /\ r < Len(text)
          BY <3>3, <4>1, <4>3
        <5>2. PICK d \in Nat, m \in 0..g - 1 : r = g * d + m /\ d * g = g * d
          <6>1. r \div g \in Nat /\ r % g \in 0..g - 1 /\ r = g * (r \div g) + (r % g)
            BY <3>2, DivMod
          <6>2. (r \div g) * g = g * (r \div g)
            BY <3>2, <6>1, Times
          <6> QED
            BY <6>1, <6>2
        <5>3. PICK t \in Nat : t = d * g /\ r = t + m /\ t % g = 0
          <6>1. (d * g + 0) % g = 0
            <7>1. 0 \in 0..g - 1
              BY <3>2
            <7> QED
              BY <3>2, <7>1, PlaceIs
          <6>2. PICK t \in Nat : t = d * g
            OBVIOUS
          <6> QED
            BY <5>2, <6>1, <6>2
        <5>4. t \in Starts(text) /\ t < s
          BY <3>2, <3>3, <5>1, <5>3
        <5>5. ~ BadIn(text, t)
          BY <2>3, <5>4 DEF Sound
        <5>6. k \in t + 1..t + g /\ k <= Len(text)
          BY <3>2, <4>1, <5>1, <5>3
        <5> QED
          BY <3>2, <5>5, <5>6 DEF BadIn
      <4> QED
        BY <3>3, <4>1, <4>2, <4>3
    <3>10. s <= error.at /\ error.at < s + Group
      BY <3>2, <3>3, <3>4
    <3> QED
      BY <1>3, <1>8, <2>3, <2>4, <3>8, <3>9, <3>10
  <2>5. CASE /\ ~ Strange(b, i) /\ ~ Fine(b, i)
             /\ error = [what |-> "overflow", at |-> (i - 1) * Group]
    BY <1>3, <1>6, <1>8, <2>2, <2>3, <2>5
  <2> QED
    BY <2>1, <2>4, <2>5 DEF Reported
<1> QED
  BY <1>7, <1>8

-----------------------------------------------------------------------------
(* What was encoded.                                                       *)

(* w words hold the n bytes and f zeros.                                   *)
Words(bytes, n, w, f) ==
    /\ n \in Nat /\ w \in Nat /\ f \in 0..Word - 1
    /\ n = Len(bytes) /\ f = Fill(bytes) /\ n + f = w * Word

LEMMA WordsOf ==
    ASSUME NEW bytes \in Seq(Bytes)
    PROVE  \E n, w, f : Words(bytes, n, w, f)
<1>1. PICK n \in Nat : n = Len(bytes)
  OBVIOUS
<1>2. Word \in Nat \ {0}
  BY Sizes
<1>3. PICK f \in 0..Word - 1 : f = (-n) % Word
  BY <1>2, Filled
<1>4. PICK w \in Nat : n + f = w * Word
  BY <1>2, <1>3, Filled
<1> QED
  BY <1>1, <1>3, <1>4 DEF Words, Fill

LEMMA FullIs ==
    ASSUME NEW bytes \in Seq(Bytes), NEW n, NEW w, NEW f, Words(bytes, n, w, f)
    PROVE  /\ Full(bytes) \in Seq(Bytes) /\ Len(Full(bytes)) = n + f
           /\ Len(Full(bytes)) \div Word = w
           /\ \A j \in 1..n : Full(bytes)[j] = bytes[j]
           /\ \A j \in n + 1..n + f : Full(bytes)[j] = 0
<1>1. /\ n \in Nat /\ w \in Nat /\ f \in Nat
      /\ n = Len(bytes) /\ f = Fill(bytes) /\ n + f = w * Word
  BY Sizes DEF Words
<1>2. Word \in Nat \ {0} /\ 0 \in Bytes
  BY Sizes
<1> DEFINE e == [k \in 1..f |-> 0]
<1>3. e \in Seq(Bytes) /\ Len(e) = f /\ \A k \in 1..f : e[k] = 0
  <2>1. e \in [1..f -> Bytes]
    BY <1>2
  <2> QED
    BY <1>1, <2>1
<1> HIDE DEF e
<1>4. Full(bytes) = bytes \o e
  BY <1>1 DEF Full, e
<1>5. /\ bytes \o e \in Seq(Bytes) /\ Len(bytes \o e) = n + f
      /\ \A j \in 1..n + f : (bytes \o e)[j] = IF j <= n THEN bytes[j] ELSE e[j - n]
  BY <1>1, <1>3
<1>6. (w * Word + 0) \div Word = w
  <2>1. 0 \in 0..Word - 1
    BY <1>2
  <2> QED
    BY <1>1, <1>2, <2>1, PlaceIs
<1>7. (n + f) \div Word = w
  <2>1. w * Word + 0 = n + f
    BY <1>1
  <2> QED
    BY <1>6, <2>1
<1>8. \A j \in 1..n : j \in 1..n + f /\ j <= n
  BY <1>1
<1>9. \A j \in n + 1..n + f : j \in 1..n + f /\ ~ (j <= n) /\ j - n \in 1..f
  BY <1>1
<1> QED
  BY <1>3, <1>4, <1>5, <1>7, <1>8, <1>9

(* Word k of what is filled up, and how many of its bytes are filling.     *)
WordAt(bytes, k) == Piece(Full(bytes), k, Word)
FillOf(w, f, k)  == IF k = w THEN f ELSE 0

LEMMA WordIs ==
    ASSUME NEW bytes \in Seq(Bytes), NEW n, NEW w, NEW f, Words(bytes, n, w, f),
           NEW k \in 1..w
    PROVE  /\ WordAt(bytes, k) \in [1..Word -> Bytes]
           /\ FillOf(w, f, k) \in 0..Word - 1
           /\ \A j \in Word - FillOf(w, f, k) + 1..Word : WordAt(bytes, k)[j] = 0
           /\ \A j \in 1..Word : (k - 1) * Word + j <= n =>
                /\ j <= Word - FillOf(w, f, k)
                /\ WordAt(bytes, k)[j] = bytes[(k - 1) * Word + j]
<1>1. n \in Nat /\ w \in Nat /\ n + f = w * Word
  BY DEF Words
<1>2. PICK z \in Nat \ {0} : z = Word /\ f \in 0..z - 1 /\ 0 \in 0..z - 1
  BY Sizes DEF Words
<1>3. FillOf(w, f, k) \in 0..z - 1
  BY <1>2 DEF FillOf
<1>4. PICK s \in Nat : s = (k - 1) * Word /\ s + z <= n + f /\ (k = w => s + z = n + f)
  <2>1. PICK i \in Nat : i = k - 1 /\ i + 1 <= w /\ i + 1 = k
    BY <1>1
  <2>2. PICK x \in Nat : x = i * Word /\ (i + 1) * Word = x + z
    BY <1>2
  <2>3. (i + 1) * Word <= w * Word
    BY <1>1, <1>2, <2>1, Times
  <2>4. PICK y \in Nat : y = w * Word /\ n + f = y
    BY <1>1, <1>2
  <2> QED
    BY <2>1, <2>2, <2>3, <2>4
<1>5. /\ Full(bytes) \in Seq(Bytes) /\ Len(Full(bytes)) = n + f
      /\ \A j \in 1..n : Full(bytes)[j] = bytes[j]
      /\ \A j \in n + 1..n + f : Full(bytes)[j] = 0
  BY FullIs
<1>6. \A j \in 1..z : WordAt(bytes, k)[j] = Full(bytes)[s + j]
  BY <1>2, <1>4 DEF WordAt, Piece
<1>7. \A j \in 1..z : s + j \in 1..n + f
  BY <1>1, <1>2, <1>4
<1>8. WordAt(bytes, k) \in [1..Word -> Bytes]
  <2>1. \A j \in 1..z : Full(bytes)[s + j] \in Bytes
    BY <1>5, <1>7
  <2>2. WordAt(bytes, k) = [j \in 1..z |-> Full(bytes)[s + j]]
    BY <1>2, <1>4 DEF WordAt, Piece
  <2> QED
    BY <1>2, <2>1, <2>2
<1>9. ASSUME NEW j \in Word - FillOf(w, f, k) + 1..Word PROVE WordAt(bytes, k)[j] = 0
  <2>1. CASE k = w
    <3>1. s + j \in n + 1..n + f /\ j \in 1..z
      BY <1>1, <1>2, <1>4, <2>1 DEF FillOf
    <3> QED
      BY <1>5, <1>6, <3>1
  <2>2. CASE k # w
    BY <1>2, <2>2 DEF FillOf
  <2> QED
    BY <2>1, <2>2
<1>10. ASSUME NEW j \in 1..Word, s + j <= n
       PROVE  j <= Word - FillOf(w, f, k) /\ WordAt(bytes, k)[j] = bytes[s + j]
  <2>1. j \in 1..z /\ s + j \in 1..n
    BY <1>2, <1>4, <1>10
  <2>2. k = w => j <= z - f
    BY <1>1, <1>2, <1>4, <1>10
  <2> QED
    BY <1>2, <1>5, <1>6, <2>1, <2>2 DEF FillOf
<1> QED
  BY <1>2, <1>3, <1>4, <1>8, <1>9, <1>10

(* The text of the encoding.                                               *)
LEMMA EncodeIs ==
    ASSUME NEW bytes \in Seq(Bytes), NEW n, NEW w, NEW f, Words(bytes, n, w, f)
    PROVE  /\ Encode(bytes) \in Text
           /\ Len(Encode(bytes)) + f = w * Group
           /\ \A k \in 1..w, j \in 1..Group :
                (k - 1) * Group + j <= Len(Encode(bytes)) =>
                   Encode(bytes)[(k - 1) * Group + j] = EncodeWord(WordAt(bytes, k))[j]
<1>1. n \in Nat /\ w \in Nat /\ n + f = w * Word /\ f = Fill(bytes)
  BY DEF Words
<1>2. PICK g \in Nat \ {0} : g = Group /\ f \in 0..g - 1
  BY Sizes DEF Words
<1>3. PICK l \in Nat : l = w * Group - f /\ l + f = w * Group
  <2>1. CASE w = 0
    <3>1. w * Word = 0 /\ w * Group = 0
      BY <2>1, Sizes
    <3>2. n + f = 0
      BY <1>1, <3>1
    <3>3. f = 0
      BY <1>1, <1>2, <3>2
    <3> QED
      BY <3>1, <3>3
  <2>2. CASE w # 0
    <3>1. 1 <= w /\ 1 * g <= w * g
      BY <1>1, <1>2, <2>2, Times
    <3>2. PICK x \in Nat : x = w * Group /\ g <= x
      BY <1>1, <1>2, <3>1
    <3> QED
      BY <1>2, <3>2
  <2> QED
    BY <2>1, <2>2
<1> DEFINE char(j) == EncodeWord(WordAt(bytes, ((j - 1) \div Group) + 1))[((j - 1) % Group) + 1]
<1>4. Encode(bytes) = [j \in 1..l |-> char(j)]
  <2>1. (Len(Full(bytes)) \div Word) * Group - Fill(bytes) = l
    BY <1>1, <1>3, FullIs
  <2> QED
    BY <2>1, Zenon DEF Encode, WordAt
<1>5. ASSUME NEW k \in 1..w PROVE EncodeWord(WordAt(bytes, k)) \in [1..Group -> Digits]
  <2>1. Number(WordAt(bytes, k), Byte, Word)
    <3>1. WordAt(bytes, k) \in [1..Word -> Bytes]
      BY WordIs
    <3> QED
      BY <3>1, Sizes DEF Number, Bytes
  <2>2. Value(WordAt(bytes, k), Byte) \in Nat
    BY <2>1, ValueBound
  <2> QED
    BY <2>2, Sizes, PlacesAre DEF EncodeWord, Digits
<1>6. ASSUME NEW j \in 1..l PROVE char(j) \in Digits
  <2>1. PICK r \in Nat : r = j - 1 /\ r + 1 <= l
    BY <1>3
  <2>2. PICK d \in Nat, m \in 0..g - 1 : d = r \div Group /\ m = r % Group /\ d * g <= r
    BY <1>2, DivMod
  <2>3. d + 1 \in 1..w
    <3>1. PICK x \in Nat : x = w * g /\ l + f = x
      BY <1>1, <1>2, <1>3
    <3>2. PICK y \in Nat : y = d * g /\ y <= r
      BY <1>2, <2>2
    <3>3. y < x
      BY <1>2, <1>3, <2>1, <3>1, <3>2
    <3>4. d < w
      BY <1>1, <1>2, <3>1, <3>2, <3>3, Times
    <3> QED
      BY <1>1, <3>4
  <2>4. m + 1 \in 1..Group
    BY <1>2
  <2>5. char(j) = EncodeWord(WordAt(bytes, d + 1))[m + 1]
    BY <2>1, <2>2
  <2> HIDE DEF char
  <2> QED
    BY <1>5, <2>3, <2>4, <2>5
<1>7. ASSUME NEW k \in 1..w, NEW j \in 1..Group, (k - 1) * Group + j <= l
      PROVE  Encode(bytes)[(k - 1) * Group + j] = EncodeWord(WordAt(bytes, k))[j]
  <2>1. PICK i \in Nat, m \in 0..g - 1 : i = k - 1 /\ m = j - 1 /\ i + 1 = k /\ m + 1 = j
    BY <1>2
  <2>2. i * g + m \in Nat /\ (i * g + m) \div g = i /\ (i * g + m) % g = m
    BY <1>2, PlaceIs
  <2>3. PICK r \in Nat : r = i * g + m /\ r \div Group = i /\ r % Group = m
    BY <1>2, <2>2
  <2>4. (k - 1) * Group + j = r + 1
    <3>1. PICK x \in Nat : x = i * g
      BY <1>2
    <3>2. (k - 1) * Group = x
      BY <1>2, <2>1, <3>1
    <3> QED
      BY <2>1, <2>3, <3>1, <3>2
  <2>5. r + 1 \in 1..l /\ (r + 1) - 1 = r
    BY <1>3, <1>7, <2>4
  <2>6. Encode(bytes)[r + 1] = char(r + 1)
    BY <1>4, <2>5
  <2>7. char(r + 1) = EncodeWord(WordAt(bytes, i + 1))[m + 1]
    BY <2>3, <2>5
  <2> HIDE DEF char
  <2> QED
    BY <2>1, <2>4, <2>6, <2>7
<1> HIDE DEF char
<1>8. Encode(bytes) \in Text /\ Len(Encode(bytes)) = l
  <2>1. Encode(bytes) \in [1..l -> Digits \cup {Bad}]
    BY <1>4, <1>6
  <2> QED
    BY <1>3, <2>1 DEF Text
<1> QED
  BY <1>3, <1>7, <1>8

(* The text of an encoding is filled up to groups that hold the words.     *)
LEMMA ChunkOfEncoding ==
    ASSUME NEW bytes \in Seq(Bytes), NEW n, NEW w, NEW f, Words(bytes, n, w, f)
    PROVE  /\ Padding(Encode(bytes)) = f
           /\ Padded(Encode(bytes)) \in Text
           /\ Len(Padded(Encode(bytes))) \div Group = w
           /\ \A k \in 1..w :
                FilledUp(WordAt(bytes, k), FillOf(w, f, k), Piece(Padded(Encode(bytes)), k, Group))
<1> DEFINE text == Encode(bytes)
           b    == Padded(text)
<1>1. n \in Nat /\ w \in Nat /\ n + f = w * Word
  BY DEF Words
<1>2. PICK g \in Nat \ {0} : g = Group /\ f \in 0..g - 1 /\ 0 \in 0..g - 1
  BY Sizes DEF Words
<1>3. /\ text \in Text /\ Len(text) \in Nat /\ Len(text) + f = w * Group
      /\ \A k \in 1..w, j \in 1..Group : (k - 1) * Group + j <= Len(text) =>
            text[(k - 1) * Group + j] = EncodeWord(WordAt(bytes, k))[j]
  BY EncodeIs DEF Text
<1> HIDE DEF text
<1>4. PICK l \in Nat : l = Len(text) /\ l + f = w * g
  BY <1>2, <1>3
<1>5. Padding(text) = f
  <2>1. (-l) % g = f
    BY <1>1, <1>2, <1>4, FillIs
  <2> QED
    BY <1>2, <1>4, <2>1 DEF Padding
<1>6. /\ b \in Text /\ Len(b) = l + f
      /\ \A j \in 1..l : b[j] = text[j]
      /\ \A j \in l + 1..l + f : b[j] = Alpha - 1
  BY <1>3, <1>4, <1>5, PaddedIs
<1> HIDE DEF b
<1>7. Len(b) \div Group = w
  <2>1. (w * g + 0) \div g = w
    BY <1>1, <1>2, PlaceIs
  <2>2. Len(b) = w * g + 0
    BY <1>4, <1>6
  <2> QED
    BY <1>2, <2>1, <2>2
<1>8. ASSUME NEW k \in 1..w
      PROVE  FilledUp(WordAt(bytes, k), FillOf(w, f, k), Piece(b, k, Group))
  <2>1. /\ WordAt(bytes, k) \in [1..Word -> Bytes]
        /\ FillOf(w, f, k) \in 0..Word - 1
        /\ \A j \in Word - FillOf(w, f, k) + 1..Word : WordAt(bytes, k)[j] = 0
    BY WordIs
  <2>2. PICK s \in Nat : s = (k - 1) * Group /\ s + g <= l + f /\ (k = w => s + g = l + f)
                         /\ (k # w => s + g + g <= l + f)
    <3>1. PICK i \in Nat : i = k - 1 /\ i + 1 <= w /\ i + 1 = k
      BY <1>1
    <3>2. PICK x \in Nat : x = i * g /\ (i + 1) * g = x + g /\ (i + 2) * g = x + g + g
      OBVIOUS
    <3>3. (i + 1) * g <= w * g /\ (i + 2 <= w => (i + 2) * g <= w * g)
      BY <1>1, <3>1, Times
    <3>4. PICK y \in Nat : y = w * g /\ l + f = y
      BY <1>1, <1>4
    <3>5. x + g <= y /\ (k # w => x + g + g <= y) /\ (k = w => x + g = y)
      <4>1. k # w => i + 2 <= w
        BY <1>1, <3>1
      <4> QED
        BY <3>1, <3>2, <3>3, <3>4, <4>1
    <3>6. x = (k - 1) * Group
      BY <1>2, <3>1, <3>2
    <3> QED
      BY <3>2, <3>4, <3>5, <3>6
  <2>3. /\ Piece(b, k, Group) \in [1..Group -> Digits \cup {Bad}]
        /\ \A j \in 1..Group : Piece(b, k, Group)[j] = b[s + j]
    BY <1>6, <1>7, <2>2, PieceOfText
  <2>4. PICK h \in 0..g - 1 : h = FillOf(w, f, k)
    BY <1>2 DEF FillOf
  <2>5. ASSUME NEW j \in 1..g - h
        PROVE  /\ Piece(b, k, Group)[j] = EncodeWord(WordAt(bytes, k))[j]
               /\ Piece(b, k, Group)[j] \in Digits
    <3>1. j \in 1..g /\ s + j \in 1..l
      BY <1>2, <1>4, <2>2, <2>4 DEF FillOf
    <3>2. b[s + j] = EncodeWord(WordAt(bytes, k))[j]
      BY <1>2, <1>3, <1>4, <1>6, <2>2, <3>1
    <3>3. EncodeWord(WordAt(bytes, k)) \in [1..Group -> Digits]
      <4>1. Number(WordAt(bytes, k), Byte, Word)
        BY <2>1, Sizes DEF Number, Bytes
      <4>2. Value(WordAt(bytes, k), Byte) \in Nat
        BY <4>1, ValueBound
      <4> QED
        BY <4>2, Sizes, PlacesAre DEF EncodeWord, Digits
    <3> QED
      BY <1>2, <2>3, <3>1, <3>2, <3>3
  <2>6. ASSUME NEW j \in g - h + 1..g
        PROVE  Piece(b, k, Group)[j] = Alpha - 1 /\ Piece(b, k, Group)[j] \in Digits
    <3>1. k = w /\ h = f
      BY <1>2, <2>4 DEF FillOf
    <3>2. j \in 1..g /\ s + j \in l + 1..l + f
      BY <1>2, <1>4, <2>2, <3>1
    <3> QED
      BY <1>2, <1>6, <2>3, <3>2, Sizes
  <2>7. Piece(b, k, Group) \in [1..Group -> Digits]
    <3>1. \A j \in 1..g : j \in 1..g - h \/ j \in g - h + 1..g
      BY <2>4
    <3>2. \A j \in 1..g : Piece(b, k, Group)[j] \in Digits
      BY <2>5, <2>6, <3>1
    <3> QED
      BY <1>2, <2>3, <3>2
  <2> QED
    BY <1>2, <2>1, <2>4, <2>5, <2>6, <2>7, Zenon DEF FilledUp
<1> QED
  BY <1>5, <1>6, <1>7, <1>8 DEF b, text

(* After k turns there are k words, and the bytes in them.                 *)
Decoded(bytes, n, k, s) ==
    /\ s.error = NoError /\ s.out \in Seq(Bytes) /\ Len(s.out) = k * Word
    /\ \A j \in 1..k * Word : j <= n => s.out[j] = bytes[j]

LEMMA TurnDecodes ==
    ASSUME NEW bytes \in Seq(Bytes), NEW n, NEW w, NEW f, Words(bytes, n, w, f),
           NEW k \in 1..w, NEW s \in Results, Decoded(bytes, n, k - 1, s)
    PROVE  Decoded(bytes, n, k, DecodeChunk(Padded(Encode(bytes)), s, k))
<1> DEFINE b     == Padded(Encode(bytes))
           chunk == Piece(b, k, Group)
           v     == Value(chunk, Alpha)
           bad   == {j \in 1..Group : chunk[j] = Bad}
           word  == WordAt(bytes, k)
           h     == FillOf(w, f, k)
           added == Places(v, Byte, Word)
<1>1. FilledUp(word, h, chunk)
  BY ChunkOfEncoding
<1>2. /\ s.error = NoError /\ s.out \in Seq(Bytes) /\ Len(s.out) = (k - 1) * Word
      /\ \A j \in 1..(k - 1) * Word : j <= n => s.out[j] = bytes[j]
  BY DEF Decoded
<1>3. \A j \in 1..Word : (k - 1) * Word + j <= n =>
         j <= Word - h /\ word[j] = bytes[(k - 1) * Word + j]
  BY WordIs
<1> HIDE DEF word, h, chunk
<1>4. bad = {}
  BY <1>1, Sizes DEF FilledUp
<1>5. v \in Nat /\ v < Power(Byte, Word) /\ \A j \in 1..Word - h : added[j] = word[j]
  BY <1>1, WordComesBack
<1>6. Power(Byte, Word) \in Nat
  BY Sizes, PowerIs
<1>7. DecodeChunk(b, s, k) = [s EXCEPT !.out = @ \o added]
  BY <1>2, <1>4, <1>5, <1>6 DEF DecodeChunk, chunk
<1>8. added \in Seq(Bytes) /\ Len(added) = Word
  <2>1. added \in [1..Word -> 0..Byte - 1]
    BY <1>5, Sizes, PlacesAre, Zenon
  <2>2. added \in [1..Word -> Bytes] /\ Word \in Nat
    BY <2>1, Sizes DEF Bytes
  <2> QED
    BY <2>2
<1> HIDE DEF added, v
<1>9. PICK z \in Nat \ {0}, i \in Nat, x \in Nat :
        z = Word /\ i = k - 1 /\ x = (k - 1) * Word /\ x + z = k * Word
  <2>1. PICK z \in Nat \ {0} : z = Word
    BY Sizes
  <2>2. PICK i \in Nat : i = k - 1 /\ i + 1 = k
    BY DEF Words
  <2>3. PICK x \in Nat : x = i * z /\ (i + 1) * z = x + z
    OBVIOUS
  <2> QED
    BY <2>1, <2>2, <2>3
<1> DEFINE out == s.out \o added
<1>10. /\ out \in Seq(Bytes) /\ Len(out) = x + z
       /\ \A j \in 1..x + z : out[j] = IF j <= x THEN s.out[j] ELSE added[j - x]
  <2>1. Len(s.out) = x /\ Len(added) = z
    BY <1>2, <1>8, <1>9
  <2> QED
    BY <1>2, <1>8, <2>1
<1>11. DecodeChunk(b, s, k).error = NoError /\ DecodeChunk(b, s, k).out = out
  BY <1>2, <1>7 DEF Results
<1> HIDE DEF out
<1>12. ASSUME NEW j \in 1..x + z, j <= n PROVE out[j] = bytes[j]
  <2>1. CASE j <= x
    BY <1>2, <1>9, <1>10, <1>12, <2>1
  <2>2. CASE ~ (j <= x)
    <3>1. PICK m \in 1..z : m = j - x /\ x + m = j
      BY <1>9, <2>2
    <3>2. m <= Word - h /\ word[m] = bytes[j]
      BY <1>3, <1>9, <1>12, <3>1
    <3>3. h \in Nat /\ m \in 1..Word - h
      BY <1>1, <1>9, <3>1, <3>2 DEF FilledUp
    <3> QED
      BY <1>5, <1>10, <2>2, <3>1, <3>2, <3>3
  <2> QED
    BY <2>1, <2>2
<1> QED
  BY <1>9, <1>10, <1>11, <1>12 DEF Decoded

LEMMA TurnsDecode ==
    ASSUME NEW bytes \in Seq(Bytes), NEW n, NEW w, NEW f, Words(bytes, n, w, f)
    PROVE  Decoded(bytes, n, w, Turns(Padded(Encode(bytes)))[w])
<1> DEFINE b == Padded(Encode(bytes))
           T == {k \in Nat : k <= w => Decoded(bytes, n, k, Turns(b)[k])}
<1>1. w \in Nat
  BY DEF Words
<1>2. b \in Text /\ Len(b) \div Group = w
  BY ChunkOfEncoding
<1> HIDE DEF b
<1>3. /\ Turns(b)[0] = [out |-> <<>>, error |-> NoError]
      /\ \A k \in 1..w : Turns(b)[k] = DecodeChunk(b, Turns(b)[k - 1], k)
      /\ \A k \in 0..w : Turns(b)[k] \in Results
  BY <1>2, TurnsAre
<1>4. 0 \in T
  <2>1. 0 * Word = 0
    BY Sizes
  <2>2. <<>> \in Seq(Bytes) /\ Len(<<>>) = 0
    OBVIOUS
  <2>3. Turns(b)[0].error = NoError /\ Turns(b)[0].out = <<>>
    BY <1>3
  <2>4. \A j \in 1..0 * Word : FALSE
    BY <2>1
  <2> QED
    BY <2>1, <2>2, <2>3, <2>4 DEF Decoded
<1>5. ASSUME NEW k \in Nat, k \in T PROVE k + 1 \in T
  <2> SUFFICES ASSUME k + 1 <= w PROVE Decoded(bytes, n, k + 1, Turns(b)[k + 1])
    OBVIOUS
  <2>1. k + 1 \in 1..w /\ (k + 1) - 1 = k /\ k \in 0..w /\ k <= w
    BY <1>1
  <2>2. PICK s \in Results : s = Turns(b)[k]
    BY <1>3, <2>1
  <2>3. PICK i \in 1..w : i = k + 1 /\ i - 1 = k
    BY <2>1
  <2>4. Decoded(bytes, n, i - 1, s)
    BY <1>5, <2>1, <2>2, <2>3
  <2>5. Decoded(bytes, n, i, DecodeChunk(b, s, i))
    BY <2>4, TurnDecodes DEF b
  <2>6. Turns(b)[i] = DecodeChunk(b, s, i)
    BY <1>3, <2>2, <2>3
  <2> QED
    BY <2>3, <2>5, <2>6
<1> HIDE DEF T
<1>6. Nat \subseteq T
  BY <1>4, <1>5, AllNumbers
<1>7. w \in T /\ w <= w
  BY <1>1, <1>6
<1> QED
  BY <1>7 DEF T, b

(* What was encoded is decoded again, whatever its length is: the filling  *)
(* of the last group changes no byte before it, overflows no word, and is  *)
(* cut off to the byte (get-pip.py, lines 51-77).                          *)
THEOREM DecodesWhatWasEncoded == UndoesEncoding
<1>1. SUFFICES ASSUME NEW bytes \in Seq(Bytes)
               PROVE  b85decode(Encode(bytes)) = [out |-> bytes, error |-> NoError]
  BY InputsAssumption DEF InputsAssumption, UndoesEncoding
<1>2. PICK n, w, f : Words(bytes, n, w, f)
  BY WordsOf
<1>3. n \in Nat /\ f \in Nat /\ n = Len(bytes) /\ n + f = w * Word
  BY <1>2, Sizes DEF Words
<1> DEFINE b == Padded(Encode(bytes))
<1>4. b \in Text /\ Padding(Encode(bytes)) = f /\ Len(b) \div Group = w
  BY <1>2, ChunkOfEncoding
<1>5. PICK s : s = Turns(b)[w] /\ s \in Results
  <2>1. w \in 0..w
    BY <1>2 DEF Words
  <2> QED
    BY <1>4, <2>1, TurnsAre
<1>6. Decoded(bytes, n, w, s)
  BY <1>2, <1>5, TurnsDecode
<1>7. /\ s.error = NoError /\ s.out \in Seq(Bytes) /\ Len(s.out) = n + f
      /\ \A j \in 1..n + f : j <= n => s.out[j] = bytes[j]
  BY <1>3, <1>6 DEF Decoded
<1>8. SubSeq(s.out, 1, Len(s.out) - f) = bytes
  <2>1. Len(s.out) - f = n
    BY <1>3, <1>7
  <2>2. SubSeq(s.out, 1, n) = [j \in 1..n |-> s.out[j]]
    BY <1>3, <1>7
  <2>3. bytes = [j \in 1..n |-> bytes[j]]
    BY <1>3
  <2>4. \A j \in 1..n : s.out[j] = bytes[j]
    BY <1>3, <1>7
  <2> QED
    BY <2>1, <2>2, <2>3, <2>4
<1>9. b85decode(Encode(bytes)) = [s EXCEPT !.out = SubSeq(@, 1, Len(@) - f)]
  BY <1>4, <1>5 DEF b85decode
<1> QED
  BY <1>5, <1>7, <1>8, <1>9 DEF Results

(* The zip file in a directory is what was encoded to DATA, for any bytes  *)
(* and any invocations (lines 51-77, 190-192).                             *)
THEOREM ZipIsRight == Spec => []ZipIsWhatWasPacked
<1>1. ZipIsWhatWasPacked
  BY DecodesWhatWasEncoded DEF ZipIsWhatWasPacked
<1> QED
  BY <1>1, PTL
=============================================================================
