------------------------------- MODULE GetPip -------------------------------
(***************************************************************************)
(* src/python/get-pip.py, main (lines 183-202) and bootstrap (80-176):     *)
(* invocations of the script on one host. Each one unpacks pip into a      *)
(* temporary directory of its own, works out what pip shall install, and   *)
(* lets pip do it. The packages of the host are common to all of them.     *)
(*                                                                         *)
(* External: tempfile, shutil and pip itself, which DATA is the encoding   *)
(* of; B85Decode is what main decodes it with.                             *)
(* main always passes a directory, so lines 164-166 and 179-180 do nothing.*)
(***************************************************************************)
EXTENDS FiniteSets, B85Decode

CONSTANTS
    Runs,     \* the invocations
    Lines,    \* the command lines: sets of arguments
    Envs,     \* the packages declined with PIP_NO_SETUPTOOLS, PIP_NO_WHEEL
    Req       \* install_req_from_line: a token's [name, pkg, spec], name as typed;
              \* pkg is what pip installs for it, "none" for an option's value

Pkgs     == {"pip", "setuptools", "wheel"}
Optional == {"setuptools", "wheel"}
Flag     == [setuptools |-> "--no-setuptools", wheel |-> "--no-wheel"]
Flags    == {"--no-setuptools", "--no-wheel"}

ASSUME ReqAssumption ==
    /\ Envs \subseteq SUBSET Optional
    /\ DOMAIN Req \cap Flags = {}
    /\ \A p \in Pkgs : p \in DOMAIN Req /\ Req[p] = [name |-> p, pkg |-> p, spec |-> "any"]
    /\ \A t \in DOMAIN Req : Req[t].name \in Pkgs => Req[t].pkg \in {Req[t].name, "none"}

VARIABLES
    site,     \* the packages of the host: what importing them does
    pc, dir,  \* of each invocation: its statement, its temporary directory,
    argv,     \* its command line,
    env,      \* its environment,
    args,     \* what pip will be given,
    implicit, \* the implicit_... that are True,
    todo,     \* what pip still has to install,
    hold,     \* what pip has moved aside to put the new version in place,
    excused   \* history: why the directory may stay

own  == <<argv, env>>
work == <<args, implicit>>
pips == <<todo, hold>>
vars == <<site, pc, dir, own, work, pips, excused>>

Nothing == [pkg |-> "none", was |-> "absent"]
Inside  == {"bound", "zip", "flags", "setuptools", "wheel", "scan", "cert"}
Over    == {"idle", "ended", "failed", "killed"}

(* pip never sees the script's own options.                                *)
TypeOK ==
    /\ site \in [Pkgs -> {"present", "absent", "broken"}]
    /\ pc \in [Runs -> Inside \cup Over \cup {"made", "pip", "finally", "exit"}]
    /\ dir \in [Runs -> {"none", "empty", "zip", "full"}]
    /\ argv \in [Runs -> Lines] /\ args \in [Runs -> SUBSET (((UNION Lines) \cup Pkgs) \ Flags)]
    /\ env \in [Runs -> Envs] /\ implicit \in [Runs -> SUBSET Pkgs]
    /\ todo \in [Runs -> SUBSET Pkgs]
    /\ hold \in [Runs -> {Nothing} \cup [pkg : Pkgs, was : {"present", "absent", "broken"}]]
    /\ excused \in SUBSET Runs

(* An import that fails with an ImportError is an absent package; a broken *)
(* one fails with something else.                                          *)
Init ==
    /\ site \in [Pkgs -> {"present", "absent", "broken"}]
    /\ pc = [r \in Runs |-> "idle"] /\ dir = [r \in Runs |-> "none"]
    /\ argv \in [Runs -> Lines] /\ env \in [Runs -> Envs]
    /\ args = [r \in Runs |-> {}] /\ implicit = [r \in Runs |-> {}]
    /\ todo = [r \in Runs |-> {}] /\ hold = [r \in Runs |-> Nothing]
    /\ excused = {}

Goto(r, from, to) == pc[r] = from /\ pc' = [pc EXCEPT ![r] = to]
NewDir(r, d)      == dir' = [dir EXCEPT ![r] = d]

-----------------------------------------------------------------------------
(* main: the directory exists before tmpdir is bound to it.                *)

Mkdtemp(r) ==
    /\ Goto(r, "idle", "made") /\ NewDir(r, "empty")
    /\ UNCHANGED <<site, own, work, pips, excused>>

Bind(r) ==
    /\ Goto(r, "made", "bound")
    /\ UNCHANGED <<site, dir, own, work, pips, excused>>

Unpack(r) ==
    /\ Goto(r, "bound", "flags") /\ NewDir(r, "zip")
    /\ UNCHANGED <<site, own, work, pips, excused>>

-----------------------------------------------------------------------------
(* bootstrap.                                                              *)

Declined(r) == {p \in Optional : Flag[p] \in argv[r]} \cup env[r]

(* Seeded fault: the second filter begins with sys.argv again.             *)
ReadFlagsAgain(r) ==
    /\ Goto(r, "flags", "setuptools")
    /\ args' = [args EXCEPT ![r] = argv[r] \ (IF "wheel" \in Declined(r)
                                              THEN {"--no-wheel"} ELSE Flags)]
    /\ implicit' = [implicit EXCEPT ![r] = Pkgs \ Declined(r)]
    /\ UNCHANGED <<site, dir, own, pips, excused>>

(* Seeded fault: the environment is not asked.                             *)
ReadFlagsOnly(r) ==
    /\ Goto(r, "flags", "setuptools")
    /\ args' = [args EXCEPT ![r] = argv[r] \ Flags]
    /\ implicit' = [implicit EXCEPT ![r] = Pkgs \ {p \in Optional : Flag[p] \in argv[r]}]
    /\ UNCHANGED <<site, dir, own, pips, excused>>

ReadFlags(r) ==
    /\ Goto(r, "flags", "setuptools")
    /\ args' = [args EXCEPT ![r] = argv[r] \ Flags]
    /\ implicit' = [implicit EXCEPT ![r] = Pkgs \ Declined(r)]
    /\ UNCHANGED <<site, dir, own, pips, excused>>

(* Seeded fault: the package counts as there before it is imported.        *)
ProbeEarly(r, p, next) ==
    /\ Goto(r, p, next)
    /\ p \in implicit[r] => site[p] # "broken"
    /\ implicit' = [implicit EXCEPT ![r] = @ \ {p}]
    /\ UNCHANGED <<site, dir, own, args, pips, excused>>

(* Seeded fault: nobody looks.                                             *)
ProbeBlind(r, p, next) ==
    /\ Goto(r, p, next)
    /\ UNCHANGED <<site, dir, own, work, pips, excused>>

(* try: import p ... except ImportError. An exception of another kind ends *)
(* bootstrap (Raise).                                                      *)
Probe(r, p, next) ==
    /\ Goto(r, p, next)
    /\ p \in implicit[r] => site[p] # "broken"
    /\ implicit' = [implicit EXCEPT ![r] = IF site[p] = "present" THEN @ \ {p} ELSE @]
    /\ UNCHANGED <<site, dir, own, args, pips, excused>>

(* Seeded fault: the argument itself, not the name of its requirement.     *)
NamesTyped(r) == args[r]

(* The names of the arguments that read as requirements; the value of an   *)
(* option of pip may.                                                      *)
Names(r) == {Req[t].name : t \in args[r] \cap DOMAIN Req}

(* The arguments turn off the implicit installs; the others are appended.  *)
Scan(r) ==
    /\ Goto(r, "scan", "cert")
    /\ implicit' = [implicit EXCEPT ![r] = @ \ Names(r)]
    /\ args' = [args EXCEPT ![r] = @ \cup implicit'[r]]
    /\ UNCHANGED <<site, dir, own, pips, excused>>

(* What pip takes for requirements.                                        *)
Reqs(r)   == {t \in args[r] \cap DOMAIN Req : Req[t].pkg # "none"}
Wanted(r) == {Req[t].pkg : t \in Reqs(r)} \cap Pkgs

WriteCert(r) ==
    /\ Goto(r, "cert", "pip") /\ NewDir(r, "full")
    /\ todo' = [todo EXCEPT ![r] = Wanted(r)]
    /\ UNCHANGED <<site, own, work, hold, excused>>

-----------------------------------------------------------------------------
(* pip, external: install --upgrade --force-reinstall. It refuses two      *)
(* different specifiers for one package, puts the packages in place one    *)
(* after the other, and goes back to the old version when one fails.       *)

Doubled(r) == {d \in Reqs(r) \X Reqs(r) :
                 Req[d[1]].pkg = Req[d[2]].pkg /\ Req[d[1]].spec # Req[d[2]].spec}

PipRemove(r, p) ==
    /\ pc[r] = "pip" /\ Doubled(r) = {}
    /\ p \in todo[r] /\ hold[r] = Nothing
    /\ hold' = [hold EXCEPT ![r] = [pkg |-> p, was |-> site[p]]]
    /\ site' = [site EXCEPT ![p] = "absent"]
    /\ UNCHANGED <<pc, dir, own, work, todo, excused>>

PipPut(r) ==
    /\ pc[r] = "pip" /\ hold[r] # Nothing
    /\ site' = [site EXCEPT ![hold[r].pkg] = "present"]
    /\ todo' = [todo EXCEPT ![r] = @ \ {hold[r].pkg}]
    /\ hold' = [hold EXCEPT ![r] = Nothing]
    /\ UNCHANGED <<pc, dir, own, work, excused>>

PipDone(r) ==
    /\ Doubled(r) = {} /\ todo[r] = {}
    /\ Goto(r, "pip", "exit")
    /\ UNCHANGED <<site, dir, own, work, pips, excused>>

(* An error, or an interrupt.                                              *)
PipFail(r) ==
    /\ Goto(r, "pip", "finally")
    /\ site' = IF hold[r].was = "absent" THEN site
               ELSE [site EXCEPT ![hold[r].pkg] = hold[r].was]
    /\ hold' = [hold EXCEPT ![r] = Nothing]
    /\ UNCHANGED <<dir, own, work, todo, excused>>

-----------------------------------------------------------------------------
(* How an invocation ends.                                                 *)

(* Seeded fault: main without the try.                                     *)
RaiseOut(r) ==
    /\ pc[r] \in Inside
    /\ pc' = [pc EXCEPT ![r] = "failed"]
    /\ UNCHANGED <<site, dir, own, work, pips, excused>>

(* An exception or an interrupt inside the try of main.                    *)
Raise(r) ==
    /\ pc[r] \in Inside
    /\ pc' = [pc EXCEPT ![r] = "finally"]
    /\ UNCHANGED <<site, dir, own, work, pips, excused>>

(* An interrupt before the assignment: tmpdir is None in the finally.      *)
RaiseUnbound(r) ==
    /\ Goto(r, "made", "failed")
    /\ excused' = excused \cup {r}
    /\ UNCHANGED <<site, dir, own, work, pips>>

Finally(r) ==
    /\ Goto(r, "finally", "failed") \/ Goto(r, "exit", "ended")
    /\ NewDir(r, "none")
    /\ UNCHANGED <<site, own, work, pips, excused>>

(* rmtree (..., ignore_errors=True) cannot remove everything.              *)
FinallyInPart(r) ==
    /\ Goto(r, "finally", "failed") \/ Goto(r, "exit", "ended")
    /\ excused' = excused \cup {r}
    /\ UNCHANGED <<site, dir, own, work, pips>>

(* An interrupt while the directory is removed: ignore_errors ignores      *)
(* OSErrors only.                                                          *)
FinallyInterrupted(r) ==
    /\ Goto(r, "finally", "failed") \/ Goto(r, "exit", "failed")
    /\ excused' = excused \cup {r}
    /\ UNCHANGED <<site, dir, own, work, pips>>

Kill(r) ==
    /\ pc[r] \notin Over
    /\ pc' = [pc EXCEPT ![r] = "killed"]
    /\ UNCHANGED <<site, dir, own, work, pips, excused>>

Refused(r) == pc[r] \in Optional /\ pc[r] \in implicit[r] /\ site[pc[r]] = "broken"

Step(r) ==
    \/ Bind(r) \/ Unpack(r) \/ ReadFlags(r)
    \/ Probe(r, "setuptools", "wheel") \/ Probe(r, "wheel", "scan")
    \/ Refused(r) /\ Raise(r)
    \/ Scan(r) \/ WriteCert(r)
    \/ \E p \in Pkgs : PipRemove(r, p)
    \/ PipPut(r) \/ PipDone(r)
    \/ Doubled(r) # {} /\ PipFail(r)
    \/ Finally(r)

Fault(r) ==
    \/ Raise(r) \/ RaiseUnbound(r) \/ PipFail(r)
    \/ FinallyInPart(r) \/ FinallyInterrupted(r) \/ Kill(r)

Next == \E r \in Runs : Mkdtemp(r) \/ Step(r) \/ Fault(r)

(* A process runs on.                                                      *)
Spec == Init /\ [][Next]_vars /\ \A r \in Runs : WF_vars(Step(r))

-----------------------------------------------------------------------------
(* Properties.                                                             *)

(* The directory with the certificates stays while pip runs and is gone    *)
(* after the invocation, whatever statement of main or bootstrap an error  *)
(* or an interrupt ended: only a kill, an interrupt between the creation   *)
(* of the directory and its assignment, one during the clean-up itself,    *)
(* and files that cannot be removed leave it behind (lines 184-202).       *)
TmpLife ==
    \A r \in Runs :
        /\ pc[r] = "pip" => dir[r] = "full"
        /\ pc[r] \in {"ended", "failed"} /\ r \notin excused => dir[r] = "none"

(* The zip file in the directory is what was encoded to DATA, whatever     *)
(* that was: bytes of any length come back without an error (lines 51-77,  *)
(* 190-192).                                                               *)
ZipIsWhatWasPacked == \A r \in Runs : dir[r] \in {"zip", "full"} => UndoesEncoding

(* When all invocations succeeded the host has pip, and setuptools and     *)
(* wheel except where they were declined, however the invocations          *)
(* overlapped: one finds a package absent while another one replaces it    *)
(* (lines 100-155). A package whose name is the value of an option, as in  *)
(* --log pip, need not come: the scan takes it for a requirement, pip does *)
(* not (lines 136-147).                                                    *)
Misread(r) == {Req[t].name : t \in {u \in argv[r] \cap DOMAIN Req : Req[u].pkg = "none"}}

Outcome ==
    (\A r \in Runs : pc[r] \in {"idle", "ended"}) =>
        \A r \in Runs : pc[r] = "ended" =>
            \A p \in Pkgs \ (Declined(r) \cup Misread(r)) : site[p] = "present"

(* What was declined comes only when the command line names it (104-114,   *)
(* 153-155).                                                               *)
DeclinedStays ==
    \A r \in Runs : \A p \in Declined(r) \cap todo[r] :
        \E t \in argv[r] \cap DOMAIN Req : Req[t].pkg = p

(* pip gets two specifiers for a package only if the user gave two: "if    *)
(* any of the args look like they might be a specific for one of our       *)
(* packages, then we'll turn off the implicit install" (lines 131-135).    *)
NoDoubleRequirement ==
    \A r \in Runs : pc[r] = "pip" =>
        \A d \in Doubled(r) : {d[1], d[2]} \subseteq argv[r]

Alone(r) == \A q \in Runs \ {r} : pc[q] = "idle"

(* "We only want to implicitly install setuptools and wheel if they don't  *)
(* already exist" (lines 116-117): what is there is replaced only if the   *)
(* command line names it, as long as no other invocation has begun. One    *)
(* that replaces a package makes the import at line 120 fail for a moment. *)
ImplicitOnlyIfAbsent ==
    [][\A r \in Runs : \A p \in Optional :
         PipRemove(r, p) /\ site[p] = "present" /\ Alone(r) =>
             \E t \in argv[r] \cap DOMAIN Req : Req[t].pkg = p]_vars
=============================================================================
