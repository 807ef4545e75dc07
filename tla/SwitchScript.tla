---------------------------- MODULE SwitchScript ----------------------------
(***************************************************************************)
(* src/gfw/switch.sh: the menu that reinstalls one of two proxy servers.   *)
(* "V2Ray" (lines 6-61) and "SSR" (62-109) remove the old installation,    *)
(* download the new one and a configuration, put a free port for each      *)
(* placeholder and start the server; "Show" (110-138) prints the ports and *)
(* secrets in the configurations.                                          *)
(*                                                                         *)
(* The ports and ids that are substituted are data; the script's only view *)
(* of a file is a sed command, its only view of the host one lsof call.    *)
(***************************************************************************)
EXTENDS Naturals

CONSTANTS
    Ports,    \* what shuf may draw, 10000-40000 in the script
    DyMark,   \* the placeholder 11111 of the first port in config_server.json
    AlMark,   \* the placeholder 22222 of the second
    Missing,  \* no such file, no such process
    Dirs,     \* the directories that the script may be run from
    Events    \* what the environment may do, a subset of AllEvents

AllEvents == {"take", "crash", "abort", "reboot"}

ASSUME SwitchAssumption ==
    /\ {DyMark, AlMark} \subseteq Ports /\ DyMark # AlMark
    /\ Ports \subseteq Nat \ {0}
    /\ Events \subseteq AllEvents

(* config.json of V2Ray and user-config.json of SSR: ports and secret. The *)
(* packages bring configurations of their own, with ports no draw yields.  *)
Secrets == {"uuid", "package", "drawn"}
V2Files  == [dy : Ports \cup {0}, al : Ports \cup {0}, id : Secrets]
SsrFiles == [port : Ports \cup {0}, id : Secrets]

V2Template  == [dy |-> DyMark, al |-> AlMark, id |-> "uuid"]
V2Package   == [dy |-> 0, al |-> 0, id |-> "package"]
SsrTemplate == [port |-> DyMark, id |-> "uuid"]
SsrPackage  == [port |-> 0, id |-> "package"]

ASSUME MissingAssumption == Missing \notin V2Files \cup SsrFiles

Labels == {"off", "v_install", "v_config", "v_dy", "v_al", "v_id", "v_start",
           "s_clone", "s_config", "s_port", "s_id", "s_start"}

VARIABLES
    taken,    \* SUBSET Ports, in use by programs that are neither server
    vconf,    \* /etc/v2ray/config.json
    vrun,     \* the configuration that V2Ray runs with
    venabled, \* whether systemd starts V2Ray after a reboot
    sdir,     \* [Dirs -> BOOLEAN] whether it has a directory shadowsocksr
    sconf,    \* [Dirs -> ...] shadowsocksr/user-config.json
    srun,     \* [Dirs -> ...] what the SSR started out of it runs with
    cwd,      \* the directory the SSR choice was made in
    pc,       \* where the script is, "off" when it does not run
    dy, al    \* $port_dy ($port of SSR) and $port_al

v2Vars  == <<vconf, vrun, venabled>>
ssrVars == <<sdir, sconf, srun, cwd>>
vars    == <<taken, v2Vars, ssrVars, pc, dy, al>>

TypeOK ==
    /\ taken \in SUBSET Ports
    /\ vconf \in V2Files \cup {Missing} /\ vrun \in V2Files \cup {Missing}
    /\ venabled \in BOOLEAN
    /\ sdir \in [Dirs -> BOOLEAN]
    /\ sconf \in [Dirs -> SsrFiles \cup {Missing}]
    /\ srun \in [Dirs -> SsrFiles \cup {Missing}]
    /\ cwd \in Dirs
    /\ pc \in Labels
    /\ dy \in Ports \cup {0} /\ al \in Ports \cup {0}

Init ==
    /\ taken = {}
    /\ vconf = Missing /\ vrun = Missing /\ venabled = FALSE
    /\ sdir = [d \in Dirs |-> FALSE]
    /\ sconf = [d \in Dirs |-> Missing] /\ srun = [d \in Dirs |-> Missing]
    /\ cwd \in Dirs
    /\ pc = "off" /\ dy = 0 /\ al = 0

V2Ports  == IF vrun = Missing THEN {} ELSE {vrun.dy, vrun.al}
SsrPorts == {srun[d].port : d \in {e \in Dirs : srun[e] # Missing}}

(* What lsof -i :port finds in use.                                        *)
Occupied == taken \cup V2Ports \cup SsrPorts

-----------------------------------------------------------------------------
(* "V2Ray".                                                                *)

(* systemctl stop and disable, rm -rf of all that an installation left.    *)
V2Remove ==
    /\ pc = "off"
    /\ vconf' = Missing /\ vrun' = Missing /\ venabled' = FALSE
    /\ pc' = "v_install"
    /\ UNCHANGED <<taken, ssrVars, dy, al>>

(* go.sh: it installs, enables and perhaps starts V2Ray with a             *)
(* configuration of its own, or nothing arrives.                           *)
V2Install ==
    /\ pc = "v_install"
    /\ \/ /\ vconf' = V2Package /\ vrun' \in {Missing, V2Package}
          /\ venabled' = TRUE
       \/ UNCHANGED v2Vars
    /\ pc' = "v_config"
    /\ UNCHANGED <<taken, ssrVars, dy, al>>

(* wget config_server.json, stop, replace config.json by it. When the      *)
(* download failed there is no config.json at all, nor when there is no    *)
(* /etc/v2ray to move it to.                                               *)
V2Config ==
    /\ pc = "v_config"
    /\ vconf' \in {Missing} \cup (IF vconf = Missing THEN {} ELSE {V2Template})
    /\ vrun' = Missing
    /\ pc' = "v_dy"
    /\ UNCHANGED <<taken, venabled, ssrVars, dy, al>>

(* sed -i "s/"port": mark/"port": p/g": every port that is the mark.       *)
PutPort(c, mark, p) ==
    IF c = Missing THEN Missing
    ELSE [c EXCEPT !.dy = IF @ = mark THEN p ELSE @,
                   !.al = IF @ = mark THEN p ELSE @]

(* shuf until lsof is silent, then sed. The loop goes on while all ports   *)
(* are in use.                                                             *)
V2Dy ==
    /\ pc = "v_dy"
    /\ dy' \in Ports \ Occupied
    /\ vconf' = PutPort(vconf, DyMark, dy')
    /\ pc' = "v_al"
    /\ UNCHANGED <<taken, vrun, venabled, ssrVars, al>>

(* Seeded fault: the first placeholder again.                              *)
V2AlFirstMark ==
    /\ pc = "v_al"
    /\ al' \in Ports \ Occupied
    /\ vconf' = PutPort(vconf, DyMark, al')
    /\ pc' = "v_id"
    /\ UNCHANGED <<taken, vrun, venabled, ssrVars, dy>>

(* The same for the second port. [[ port_al == port_dy ]] compares the two *)
(* names, so it never asks for another draw.                               *)
V2Al ==
    /\ pc = "v_al"
    /\ al' \in Ports \ Occupied
    /\ vconf' = PutPort(vconf, AlMark, al')
    /\ pc' = "v_id"
    /\ UNCHANGED <<taken, vrun, venabled, ssrVars, dy>>

PutId(c) ==
    IF c = Missing THEN Missing
    ELSE [c EXCEPT !.id = IF @ = "uuid" THEN "drawn" ELSE @]

V2Id ==
    /\ pc = "v_id"
    /\ vconf' = PutId(vconf)
    /\ pc' = "v_start"
    /\ UNCHANGED <<taken, vrun, venabled, ssrVars, dy, al>>

(* V2Ray refuses a file without a valid id, or ports it cannot bind.       *)
V2Starts ==
    /\ vconf # Missing /\ vconf.id # "uuid"
    /\ {vconf.dy, vconf.al} \cap (taken \cup SsrPorts) = {}

(* The ports are printed, then service v2ray start.                        *)
V2Start ==
    /\ pc = "v_start"
    /\ \/ vrun' = vconf /\ V2Starts
       \/ UNCHANGED vrun
    /\ pc' = "off"
    /\ UNCHANGED <<taken, vconf, venabled, ssrVars, dy, al>>

-----------------------------------------------------------------------------
(* "SSR", in a directory d. All its paths are relative: what another       *)
(* directory holds it does not see, and without shadowsocksr every command *)
(* goes wrong.                                                             *)

(* Seeded fault: the old server is not stopped.                            *)
SsrRemoveRunning(d) ==
    /\ pc = "off"
    /\ cwd' = d
    /\ sdir' = [sdir EXCEPT ![d] = FALSE] /\ sconf' = [sconf EXCEPT ![d] = Missing]
    /\ pc' = "s_clone"
    /\ UNCHANGED <<taken, v2Vars, srun, dy, al>>

(* stop.sh of d ends the server that runs out of d. Whether it ends one    *)
(* that was started elsewhere is up to the package.                        *)
Stopped(d) == {[e \in Dirs |-> IF e \in S THEN Missing ELSE srun[e]] :
                  S \in {T \in SUBSET Dirs : d \in T}}

(* stop.sh, if it is there, and rm -rf shadowsocksr                        *)
SsrRemove(d) ==
    /\ pc = "off"
    /\ cwd' = d
    /\ srun' \in IF sdir[d] THEN Stopped(d) ELSE {srun}
    /\ sdir' = [sdir EXCEPT ![d] = FALSE] /\ sconf' = [sconf EXCEPT ![d] = Missing]
    /\ pc' = "s_clone"
    /\ UNCHANGED <<taken, v2Vars, dy, al>>

(* git clone, cd shadowsocksr, initcfg.sh copies the package's file.       *)
SsrClone ==
    /\ pc = "s_clone"
    /\ \/ /\ sdir' = [sdir EXCEPT ![cwd] = TRUE]
          /\ sconf' = [sconf EXCEPT ![cwd] = SsrPackage]
       \/ UNCHANGED <<sdir, sconf>>
    /\ pc' = "s_config"
    /\ UNCHANGED <<taken, v2Vars, srun, cwd, dy, al>>

(* rm -f user-config.json, wget user-config.json                           *)
SsrConfig ==
    /\ pc = "s_config"
    /\ IF sdir[cwd]
       THEN \E c \in {Missing, SsrTemplate} : sconf' = [sconf EXCEPT ![cwd] = c]
       ELSE UNCHANGED sconf
    /\ pc' = "s_port"
    /\ UNCHANGED <<taken, v2Vars, sdir, srun, cwd, dy, al>>

PutServerPort(c, p) ==
    IF c = Missing THEN Missing ELSE [c EXCEPT !.port = IF @ = DyMark THEN p ELSE @]

(* The placeholder is the same number here.                                *)
SsrPort ==
    /\ pc = "s_port"
    /\ dy' \in Ports \ Occupied
    /\ sconf' = [sconf EXCEPT ![cwd] = PutServerPort(@, dy')]
    /\ pc' = "s_id"
    /\ UNCHANGED <<taken, v2Vars, sdir, srun, cwd, al>>

SsrId ==
    /\ pc = "s_id"
    /\ sconf' = [sconf EXCEPT ![cwd] = PutId(@)]
    /\ pc' = "s_start"
    /\ UNCHANGED <<taken, v2Vars, sdir, srun, cwd, dy, al>>

(* A server that finds no user-config.json takes the package's file.       *)
SsrServes(d) == IF sconf[d] = Missing THEN SsrPackage ELSE sconf[d]

(* Whether it can bind its port beside the servers that still run.         *)
SsrBinds(d, run) ==
    /\ SsrServes(d).port \notin taken \cup V2Ports
    /\ \A e \in Dirs : run[e] # Missing => run[e].port # SsrServes(d).port

(* stop.sh, logrun.sh, and the port is printed.                            *)
SsrStart ==
    /\ pc = "s_start"
    /\ IF sdir[cwd]
       THEN \E run \in Stopped(cwd) :
               \/ srun' = run
               \/ SsrBinds(cwd, run) /\ srun' = [run EXCEPT ![cwd] = SsrServes(cwd)]
       ELSE UNCHANGED srun
    /\ pc' = "off"
    /\ UNCHANGED <<taken, v2Vars, sdir, sconf, cwd, dy, al>>

-----------------------------------------------------------------------------
(* The host.                                                               *)

(* Other programs come and go on the ports.                                *)
Others ==
    /\ "take" \in Events
    /\ taken' \in {taken \ {p} : p \in Ports} \cup {taken \cup {p} : p \in Ports \ Occupied}
    /\ UNCHANGED <<v2Vars, ssrVars, pc, dy, al>>

(* A server dies; systemd may start V2Ray again at once.                   *)
Crash ==
    /\ "crash" \in Events
    /\ \/ /\ vrun # Missing
          /\ vrun' \in {Missing} \cup (IF V2Starts THEN {vconf} ELSE {})
          /\ UNCHANGED srun
       \/ /\ \E d \in Dirs : srun[d] # Missing /\ srun' = [srun EXCEPT ![d] = Missing]
          /\ UNCHANGED vrun
    /\ UNCHANGED <<taken, vconf, venabled, sdir, sconf, cwd, pc, dy, al>>

Abort ==
    /\ "abort" \in Events
    /\ pc # "off"
    /\ pc' = "off"
    /\ UNCHANGED <<taken, v2Vars, ssrVars, dy, al>>

(* V2Ray comes back when it is enabled, SSR does not.                      *)
Reboot ==
    /\ "reboot" \in Events
    /\ taken' = {}
    /\ \/ vrun' = Missing
       \/ /\ venabled /\ vconf # Missing /\ vconf.id # "uuid"
          /\ vrun' = vconf
    /\ srun' = [d \in Dirs |-> Missing]
    /\ pc' = "off"
    /\ UNCHANGED <<vconf, venabled, sdir, sconf, cwd, dy, al>>

Next ==
    \/ V2Remove \/ V2Install \/ V2Config \/ V2Dy \/ V2Al \/ V2Id \/ V2Start
    \/ \E d \in Dirs : SsrRemove(d)
    \/ SsrClone \/ SsrConfig \/ SsrPort \/ SsrId \/ SsrStart
    \/ Others \/ Crash \/ Abort \/ Reboot

Spec == Init /\ [][Next]_vars

-----------------------------------------------------------------------------
(* Properties.                                                             *)

(* "Show" reads the configuration files (lines 118-119, 130-131): it never *)
(* prints another configuration than the one the server runs with, through *)
(* failed downloads, interruptions, crashes and reboots, because no file   *)
(* is replaced under a running server (lines 9, 23, 65). One exception: an *)
(* SSR whose user-config.json did not arrive (lines 81-82) runs with the   *)
(* package's file, while Show prints sed's complaint about the missing     *)
(* one. SSR is spoken of where it was installed: a Show in any other       *)
(* directory knows nothing of it, nor does a reinstallation there stop it. *)
ShownIsServed ==
    /\ vrun # Missing => vrun = vconf
    /\ \A d \in Dirs : srun[d] # Missing =>
          /\ sdir[d]
          /\ srun[d] = sconf[d] \/ (sconf[d] = Missing /\ srun[d] = SsrPackage)

(* What V2Ray is started with is what lines 54-56 print, if the download   *)
(* arrived at all, with one exception: a first port that happens to be the *)
(* second placeholder is replaced a second time.                           *)
PrintedIsConfigured ==
    pc = "v_start" /\ vconf # Missing =>
        /\ vconf.al = al
        /\ vconf.dy = IF dy = AlMark THEN al ELSE dy
        /\ vconf.id = "drawn"

(* The loop at line 40 asks for another second port while [[ port_al ==    *)
(* port_dy ]]: the two inbounds of the configuration that V2Ray is started *)
(* with have different ports.                                              *)
PortsDiffer ==
    pc = "v_start" /\ vconf # Missing => vconf.al # vconf.dy
=============================================================================
