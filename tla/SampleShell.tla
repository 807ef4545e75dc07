---------------------------- MODULE SampleShell ----------------------------
(***************************************************************************)
(* The service stack that src/utils/sample-shell/sample_to_run.sh runs on  *)
(* one host: "Start all" launches the N services one after the other and   *)
(* waits for the TCP port of each, "Stop all" kills what pid.log lists,    *)
(* "Clear" deletes the installation directory.                             *)
(*                                                                         *)
(* Three kinds of actors share the state: the shells that run the script   *)
(* (one per operator), the processes of the host, and the host itself.     *)
(* Everything the script knows of the processes it knows from pid.log and  *)
(* from one lsof call per probe; the modelled hazards all come from there. *)
(*                                                                         *)
(* The download and installation of the prerequisites (lines 15-189) is    *)
(* one step with two outcomes here.                                        *)
(***************************************************************************)
EXTENDS Integers, Sequences, FiniteSets

CONSTANTS
    Ops,     \* operators, each with a terminal that runs the script
    Pids,    \* process numbers the kernel may hand out
    N,       \* number of services; the script starts 4
    Limit,   \* Limit[s]: the loop for s gives up once count > Limit[s]
    Events   \* what the environment may do, a subset of AllEvents

AllEvents == {"abort", "crash", "visit", "reboot"}

ASSUME ConstantsAssumption ==
    /\ IsFiniteSet(Pids)
    /\ N \in Nat \ {0}
    /\ Limit \in [1..N -> Nat]
    /\ Events \subseteq AllEvents

Services == 1..N

(***************************************************************************)
(* The role of a process: the service it was launched as; Visitor, some    *)
(* other program that uses one of the stack's ports (a browser, another    *)
(* web server); Bystander, a program that never touches these ports.       *)
(***************************************************************************)
Visitor   == 0
Bystander == N + 1
Roles     == 0..(N + 1)

VARIABLES
    stat,    \* [Pids -> {"free", "boot", "up", "term", "gone"}]
    role,    \* [Pids -> Roles]
    listen,  \* [Pids -> 0..N] the service whose port the process has bound
    conn,    \* [Pids -> 0..N] the service whose port it is connected to
    dir,     \* whether the directory sample_to_run exists
    pidlog,  \* the lines of sample_to_run/pid.log, <<>> when it is absent
    pc,      \* [Ops -> Labels] where the operator's shell is
    cwd,     \* [Ops -> {"top", "stack", "stale"}] its working directory
    cur,     \* [Ops -> Services] the service being started
    count,   \* [Ops -> Nat] $count of its wait loop
    found,   \* [Ops -> SUBSET Pids] $pids, what lsof printed, until it is logged
    row,     \* [Ops -> Nat] $ROWNUM of "Stop all"
    launched \* [Ops -> BOOLEAN] history: its start has launched something

procVars  == <<stat, role, listen, conn>>
diskVars  == <<dir, pidlog>>
shellVars == <<pc, cwd, cur, count, found, row, launched>>
vars      == <<procVars, diskVars, shellVars>>

Labels == {"off", "provision", "wipe", "unpack", "launch", "wait", "record",
           "giveup", "done", "kill", "unlog"}

Logged  == {pidlog[i] : i \in 1..Len(pidlog)}
Running(p) == stat[p] \in {"boot", "up"}

(* Seeded fault: lsof without the port.                                    *)
LsofAny(s) == {p \in Pids : stat[p] \in {"up", "term"}}

(* lsof -i :port lists every open socket with the port at either end.      *)
Lsof(s) == {p \in Pids : /\ stat[p] \in {"up", "term"}
                         /\ listen[p] = s \/ conn[p] = s}

TypeOK ==
    /\ stat \in [Pids -> {"free", "boot", "up", "term", "gone"}]
    /\ role \in [Pids -> Roles]
    /\ listen \in [Pids -> 0..N]
    /\ conn \in [Pids -> 0..N]
    /\ dir \in BOOLEAN
    /\ pidlog \in Seq(Pids)
    /\ pc \in [Ops -> Labels]
    /\ cwd \in [Ops -> {"top", "stack", "stale"}]
    /\ cur \in [Ops -> Services]
    /\ count \in [Ops -> Nat]
    /\ found \in [Ops -> SUBSET Pids]
    /\ row \in [Ops -> Nat \ {0}]
    /\ launched \in [Ops -> BOOLEAN]

Init ==
    /\ stat = [p \in Pids |-> "free"]
    /\ role = [p \in Pids |-> Visitor]
    /\ listen = [p \in Pids |-> 0]
    /\ conn = [p \in Pids |-> 0]
    /\ dir = FALSE
    /\ pidlog = <<>>
    /\ pc = [o \in Ops |-> "off"]
    /\ cwd = [o \in Ops |-> "top"]
    /\ cur = [o \in Ops |-> 1]
    /\ count = [o \in Ops |-> 0]
    /\ found = [o \in Ops |-> {}]
    /\ row = [o \in Ops |-> 1]
    /\ launched = [o \in Ops |-> FALSE]

Goto(o, l) == pc' = [pc EXCEPT ![o] = l]

(* The script of o ends, and its variables with it.                        *)
Quit(o) ==
    /\ Goto(o, "off")
    /\ cwd' = [cwd EXCEPT ![o] = "top"]
    /\ cur' = [cur EXCEPT ![o] = 1]
    /\ count' = [count EXCEPT ![o] = 0]
    /\ found' = [found EXCEPT ![o] = {}]
    /\ row' = [row EXCEPT ![o] = 1]
    /\ launched' = [launched EXCEPT ![o] = FALSE]

-----------------------------------------------------------------------------
(* "Start all".                                                            *)

(* The status check: refuse when the directory holds a pid.log. A refused  *)
(* choice, "Quit" and an invalid option change nothing.                    *)
StartAll(o) ==
    /\ pc[o] = "off"
    /\ pidlog = <<>>
    /\ Goto(o, "provision")
    /\ UNCHANGED <<procVars, diskVars, cwd, cur, count, found, row, launched>>

(* The prerequisites are installed and the archives downloaded, or a loop  *)
(* ran out of tries and the script exits.                                  *)
Provision(o) ==
    /\ pc[o] = "provision"
    /\ \/ Goto(o, "wipe") /\ UNCHANGED <<cwd, cur, count, found, row, launched>>
       \/ Quit(o)
    /\ UNCHANGED <<procVars, diskVars>>

(* The working directory of a shell inside a deleted directory is stale:   *)
(* it finds no file by a relative name any more and can create none.       *)
Evict == cwd' = [q \in Ops |-> IF cwd[q] = "stack" THEN "stale" ELSE cwd[q]]

(* rm -rf sample_to_run                                                    *)
Wipe(o) ==
    /\ pc[o] = "wipe"
    /\ dir' = FALSE
    /\ pidlog' = <<>>
    /\ Evict
    /\ Goto(o, "unpack")
    /\ UNCHANGED <<procVars, cur, count, found, row, launched>>

(* unrar x, then cd: when the archive does not unpack the cd fails, and    *)
(* the script goes on in the directory it was in.                          *)
Unpack(o) ==
    /\ pc[o] = "unpack"
    /\ \E ok \in BOOLEAN : dir' = (dir \/ ok)
    /\ cwd' = [cwd EXCEPT ![o] = IF dir' THEN "stack" ELSE @]
    /\ Goto(o, "launch")
    /\ UNCHANGED <<procVars, pidlog, cur, count, found, row, launched>>

(* startup.sh or nohup java -jar, in the background. Outside the           *)
(* installation directory the command is not found; a full process table   *)
(* makes the fork fail.                                                    *)
Launch(o) ==
    /\ pc[o] = "launch"
    /\ IF cwd[o] = "stack" /\ \E p \in Pids : stat[p] = "free"
       THEN \E p \in Pids :
              /\ stat[p] = "free"
              /\ stat' = [stat EXCEPT ![p] = "boot"]
              /\ role' = [role EXCEPT ![p] = cur[o]]
              /\ launched' = [launched EXCEPT ![o] = TRUE]
       ELSE UNCHANGED <<stat, role, launched>>
    /\ count' = [count EXCEPT ![o] = 0]
    /\ Goto(o, "wait")
    /\ UNCHANGED <<listen, conn, diskVars, cwd, cur, found, row>>

(* Seeded fault: the loop never counts its turns.                          *)
ProbeUncounted(o) ==
    /\ pc[o] = "wait"
    /\ found' = [found EXCEPT ![o] = Lsof(cur[o])]
    /\ IF Lsof(cur[o]) # {} THEN Goto(o, "record") ELSE UNCHANGED pc
    /\ UNCHANGED <<procVars, diskVars, cwd, cur, count, row, launched>>

(* One turn of the wait loop: count++, sleep 3, lsof.                      *)
Probe(o) ==
    /\ pc[o] = "wait"
    /\ count' = [count EXCEPT ![o] = @ + 1]
    /\ found' = [found EXCEPT ![o] = Lsof(cur[o])]
    /\ CASE Lsof(cur[o]) # {}             -> Goto(o, "record")
         [] /\ Lsof(cur[o]) = {}
            /\ count[o] + 1 > Limit[cur[o]] -> Goto(o, "giveup")
         [] OTHER                         -> UNCHANGED pc
    /\ UNCHANGED <<procVars, diskVars, cwd, cur, row, launched>>

(* The lines of a set of process numbers, in some order.                   *)
Lines(S) == {q \in [1..Cardinality(S) -> S] : {q[i] : i \in DOMAIN q} = S}

(* Seeded fault: the loop is left without the line in pid.log.             *)
RecordNothing(o) ==
    /\ pc[o] = "record"
    /\ IF cur[o] = N
       THEN Goto(o, "done") /\ UNCHANGED cur
       ELSE Goto(o, "launch") /\ cur' = [cur EXCEPT ![o] = @ + 1]
    /\ UNCHANGED <<procVars, diskVars, cwd, count, found, row, launched>>

(* Seeded fault: the last service is not known to be the last.             *)
RecordOverrun(o) ==
    /\ pc[o] = "record"
    /\ \E q \in Lines(found[o]) : pidlog' = pidlog \o q
    /\ Goto(o, "launch")
    /\ cur' = [cur EXCEPT ![o] = @ + 1]
    /\ found' = [found EXCEPT ![o] = {}]
    /\ UNCHANGED <<procVars, dir, cwd, count, row, launched>>

(* echo "$pids" >> pid.log, then the next service. pid.log is that of the  *)
(* working directory: outside the one that "Stop all" looks into the lines *)
(* go to a file that nothing reads, or, when it is stale, nowhere.         *)
Record(o) ==
    /\ pc[o] = "record"
    /\ IF cwd[o] = "stack"
       THEN \E q \in Lines(found[o]) : pidlog' = pidlog \o q
       ELSE UNCHANGED pidlog
    /\ IF cur[o] = N
       THEN Goto(o, "done") /\ UNCHANGED cur
       ELSE Goto(o, "launch") /\ cur' = [cur EXCEPT ![o] = @ + 1]
    /\ found' = [found EXCEPT ![o] = {}]
    /\ UNCHANGED <<procVars, dir, cwd, count, row, launched>>

(* SIGKILL to a set of processes: their sockets close.                     *)
Destroy(S) ==
    /\ stat' = [p \in Pids |-> IF p \in S THEN "gone" ELSE stat[p]]
    /\ listen' = [p \in Pids |-> IF p \in S THEN 0 ELSE listen[p]]
    /\ conn' = [p \in Pids |-> IF p \in S THEN 0 ELSE conn[p]]
    /\ UNCHANGED role

(* fuser -k -n tcp port, then exit: kills whoever has the port as its      *)
(* local port by now, and leaves what was started before.                  *)
GiveUp(o) ==
    /\ pc[o] = "giveup"
    /\ Destroy({p \in Pids : listen[p] = cur[o]})
    /\ Quit(o)
    /\ UNCHANGED diskVars

(* All services answered: the summary is printed and the script ends.      *)
Finish(o) ==
    /\ pc[o] = "done"
    /\ Quit(o)
    /\ UNCHANGED <<procVars, diskVars>>

-----------------------------------------------------------------------------
(* "Stop all" and "Clear".                                                 *)

(* Without the directory or without pid.log the script exits at once.      *)
StopAll(o) ==
    /\ pc[o] = "off"
    /\ dir
    /\ pidlog # <<>>
    /\ cwd' = [cwd EXCEPT ![o] = "stack"]
    /\ row' = [row EXCEPT ![o] = 1]
    /\ Goto(o, "kill")
    /\ UNCHANGED <<procVars, diskVars, cur, count, found, launched>>

HasLine(o) == cwd[o] = "stack" /\ row[o] <= Len(pidlog)

(* Seeded fault: the first line is skipped.                                *)
SignalTail(o) ==
    /\ pc[o] = "kill"
    /\ HasLine(o)
    /\ LET p == pidlog[row[o]] IN
         stat' = IF row[o] > 1 /\ Running(p) THEN [stat EXCEPT ![p] = "term"]
                                             ELSE stat
    /\ row' = [row EXCEPT ![o] = @ + 1]
    /\ UNCHANGED <<role, listen, conn, diskVars, pc, cwd, cur, count, found, launched>>

(* Seeded fault: $ROWNUM stays where it is.                                *)
SignalAgain(o) ==
    /\ pc[o] = "kill"
    /\ HasLine(o)
    /\ LET p == pidlog[row[o]] IN
         stat' = IF Running(p) THEN [stat EXCEPT ![p] = "term"] ELSE stat
    /\ UNCHANGED <<role, listen, conn, diskVars, shellVars>>

(* kill $port: SIGTERM to the process number in the next line, whatever    *)
(* process has that number now. The process keeps its sockets until it     *)
(* has shut down.                                                          *)
Signal(o) ==
    /\ pc[o] = "kill"
    /\ HasLine(o)
    /\ LET p == pidlog[row[o]] IN
         stat' = IF Running(p) THEN [stat EXCEPT ![p] = "term"] ELSE stat
    /\ row' = [row EXCEPT ![o] = @ + 1]
    /\ UNCHANGED <<role, listen, conn, diskVars, pc, cwd, cur, count, found, launched>>

(* sed prints nothing: the loop ends.                                      *)
LastLine(o) ==
    /\ pc[o] = "kill"
    /\ ~HasLine(o)
    /\ Goto(o, "unlog")
    /\ UNCHANGED <<procVars, diskVars, cwd, cur, count, found, row, launched>>

(* rm -f pid.log                                                           *)
Unlog(o) ==
    /\ pc[o] = "unlog"
    /\ pidlog' = IF cwd[o] = "stack" THEN <<>> ELSE pidlog
    /\ Quit(o)
    /\ UNCHANGED <<procVars, dir>>

(* rm -rf sample_to_run, whatever is running out of it. rm -f               *)
(* sample_to_run* takes the script itself along, which the operator then   *)
(* has to fetch again.                                                     *)
Clear(o) ==
    /\ pc[o] = "off"
    /\ dir' = FALSE
    /\ pidlog' = <<>>
    /\ Evict
    /\ UNCHANGED <<procVars, pc, cur, count, found, row, launched>>

-----------------------------------------------------------------------------
(* The processes.                                                          *)

(* A service has started and binds its port, at whatever time.             *)
Bind(p) ==
    /\ stat[p] = "boot"
    /\ \A q \in Pids : listen[q] # role[p]
    /\ stat' = [stat EXCEPT ![p] = "up"]
    /\ listen' = [listen EXCEPT ![p] = role[p]]
    /\ UNCHANGED <<role, conn, diskVars, shellVars>>

(* A process ends: one that was told to, one that could not start (its     *)
(* port is taken), or one that crashes.                                    *)
Exit(p) ==
    /\ stat[p] \in {"boot", "term"} \/ (stat[p] = "up" /\ "crash" \in Events)
    /\ Destroy({p})
    /\ UNCHANGED <<diskVars, shellVars>>

(* A process that is no part of the stack starts.                          *)
Spawn(p) ==
    /\ "visit" \in Events
    /\ stat[p] = "free"
    /\ stat' = [stat EXCEPT ![p] = "up"]
    /\ \E r \in {Visitor, Bystander} : role' = [role EXCEPT ![p] = r]
    /\ UNCHANGED <<listen, conn, diskVars, shellVars>>

(* A visitor takes a port of the stack, or a process connects to the port  *)
(* of that number, on this host or another: lsof tells neither apart.      *)
Visit(p, s) ==
    /\ "visit" \in Events
    /\ stat[p] = "up"
    /\ \/ /\ role[p] = Visitor /\ listen[p] = 0
          /\ \A q \in Pids : listen[q] # s
          /\ listen' = [listen EXCEPT ![p] = s]
          /\ UNCHANGED conn
       \/ /\ role[p] # Bystander /\ conn[p] = 0
          /\ conn' = [conn EXCEPT ![p] = s]
          /\ UNCHANGED listen
    /\ UNCHANGED <<stat, role, diskVars, shellVars>>

-----------------------------------------------------------------------------
(* The host.                                                               *)

(* The operator interrupts the script; what it put in the background runs  *)
(* on.                                                                     *)
Abort(o) ==
    /\ "abort" \in Events
    /\ pc[o] # "off"
    /\ Quit(o)
    /\ UNCHANGED <<procVars, diskVars>>

(* All processes and shells end, the disk stays, and process numbers are   *)
(* handed out from the start again.                                        *)
Reboot ==
    /\ "reboot" \in Events
    /\ stat' = [p \in Pids |-> "free"]
    /\ role' = [p \in Pids |-> Visitor]
    /\ listen' = [p \in Pids |-> 0]
    /\ conn' = [p \in Pids |-> 0]
    /\ pc' = [o \in Ops |-> "off"]
    /\ cwd' = [o \in Ops |-> "top"]
    /\ cur' = [o \in Ops |-> 1]
    /\ count' = [o \in Ops |-> 0]
    /\ found' = [o \in Ops |-> {}]
    /\ row' = [o \in Ops |-> 1]
    /\ launched' = [o \in Ops |-> FALSE]
    /\ UNCHANGED diskVars

(* What a running script does by itself.                                   *)
Step(o) ==
    \/ Provision(o) \/ Wipe(o) \/ Unpack(o) \/ Launch(o) \/ Probe(o)
    \/ Record(o) \/ GiveUp(o) \/ Finish(o)
    \/ Signal(o) \/ LastLine(o) \/ Unlog(o)

Next ==
    \/ \E o \in Ops : StartAll(o) \/ StopAll(o) \/ Clear(o) \/ Step(o) \/ Abort(o)
    \/ \E p \in Pids : Bind(p) \/ Exit(p) \/ Spawn(p)
    \/ \E p \in Pids, s \in Services : Visit(p, s)
    \/ Reboot

Spec == Init /\ [][Next]_vars

(* The commands of a running script return, and a process that received    *)
(* SIGTERM ends; nobody has to choose a menu entry and no service has to   *)
(* come up.                                                                *)
Fairness ==
    /\ \A o \in Ops : WF_vars(Step(o))
    /\ \A p \in Pids : WF_vars(stat[p] = "term" /\ Exit(p))

FairSpec == Spec /\ Fairness

-----------------------------------------------------------------------------
(* Properties.                                                             *)

(* A program that never touches a port of the stack is neither signalled   *)
(* by "Stop all" nor listed in pid.log, however many terminals run the     *)
(* script and whatever they interrupt (lines 205-209, 331-339). It needs   *)
(* that process numbers are not handed out twice while a pid.log lasts:    *)
(* "reboot" \notin Events.                                                 *)
QuietSpared ==
    \A p \in Pids : role[p] = Bystander => stat[p] # "term" /\ p \notin Logged

(* When "Start all" has gone past a service, pid.log lists a process that  *)
(* was launched as this service, so that a "Stop all" after any later      *)
(* failure or interruption reaches it (lines 205-209 to 278-282). The one  *)
(* start that goes past a service and lists nothing is one whose cd failed *)
(* (line 197): it has launched nothing either, and what lsof showed it is  *)
(* left over from an earlier start. Needs a single operator and nobody     *)
(* else on the ports.                                                      *)
GonePast(o, s) ==
    \/ pc[o] \in {"launch", "wait", "record", "giveup"} /\ s < cur[o]
    \/ pc[o] = "done"

RecordedPrefix ==
    \A o \in Ops, s \in Services : GonePast(o, s) =>
        \/ \E p \in Logged : role[p] = s
        \/ cwd[o] = "top" /\ ~launched[o]

(* The status check of lines 7-13 says "please stop all processes first":  *)
(* a start goes past it only when no process of the stack is running.      *)
StartsOnlyStopped ==
    \A o \in Ops : pc[o] = "provision" =>
        \A p \in Pids : role[p] \in Services => ~Running(p)

(* How far the script of o is from its end: the part of it, in the two     *)
(* loops the services or the lines that are left, and for a service the    *)
(* turns of its wait loop.                                                 *)
Parts == [off |-> 0, done |-> 1, unlog |-> 1, kill |-> 2, giveup |-> 2, record |-> 2,
          wait |-> 2, launch |-> 2, unpack |-> 3, wipe |-> 4, provision |-> 5]

PartsLeft(o) == Parts[pc[o]]
RoundsLeft(o) ==
    IF pc[o] = "kill" /\ HasLine(o) THEN Len(pidlog) - row[o] + 1
    ELSE IF pc[o] \in {"launch", "wait", "record", "giveup"} THEN N - cur[o]
    ELSE 0
TurnsLeft(o) ==
    IF pc[o] = "launch" THEN Limit[cur[o]] + 3
    ELSE IF pc[o] = "wait" THEN Limit[cur[o]] - count[o] + 2
    ELSE 0

Nearer(o) ==
    \/ PartsLeft(o)' < PartsLeft(o)
    \/ /\ PartsLeft(o)' = PartsLeft(o)
       /\ RoundsLeft(o)' \in 0..RoundsLeft(o) - 1
    \/ /\ PartsLeft(o)' = PartsLeft(o) /\ RoundsLeft(o)' = RoundsLeft(o)
       /\ TurnsLeft(o)' \in 0..TurnsLeft(o) - 1

AsFar(o) ==
    UNCHANGED <<PartsLeft(o), RoundsLeft(o), TurnsLeft(o)>>

(* Every command of a running script brings its end nearer, whatever the   *)
(* services do (lines 205-209, 331-339). Nothing else takes it further     *)
(* away again, other terminals, a wipe under its feet and a reboot         *)
(* included, but one: the start of another terminal that adds lines to     *)
(* the pid.log it is working through.                                      *)
ScriptAdvances ==
    [][\A o \in Ops : pc[o] # "off" =>
          /\ Step(o) => Nearer(o)
          /\ Len(pidlog') <= Len(pidlog) => Nearer(o) \/ AsFar(o)]_vars

(* Every choice of the menu comes to an end, whatever the services do: the *)
(* wait loops count, and the kill loop runs out of lines.                  *)
ScriptEnds == \A o \in Ops : pc[o] # "off" ~> pc[o] = "off"

(* One operator's script keeps the book that StackBook describes: nothing  *)
(* leaves pid.log while it runs, except that the operator clears it.       *)
Mode ==
    IF \A o \in Ops : pc[o] = "off" THEN "idle"
    ELSE IF \E o \in Ops : pc[o] \in {"kill", "unlog"} THEN "stopping"
    ELSE "starting"

Live == {p \in Pids : Running(p)}

Book == INSTANCE StackBook WITH mode <- Mode, book <- Logged, live <- Live

BookSpec == Book!Spec
=============================================================================
