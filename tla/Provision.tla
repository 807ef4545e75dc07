----------------------------- MODULE Provision -----------------------------
(***************************************************************************)
(* The first half of "Start all" in src/utils/sample-shell/sample_to_run.sh *)
(* (lines 15-189): one loop per prerequisite that installs it and tries    *)
(* again, the database and its user, the configuration of redis, and the   *)
(* download of the two parts of the archive. SampleShell takes all of it   *)
(* as one step that ends in "wipe" (here "ready") or in an exit.           *)
(*                                                                         *)
(* The host remembers what a run did: an interrupted or failed run is      *)
(* followed by one that finds some prerequisites there already.            *)
(***************************************************************************)
EXTENDS Integers

CONSTANT MaxTries   \* a loop exits once $count > MaxTries; the script has 3

ASSUME TriesAssumption == MaxTries \in Nat \ {0}

Tools == {"jdk", "mysql", "redis", "unrar"}

(* What comes after the loop of a tool.                                    *)
After == [jdk |-> "mysql", mysql |-> "database", redis |-> "unrar",
          unrar |-> "clean"]

Labels == Tools \cup {"idle", "database", "user", "conf", "clean", "parts", "ready"}

VARIABLES
    have,   \* SUBSET Tools, what is installed on the host
    made,   \* SUBSET {"database", "user"}, what exists in mysql
    redis,  \* {"default", "lost", "conf", "password"} how far it is configured
    part,   \* [1..2 -> Nat] the try that fetched the part, 0 when absent
    pc,     \* where the script is, "idle" when it does not run
    count,  \* $count of the loop
    had     \* whether line 95 found a redis that was there before

hostVars == <<have, made, redis, part>>
vars == <<hostVars, pc, count, had>>

TypeOK ==
    /\ have \in SUBSET Tools
    /\ made \in SUBSET {"database", "user"}
    /\ redis \in {"default", "lost", "conf", "password"}
    /\ part \in [1..2 -> 0..MaxTries]
    /\ pc \in Labels
    /\ count \in 0..MaxTries
    /\ had \in BOOLEAN

(* A host with any of the tools, redis as it comes out of the package.     *)
Init ==
    /\ have \in SUBSET Tools
    /\ made = {}
    /\ redis = "default"
    /\ part = [i \in 1..2 |-> 0]
    /\ pc = "idle" /\ count = 0 /\ had = FALSE

(* The script goes to another loop, with $count at zero.                   *)
Enter(l) == pc' = l /\ count' = 0

(* "Start all", once no pid.log is in its way.                             *)
Start ==
    /\ pc = "idle"
    /\ Enter("jdk")
    /\ had' = FALSE
    /\ UNCHANGED hostVars

(* The version check finds the tool: the loop is skipped or left. The      *)
(* first check of redis is the one that decides whether the loop runs.     *)
Present(t) ==
    /\ pc = t
    /\ t \in have
    /\ Enter(After[t])
    /\ had' = IF t = "redis" /\ count = 0 THEN TRUE ELSE had
    /\ UNCHANGED hostVars

(* Seeded fault: the turn after the last leaves the loop, not the script.  *)
OutOfTriesGoOn(t) ==
    /\ pc = t
    /\ t \notin have
    /\ count + 1 > MaxTries
    /\ Enter(After[t])
    /\ UNCHANGED <<hostVars, had>>

(* count > MaxTries: "stop trying", exit.                                  *)
OutOfTries(t) ==
    /\ pc = t
    /\ t \notin have
    /\ count + 1 > MaxTries
    /\ Enter("idle")
    /\ UNCHANGED <<hostVars, had>>

(* One turn: apt-get, which may fail, and the version check again. Only    *)
(* the turn that installed redis goes on to configure it.                  *)
Install(t) ==
    /\ pc = t
    /\ t \notin have
    /\ count + 1 <= MaxTries
    /\ count' = count + 1
    /\ \/ UNCHANGED <<have, pc>>
       \/ have' = have \cup {t} /\ pc' = (IF t = "redis" THEN "conf" ELSE pc)
    /\ UNCHANGED <<made, redis, part, had>>

(* SHOW DATABASES and CREATE SCHEMA, then SELECT user, CREATE USER and     *)
(* GRANT. Nobody looks at whether they succeed.                            *)
MakeInMysql(l, next) ==
    /\ pc = l
    /\ made' \in {made, made \cup {l}}
    /\ Enter(next)
    /\ UNCHANGED <<have, redis, part, had>>

(* Seeded fault: a redis.conf that did not arrive is not noticed.          *)
ConfigureAnyway ==
    /\ pc = "conf"
    /\ redis' \in {"default", "lost", "conf", "password"}
    /\ pc' = "redis"
    /\ UNCHANGED <<have, made, part, count, had>>

(* wget redis.conf: exit when it did not arrive. Else it replaces          *)
(* /etc/redis/redis.conf, redis restarts, and "config set requirepass" is  *)
(* sent, none of them with a look at the outcome: when the old file cannot *)
(* be removed, the new one cannot be moved or redis does not restart, the  *)
(* file that arrived is not in force ("lost") and the run goes on.         *)
Configure ==
    /\ pc = "conf"
    /\ \/ redis' \in {"lost", "conf", "password"} /\ pc' = "redis" /\ UNCHANGED count
       \/ UNCHANGED redis /\ Enter("idle")
    /\ UNCHANGED <<have, made, part, had>>

(* rm -f sample_to_run.part*                                               *)
CleanParts ==
    /\ pc = "clean"
    /\ part' = [i \in 1..2 |-> 0]
    /\ Enter("parts")
    /\ UNCHANGED <<have, made, redis, had>>

HasParts == \A i \in 1..2 : part[i] # 0

(* Seeded fault: a turn does not remove what the turn before it fetched.   *)
FetchMissing ==
    /\ pc = "parts" /\ ~HasParts
    /\ count + 1 <= MaxTries
    /\ count' = count + 1
    /\ \E S \in SUBSET (1..2) :
          part' = [i \in 1..2 |-> IF i \in S /\ part[i] = 0 THEN count + 1 ELSE part[i]]
    /\ UNCHANGED <<have, made, redis, pc, had>>

(* Seeded fault: the turns are not counted.                                *)
FetchUncounted ==
    /\ pc = "parts" /\ ~HasParts
    /\ count + 1 <= MaxTries
    /\ \E S \in SUBSET (1..2) :
          part' = [i \in 1..2 |-> IF i \in S THEN count + 1 ELSE 0]
    /\ UNCHANGED <<have, made, redis, pc, count, had>>

(* One turn: remove the parts, fetch both. ls sees names: a truncated file *)
(* counts as a part.                                                       *)
Fetch ==
    /\ pc = "parts" /\ ~HasParts
    /\ count + 1 <= MaxTries
    /\ count' = count + 1
    /\ \E S \in SUBSET (1..2) :
          part' = [i \in 1..2 |-> IF i \in S THEN count + 1 ELSE 0]
    /\ UNCHANGED <<have, made, redis, pc, had>>

FetchGivesUp ==
    /\ pc = "parts" /\ ~HasParts
    /\ count + 1 > MaxTries
    /\ Enter("idle")
    /\ UNCHANGED <<hostVars, had>>

Ready ==
    /\ pc = "parts" /\ HasParts
    /\ pc' = "ready"
    /\ UNCHANGED <<hostVars, count, had>>

(* The rest of "Start all", which SampleShell models.                      *)
HandOver ==
    /\ pc = "ready"
    /\ Enter("idle")
    /\ UNCHANGED <<hostVars, had>>

(* "Clear": rm -f sample_to_run* takes the parts with it.                  *)
Clear ==
    /\ pc = "idle"
    /\ part' = [i \in 1..2 |-> 0]
    /\ UNCHANGED <<have, made, redis, pc, count, had>>

(* The operator interrupts the script, or the host goes down.              *)
Interrupt ==
    /\ pc # "idle"
    /\ Enter("idle")
    /\ UNCHANGED <<hostVars, had>>

Step ==
    \/ \E t \in Tools : Present(t) \/ OutOfTries(t) \/ Install(t)
    \/ MakeInMysql("database", "user") \/ MakeInMysql("user", "redis")
    \/ Configure \/ CleanParts \/ Fetch \/ FetchGivesUp \/ Ready \/ HandOver

Next == Start \/ Clear \/ Interrupt \/ Step

Spec == Init /\ [][Next]_vars

(* apt-get, wget and mysql return, with or without success.                *)
FairSpec == Spec /\ WF_vars(Step)

-----------------------------------------------------------------------------
(* Properties.                                                             *)

(* The tools whose loop lies before a label.                               *)
Passed ==
    CASE pc \in {"idle", "jdk"}                   -> {}
      [] pc = "mysql"                             -> {"jdk"}
      [] pc \in {"database", "user", "redis"}     -> {"jdk", "mysql"}
      [] pc \in {"conf", "unrar"}                 -> {"jdk", "mysql", "redis"}
      [] OTHER                                    -> Tools

(* The script never goes past the loop of a tool without the tool, however *)
(* its tries fail: the loops end in an installed tool or an exit (lines    *)
(* 18-40, 44-69, 96-138, 142-163).                                         *)
ToolsReady == Passed \subseteq have

(* The archive is unpacked from two parts that one try of this run fetched *)
(* together, never from a mix of tries or runs (lines 165-189).            *)
PartsOfOneTry ==
    pc = "ready" => count > 0 /\ \A i \in 1..2 : part[i] = count

(* A run that installs redis goes on only when redis.conf arrived and the  *)
(* commands that put it in force were run, or it exits (lines 124-137);    *)
(* their own failures nobody notices. A redis that was there before is not *)
(* touched: one that an interrupted run installed stays with the package's *)
(* defaults in every later run.                                            *)
RedisConfigured ==
    pc \in {"unrar", "clean", "parts", "ready"} /\ ~had => redis # "default"

(* How far a run is from its end at most: the loops that are left, with    *)
(* two steps for each try, the second one for redis.conf.                  *)
Loops == [jdk |-> 9, mysql |-> 8, database |-> 7, user |-> 6, redis |-> 5, conf |-> 5,
          unrar |-> 4, clean |-> 3, parts |-> 2, ready |-> 1, idle |-> 0]
StepsLeft ==
    Loops[pc] * (2 * MaxTries + 2) + 2 * (MaxTries - count) + (IF pc = "conf" THEN 1 ELSE 0)

(* Whatever fails and in whatever order, no step of a run leaves it as far *)
(* from its end as it was, an interrupt included: the tries are counted in *)
(* every loop, and $count is at zero again only in a later one (lines 18,  *)
(* 44, 96, 142, 167).                                                      *)
RunAdvances == [][pc # "idle" => StepsLeft' \in 0..StepsLeft - 1]_vars

(* A run comes to an end, whatever fails.                                  *)
RunEnds == pc # "idle" ~> pc = "idle"
=============================================================================
