--------------------------- MODULE MCSampleShell ---------------------------
(* TLC's instances of SampleShell.                                         *)
EXTENDS SampleShell, TLC

(* The loop of the last service waits longer, as in the script.            *)
MCLimit == [s \in 1..N |-> IF s = N THEN 1 ELSE 0]

(* One look for each service.                                              *)
PairLimit == [s \in 1..N |-> 0]

(* One operator who may interrupt, on a host that may reboot.              *)
SoloEvents == {"abort", "crash", "reboot"}

(* Two operators on a host with other users of the ports.                  *)
PairEvents == {"abort", "visit"}

NoEvents == {}

(* pid.log grows without bound only when several operators start at once.  *)
MaxLog == 2
LogBound == Len(pidlog) <= MaxLog

Symmetry == Permutations(Pids) \cup Permutations(Ops)
=============================================================================
