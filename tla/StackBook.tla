----------------------------- MODULE StackBook -----------------------------
(***************************************************************************)
(* What "Start all" and "Stop all" of sample_to_run.sh promise together,   *)
(* without the loops, the ports and the files that carry the promise out:  *)
(* there is a book of processes; a start only ever adds to it, a stop      *)
(* closes it, and a stop closes it only when none of the processes in it   *)
(* is left running.                                                        *)
(***************************************************************************)
CONSTANT Pids

VARIABLES
    mode,   \* {"idle", "starting", "stopping"} what the operator is doing
    book,   \* SUBSET Pids, the processes a stop has to end
    live    \* SUBSET Pids, the processes nobody has told to end

bookVars == <<mode, book, live>>

Init == mode = "idle" /\ book = {} /\ live = {}

BeginStart ==
    /\ mode = "idle" /\ book = {}
    /\ mode' = "starting"
    /\ UNCHANGED <<book, live>>

Enter(S) ==
    /\ mode = "starting"
    /\ book' = book \cup S
    /\ UNCHANGED <<mode, live>>

BeginStop ==
    /\ mode = "idle" /\ book # {}
    /\ mode' = "stopping"
    /\ UNCHANGED <<book, live>>

(* The end of a successful stop.                                           *)
Retire ==
    /\ mode = "stopping"
    /\ book \cap live = {}
    /\ mode' = "idle" /\ book' = {}
    /\ UNCHANGED live

(* A start ends, or either is interrupted: the book stays as it is.        *)
Leave ==
    /\ mode # "idle"
    /\ mode' = "idle"
    /\ live' \in SUBSET live
    /\ UNCHANGED book

(* The operator deletes the book on purpose.                               *)
Discard ==
    /\ mode = "idle"
    /\ book' = {}
    /\ UNCHANGED <<mode, live>>

Arrive(p) ==
    /\ live' = live \cup {p}
    /\ UNCHANGED <<mode, book>>

Depart ==
    /\ live' \in SUBSET live
    /\ UNCHANGED <<mode, book>>

Next ==
    \/ BeginStart \/ BeginStop \/ Retire \/ Leave \/ Discard \/ Depart
    \/ \E S \in SUBSET Pids : Enter(S)
    \/ \E p \in Pids : Arrive(p)

Spec == Init /\ [][Next]_bookVars
=============================================================================
