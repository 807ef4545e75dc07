------------------------------ MODULE Identity ------------------------------
(***************************************************************************)
(* What the login service of src/utils/api-test promises to a browser that *)
(* waits for each answer: the service takes it for the user it last logged *)
(* in as, or for nobody; it may forget a user at any time, and never takes *)
(* a browser for somebody else.                                            *)
(***************************************************************************)
CONSTANTS Browsers, Users, Reqs, Owner, Empty

VARIABLES
    user,   \* [Browsers -> Users \cup {Empty}] who the service takes it for
    call    \* [Reqs -> NoCall or a call] what each connection is doing

idVars == <<user, call>>

NoCall == [phase |-> "idle", op |-> "auth", arg |-> Empty, res |-> Empty]

Init ==
    /\ user = [b \in Browsers |-> Empty]
    /\ call = [r \in Reqs |-> NoCall]

Ask(r, k, u) ==
    /\ call[r] = NoCall
    /\ call' = [call EXCEPT ![r] =
                   [phase |-> "asked", op |-> k, arg |-> u, res |-> Empty]]
    /\ UNCHANGED user

(* A login or a logout takes effect; a login that names nobody may.        *)
Change(r) ==
    /\ call[r].phase = "asked" /\ call[r].op # "auth"
    /\ call' = [call EXCEPT ![r].phase = "answered"]
    /\ user' = [user EXCEPT ![Owner[r]] =
                   IF call[r].op = "login" THEN call[r].arg ELSE Empty]

(* An auth is answered with the user of this moment.                       *)
Tell(r) ==
    /\ call[r].phase = "asked" /\ call[r].op = "auth"
    /\ call' = [call EXCEPT ![r] = [phase |-> "answered", op |-> "auth", arg |-> @.arg,
                                    res |-> user[Owner[r]]]]
    /\ UNCHANGED user

(* The call is over, with or without its answer; either way the service    *)
(* may have forgotten who the browser is.                                  *)
End(r) ==
    /\ call[r].phase # "idle"
    /\ call' = [call EXCEPT ![r] = NoCall]
    /\ \/ UNCHANGED user
       \/ user' = [user EXCEPT ![Owner[r]] = Empty]

Forget(b) ==
    /\ user' = [user EXCEPT ![b] = Empty]
    /\ UNCHANGED call

(* The service restarts.                                                   *)
ForgetAll ==
    /\ user' = [b \in Browsers |-> Empty]
    /\ call' = [r \in Reqs |-> NoCall]

Next ==
    \/ \E r \in Reqs : Change(r) \/ Tell(r) \/ End(r)
    \/ \E r \in Reqs, u \in Users \cup {Empty} : Ask(r, "login", u)
    \/ \E r \in Reqs, k \in {"auth", "logout"} : Ask(r, k, Empty)
    \/ \E b \in Browsers : Forget(b)
    \/ ForgetAll

Spec == Init /\ [][Next]_idVars
=============================================================================
