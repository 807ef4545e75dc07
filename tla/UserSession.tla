---------------------------- MODULE UserSession ----------------------------
(***************************************************************************)
(* The login service of src/utils/api-test (controller/Proxy.java, lines   *)
(* 34 and 83-109): login, auth and logout read and write one static map,   *)
(* keyed by the id of the servlet container's session.                     *)
(*                                                                         *)
(* The session is the container's: it is created by the first request that *)
(* carries no valid cookie, lives until it expires, and its id reaches the *)
(* browser only with the answer. The map entry is the controller's: only a *)
(* logout or a restart removes it. Requests of one browser overlap.        *)
(***************************************************************************)
CONSTANTS
    Browsers,
    Users,    \* what a login body may name, "no user field" among them
    Reqs,     \* requests that may be in flight, numbered by connection
    Owner,    \* Owner[r]: the browser the connection belongs to
    Ids,      \* session ids the container may draw; none is drawn twice
    Empty,    \* no entry in the map
    NoCookie

ASSUME SessionAssumption ==
    /\ Owner \in [Reqs -> Browsers]
    /\ Empty \notin Users
    /\ NoCookie \notin Ids

Kinds   == {"login", "auth", "logout"}
Entries == Users \cup {Empty}
Cookies == Ids \cup {NoCookie}

(* A request: its stage, what it asks, the user a login names, the cookie  *)
(* it carries, request.getSession().getId(), and what auth answers.        *)
Requests == [st : {"idle", "sent", "bound", "served"}, kind : Kinds,
             body : Entries, cookie : Cookies, sid : Cookies, ans : Entries]

NoRequest == [st |-> "idle", kind |-> "auth", body |-> Empty,
              cookie |-> NoCookie, sid |-> NoCookie, ans |-> Empty]

VARIABLES
    session,  \* [Ids -> Entries] the static map
    alive,    \* SUBSET Ids, the container's sessions
    drawn,    \* SUBSET Ids, the ids the container has used so far
    cookie,   \* [Browsers -> Cookies] what the browser sends
    req,      \* [Reqs -> Requests] the requests in flight
    named     \* history: [Browsers -> SUBSET Users] users it logged in as

vars == <<session, alive, drawn, cookie, req, named>>

TypeOK ==
    /\ session \in [Ids -> Entries]
    /\ alive \in SUBSET Ids
    /\ drawn \in SUBSET Ids
    /\ cookie \in [Browsers -> Cookies]
    /\ req \in [Reqs -> Requests]
    /\ named \in [Browsers -> SUBSET Users]

Init ==
    /\ session = [i \in Ids |-> Empty]
    /\ alive = {}
    /\ drawn = {}
    /\ cookie = [b \in Browsers |-> NoCookie]
    /\ req = [r \in Reqs |-> NoRequest]
    /\ named = [b \in Browsers |-> {}]

(* The browser posts to /api/user/login, /auth or /logout. A login without *)
(* a body names nobody.                                                    *)
Send(r, k, u) ==
    /\ req[r].st = "idle"
    /\ req' = [req EXCEPT ![r] =
                  [NoRequest EXCEPT !.st = "sent", !.kind = k, !.body = u,
                                    !.cookie = cookie[Owner[r]]]]
    /\ named' = [named EXCEPT ![Owner[r]] = @ \cup ({u} \ {Empty})]
    /\ UNCHANGED <<session, alive, drawn, cookie>>

BindTo(r, i) == req' = [req EXCEPT ![r] = [@ EXCEPT !.st = "bound", !.sid = i]]

(* request.getSession(): the session of the cookie if it is alive, else a  *)
(* new one.                                                                *)
GetSession(r) ==
    /\ req[r].st = "sent"
    /\ IF req[r].cookie \in alive
       THEN BindTo(r, req[r].cookie) /\ UNCHANGED <<alive, drawn>>
       ELSE \E i \in Ids \ drawn :
              /\ BindTo(r, i)
              /\ alive' = alive \cup {i}
              /\ drawn' = drawn \cup {i}
    /\ UNCHANGED <<session, cookie, named>>

Bound(r, k) == req[r].st = "bound" /\ req[r].kind = k
Served(r, a) == req' = [req EXCEPT ![r] = [@ EXCEPT !.st = "served", !.ans = a]]

(* session.put(id, jsonNode)                                               *)
RegisterSession(r) ==
    /\ Bound(r, "login") /\ req[r].body # Empty
    /\ session' = [session EXCEPT ![req[r].sid] = req[r].body]
    /\ Served(r, Empty)
    /\ UNCHANGED <<alive, drawn, cookie, named>>

(* Seeded fault: the id is kept in a field of the controller, which all    *)
(* requests share.                                                         *)
UserAuthShared(r) ==
    /\ Bound(r, "auth")
    /\ \E q \in Reqs : req[q].st = "bound" /\ Served(r, session[req[q].sid])
    /\ UNCHANGED <<session, alive, drawn, cookie, named>>

(* session.get(id): {"rst":200, "user":...}, or an empty answer.           *)
UserAuth(r) ==
    /\ Bound(r, "auth")
    /\ Served(r, session[req[r].sid])
    /\ UNCHANGED <<session, alive, drawn, cookie, named>>

(* Seeded fault: the entry stays.                                          *)
SessionKept(r) ==
    /\ Bound(r, "logout")
    /\ Served(r, Empty)
    /\ UNCHANGED <<session, alive, drawn, cookie, named>>

(* session.remove(id); the container's session lives on.                   *)
SessionInvalidate(r) ==
    /\ Bound(r, "logout")
    /\ session' = [session EXCEPT ![req[r].sid] = Empty]
    /\ Served(r, Empty)
    /\ UNCHANGED <<alive, drawn, cookie, named>>

Over(r) == req' = [req EXCEPT ![r] = NoRequest]

(* No body: readTree gives null, which put refuses; the answer is an error.*)
Refused(r) == Bound(r, "login") /\ req[r].body = Empty

(* The answer arrives, with a Set-Cookie when the session is a new one:    *)
(* the browser keeps whichever arrives last.                               *)
Receive(r) ==
    /\ req[r].st = "served" \/ Refused(r)
    /\ cookie' = [cookie EXCEPT ![Owner[r]] =
                     IF req[r].sid # req[r].cookie THEN req[r].sid ELSE @]
    /\ Over(r)
    /\ UNCHANGED <<session, alive, drawn, named>>

(* The request or its answer is lost; or a login body is no JSON and       *)
(* readTree throws before there is a session.                              *)
Fail(r) ==
    /\ req[r].st # "idle"
    /\ Over(r)
    /\ UNCHANGED <<session, alive, drawn, cookie, named>>

(* The container ends an idle session; the map is not told.                *)
Expire(i) ==
    /\ i \in alive
    /\ alive' = alive \ {i}
    /\ UNCHANGED <<session, drawn, cookie, req, named>>

(* The application restarts: the map is gone and so are the requests; the  *)
(* container's sessions survive when devtools persists them.               *)
Restart ==
    /\ session' = [i \in Ids |-> Empty]
    /\ alive' \in {alive, {}}
    /\ req' = [r \in Reqs |-> NoRequest]
    /\ UNCHANGED <<drawn, cookie, named>>

Next ==
    \/ \E r \in Reqs, u \in Entries : Send(r, "login", u)
    \/ \E r \in Reqs, k \in {"auth", "logout"} : Send(r, k, Empty)
    \/ \E r \in Reqs : \/ GetSession(r) \/ RegisterSession(r) \/ UserAuth(r)
                       \/ SessionInvalidate(r) \/ Receive(r) \/ Fail(r)
    \/ \E i \in Ids : Expire(i)
    \/ Restart

Spec == Init /\ [][Next]_vars

-----------------------------------------------------------------------------
(* Properties.                                                             *)

(* Auth never answers a browser with a user that this browser did not log  *)
(* in as, however its requests overlap, whatever expires or restarts in    *)
(* between, and although the map keeps the entries of sessions that are    *)
(* long gone (lines 88, 95).                                               *)
OwnUser ==
    \A r \in Reqs : req[r].ans \in named[Owner[r]] \cup {Empty}

(* Who the service takes a browser for: the entry of the session that its  *)
(* request runs in, or else of the one that its cookie names.              *)
InService(b) == {r \in Reqs : Owner[r] = b /\ req[r].st \in {"bound", "served"}}

UserOf(b) ==
    IF InService(b) # {} THEN session[req[CHOOSE r \in InService(b) : TRUE].sid]
    ELSE IF cookie[b] \in alive THEN session[cookie[b]]
    ELSE Empty

Phase(r) ==
    CASE req[r].st = "idle"   -> "idle"
      [] req[r].st = "served" -> "answered"
      [] OTHER                -> "asked"

(* The connections of the browsers that wait for each answer.              *)
Waiting == {r \in Reqs : \A q \in Reqs : Owner[q] = Owner[r] => q = r}
Patient == {Owner[r] : r \in Waiting}

Seen == INSTANCE Identity WITH
    Browsers <- Patient,
    Reqs <- Waiting,
    user <- [b \in Patient |-> UserOf(b)],
    call <- [r \in Waiting |-> [phase |-> Phase(r), op |-> req[r].kind,
                               arg |-> req[r].body, res |-> req[r].ans]]

(* A browser that waits for each answer sees the service of Identity, the  *)
(* user it last logged in as, or nobody, whatever the others do (lines     *)
(* 83-109). With overlapping first requests the last Set-Cookie wins and   *)
(* may undo a login that was answered.                                     *)
SeenSpec == Seen!Spec
=============================================================================
