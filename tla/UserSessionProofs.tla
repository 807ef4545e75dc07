------------------------- MODULE UserSessionProofs -------------------------
(***************************************************************************)
(* Proofs about UserSession, for any browsers, connections and ids.        *)
(***************************************************************************)
EXTENDS UserSession, TLAPS

(* The ids a browser may cause to be looked up: that of its cookie, and    *)
(* those of its requests.                                                  *)
Holds(b, i) ==
    \/ cookie[b] = i
    \/ \E r \in Reqs : Owner[r] = b /\ (req[r].cookie = i \/ req[r].sid = i)

(* No id is held by two browsers, because none is drawn twice; so what the *)
(* map has under an id was put there by the one browser that holds it.     *)
OwnInv ==
    /\ TypeOK
    /\ alive \subseteq drawn
    /\ \A b \in Browsers, i \in Ids : Holds(b, i) => i \in drawn
    /\ \A b, c \in Browsers, i \in Ids : Holds(b, i) /\ Holds(c, i) => b = c
    /\ \A b \in Browsers, i \in Ids : Holds(b, i) => session[i] \in named[b] \cup {Empty}
    /\ \A i \in Ids : i \notin drawn => session[i] = Empty
    /\ \A r \in Reqs : req[r].body \in named[Owner[r]] \cup {Empty}
    /\ \A r \in Reqs : req[r].st \in {"bound", "served"} => req[r].sid \in Ids
    /\ OwnUser

LEMMA NoRequestType == NoRequest \in Requests
  BY DEF NoRequest, Requests, Kinds, Entries, Cookies

LEMMA OwnInvInit == Init => OwnInv
<1> SUFFICES ASSUME Init PROVE OwnInv
  OBVIOUS
<1>1. TypeOK
  BY NoRequestType DEF Init, TypeOK, Entries, Cookies
<1>2. \A b \in Browsers, i \in Ids : ~Holds(b, i)
  BY SessionAssumption DEF Init, Holds, NoRequest
<1> QED
  BY <1>1, <1>2 DEF Init, OwnInv, OwnUser, NoRequest

(* A step that gives no browser an id it did not hold, takes no user off a *)
(* browser's list and puts nothing new into the map.                       *)
LEMMA OwnKept ==
    ASSUME OwnInv, TypeOK', UNCHANGED drawn, alive' \subseteq drawn,
           \A i \in Ids : session'[i] \in {session[i], Empty},
           \A b \in Browsers : named[b] \subseteq named'[b],
           \A b \in Browsers, i \in Ids : Holds(b, i)' => Holds(b, i),
           \A r \in Reqs :
              /\ req'[r].body \in named'[Owner[r]] \cup {Empty}
              /\ req'[r].ans \in named'[Owner[r]] \cup {Empty}
              /\ req'[r].st \in {"bound", "served"} => req'[r].sid \in Ids
    PROVE  OwnInv'
<1>1. \A b \in Browsers, i \in Ids : Holds(b, i)' =>
         session'[i] \in named'[b] \cup {Empty}
  BY DEF OwnInv
<1>2. \A i \in Ids : i \notin drawn' => session'[i] = Empty
  BY DEF OwnInv
<1> QED
  BY <1>1, <1>2 DEF OwnInv, OwnUser

(* What becomes of the requests when one of them changes.                  *)
LEMMA ReqUpdate ==
    ASSUME TypeOK, NEW r \in Reqs, NEW v \in Requests,
           req' = [req EXCEPT ![r] = v]
    PROVE  /\ req' \in [Reqs -> Requests]
           /\ req'[r] = v
           /\ \A q \in Reqs : q # r => req'[q] = req[q]
  BY DEF TypeOK

LEMMA OwnInvStep == OwnInv /\ [Next]_vars => OwnInv'
<1> SUFFICES ASSUME OwnInv, [Next]_vars PROVE OwnInv'
  OBVIOUS
<1>t. TypeOK
  BY DEF OwnInv
<1>o. \A r \in Reqs : Owner[r] \in Browsers /\ req[r] \in Requests
  BY <1>t, SessionAssumption DEF TypeOK
<1>1. ASSUME NEW r \in Reqs, NEW k \in Kinds, NEW u \in Entries, Send(r, k, u)
      PROVE  OwnInv'
  <2> DEFINE v == [NoRequest EXCEPT !.st = "sent", !.kind = k, !.body = u,
                                    !.cookie = cookie[Owner[r]]]
  <2>1. /\ v \in Requests /\ v.st = "sent" /\ v.body = u /\ v.ans = Empty
        /\ v.cookie = cookie[Owner[r]] /\ v.sid = NoCookie
    BY <1>o, <1>t DEF TypeOK, NoRequest, Requests, Kinds, Entries, Cookies
  <2>2. /\ req' = [req EXCEPT ![r] = v]
        /\ named' = [named EXCEPT ![Owner[r]] = @ \cup ({u} \ {Empty})]
        /\ UNCHANGED <<session, alive, drawn, cookie>>
    BY <1>1 DEF Send
  <2> HIDE DEF v
  <2>3. /\ req' \in [Reqs -> Requests] /\ req'[r] = v
        /\ \A q \in Reqs : q # r => req'[q] = req[q]
    BY <1>t, <2>1, <2>2, ReqUpdate
  <2>4. /\ named' \in [Browsers -> SUBSET Users]
        /\ \A b \in Browsers : named[b] \subseteq named'[b]
        /\ u \in named'[Owner[r]] \cup {Empty}
    BY <1>o, <1>t, <2>2 DEF TypeOK, Entries
  <2>5. TypeOK'
    BY <1>t, <2>2, <2>3, <2>4 DEF TypeOK
  <2>6. \A b \in Browsers, i \in Ids : Holds(b, i)' => Holds(b, i)
    BY <2>1, <2>2, <2>3, SessionAssumption DEF Holds
  <2>7. \A q \in Reqs :
           /\ req'[q].body \in named'[Owner[q]] \cup {Empty}
           /\ req'[q].ans \in named'[Owner[q]] \cup {Empty}
           /\ req'[q].st \in {"bound", "served"} => req'[q].sid \in Ids
    BY <1>o, <2>1, <2>3, <2>4 DEF OwnInv, OwnUser
  <2> QED
    BY <2>2, <2>4, <2>5, <2>6, <2>7, OwnKept DEF OwnInv
<1>2. ASSUME NEW r \in Reqs, GetSession(r) PROVE OwnInv'
  <2>1. PICK i \in Ids :
           /\ req' = [req EXCEPT ![r] = [req[r] EXCEPT !.st = "bound", !.sid = i]]
           /\ \/ i = req[r].cookie /\ i \in alive /\ UNCHANGED <<alive, drawn>>
              \/ i \notin drawn /\ alive' = alive \cup {i} /\ drawn' = drawn \cup {i}
    BY <1>2, <1>t DEF GetSession, BindTo, TypeOK
  <2> DEFINE v == [req[r] EXCEPT !.st = "bound", !.sid = i]
  <2>2. /\ v \in Requests /\ v.st = "bound" /\ v.sid = i /\ v.body = req[r].body
        /\ v.ans = req[r].ans /\ v.cookie = req[r].cookie
    BY <1>o DEF Requests, Cookies
  <2>3. req' = [req EXCEPT ![r] = v] /\ UNCHANGED <<session, cookie, named>>
    BY <1>2, <2>1 DEF GetSession
  <2> HIDE DEF v
  <2>4. /\ req' \in [Reqs -> Requests] /\ req'[r] = v
        /\ \A q \in Reqs : q # r => req'[q] = req[q]
    BY <1>t, <2>2, <2>3, ReqUpdate
  <2>5. TypeOK'
    BY <1>t, <2>1, <2>3, <2>4 DEF TypeOK
  <2>6. \A b \in Browsers, j \in Ids :
           Holds(b, j)' => Holds(b, j) \/ (b = Owner[r] /\ j = i)
    BY <2>2, <2>3, <2>4 DEF Holds
  <2>7. \A q \in Reqs :
           /\ req'[q].body \in named'[Owner[q]] \cup {Empty}
           /\ req'[q].ans \in named'[Owner[q]] \cup {Empty}
           /\ req'[q].st \in {"bound", "served"} => req'[q].sid \in Ids
    BY <2>2, <2>3, <2>4 DEF OwnInv, OwnUser
  <2>8. CASE i = req[r].cookie /\ i \in alive /\ UNCHANGED <<alive, drawn>>
    <3>1. Holds(Owner[r], i)
      BY <2>8 DEF Holds
    <3>2. \A b \in Browsers, j \in Ids : Holds(b, j)' => Holds(b, j)
      BY <2>6, <3>1
    <3> QED
      BY <2>3, <2>5, <2>7, <2>8, <3>2, OwnKept DEF OwnInv
  <2>9. CASE i \notin drawn /\ alive' = alive \cup {i} /\ drawn' = drawn \cup {i}
    <3>1. \A b \in Browsers : ~Holds(b, i)
      BY <2>9 DEF OwnInv
    <3>2. session[i] = Empty
      BY <2>9 DEF OwnInv
    <3>3. \A b, c \in Browsers, j \in Ids : Holds(b, j)' /\ Holds(c, j)' => b = c
      BY <2>6, <3>1 DEF OwnInv
    <3>4. \A b \in Browsers, j \in Ids : Holds(b, j)' => j \in drawn'
      BY <2>6, <2>9 DEF OwnInv
    <3>5. \A b \in Browsers, j \in Ids :
             Holds(b, j)' => session'[j] \in named'[b] \cup {Empty}
      BY <2>3, <2>6, <3>2 DEF OwnInv
    <3>6. alive' \subseteq drawn' /\ \A j \in Ids : j \notin drawn' => session'[j] = Empty
      BY <2>3, <2>9 DEF OwnInv
    <3> QED
      BY <2>5, <2>7, <3>3, <3>4, <3>5, <3>6 DEF OwnInv, OwnUser
  <2> QED
    BY <2>1, <2>8, <2>9
<1>3. ASSUME NEW r \in Reqs, NEW a \in Entries, Served(r, a),
             req[r].st = "bound", a \in named[Owner[r]] \cup {Empty},
             UNCHANGED <<alive, drawn, cookie, named>>,
             session' \in [Ids -> Entries],
             \A i \in Ids : \/ session'[i] \in {session[i], Empty}
                            \/ i = req[r].sid /\ session'[i] = req[r].body
      PROVE  OwnInv'
  <2> DEFINE v == [req[r] EXCEPT !.st = "served", !.ans = a]
  <2>1. /\ v \in Requests /\ v.st = "served" /\ v.sid = req[r].sid
        /\ v.body = req[r].body /\ v.ans = a /\ v.cookie = req[r].cookie
    BY <1>o DEF Requests
  <2>2. req' = [req EXCEPT ![r] = v]
    BY <1>3 DEF Served
  <2> HIDE DEF v
  <2>3. /\ req' \in [Reqs -> Requests] /\ req'[r] = v
        /\ \A q \in Reqs : q # r => req'[q] = req[q]
    BY <1>t, <2>1, <2>2, ReqUpdate
  <2>4. TypeOK'
    BY <1>3, <1>t, <2>3 DEF TypeOK
  <2>5. \A b \in Browsers, i \in Ids : Holds(b, i)' => Holds(b, i)
    BY <1>3, <2>1, <2>3 DEF Holds
  <2>6. req[r].sid \in Ids /\ Holds(Owner[r], req[r].sid)
    BY <1>3 DEF OwnInv, Holds
  <2>7. \A b \in Browsers, i \in Ids :
           Holds(b, i)' => session'[i] \in named'[b] \cup {Empty}
    <3> SUFFICES ASSUME NEW b \in Browsers, NEW i \in Ids, Holds(b, i)
                 PROVE  session'[i] \in named[b] \cup {Empty}
      BY <1>3, <2>5
    <3>1. CASE session'[i] \in {session[i], Empty}
      BY <3>1 DEF OwnInv
    <3>2. CASE i = req[r].sid /\ session'[i] = req[r].body
      <4>1. b = Owner[r]
        BY <1>o, <2>6, <3>2 DEF OwnInv
      <4> QED
        BY <3>2, <4>1 DEF OwnInv
    <3> QED
      BY <1>3, <3>1, <3>2
  <2>8. \A i \in Ids : i \notin drawn' => session'[i] = Empty
    BY <1>3, <1>o, <2>6 DEF OwnInv
  <2>9. \A q \in Reqs :
           /\ req'[q].body \in named'[Owner[q]] \cup {Empty}
           /\ req'[q].ans \in named'[Owner[q]] \cup {Empty}
           /\ req'[q].st \in {"bound", "served"} => req'[q].sid \in Ids
    BY <1>3, <2>1, <2>3, <2>6 DEF OwnInv, OwnUser
  <2> QED
    BY <1>3, <2>4, <2>5, <2>7, <2>8, <2>9 DEF OwnInv, OwnUser
<1>4. ASSUME NEW r \in Reqs, RegisterSession(r) PROVE OwnInv'
  <2>1. req[r].sid \in Ids /\ req[r].body \in Entries
    BY <1>4, <1>o DEF RegisterSession, Bound, OwnInv, Requests
  <2>2. /\ session' \in [Ids -> Entries]
        /\ \A i \in Ids : \/ session'[i] = session[i]
                          \/ i = req[r].sid /\ session'[i] = req[r].body
    BY <1>4, <1>t, <2>1 DEF RegisterSession, TypeOK
  <2> QED
    BY <1>3, <1>4, <2>2 DEF RegisterSession, Bound, Entries
<1>5. ASSUME NEW r \in Reqs, UserAuth(r) PROVE OwnInv'
  <2>1. req[r].sid \in Ids /\ Holds(Owner[r], req[r].sid)
    BY <1>5 DEF UserAuth, Bound, OwnInv, Holds
  <2>2. session[req[r].sid] \in named[Owner[r]] \cup {Empty}
    BY <1>o, <2>1 DEF OwnInv
  <2>3. session[req[r].sid] \in Entries /\ session \in [Ids -> Entries]
    BY <1>t, <2>1 DEF TypeOK
  <2> QED
    BY <1>3, <1>5, <2>2, <2>3 DEF UserAuth, Bound
<1>6. ASSUME NEW r \in Reqs, SessionInvalidate(r) PROVE OwnInv'
  <2>1. /\ session' \in [Ids -> Entries]
        /\ \A i \in Ids : session'[i] \in {session[i], Empty}
    BY <1>6, <1>t DEF SessionInvalidate, TypeOK, Entries
  <2> QED
    BY <1>3, <1>6, <2>1 DEF SessionInvalidate, Bound, Entries
<1>7. ASSUME NEW r \in Reqs, Receive(r) \/ Fail(r) PROVE OwnInv'
  <2>1. /\ req' = [req EXCEPT ![r] = NoRequest]
        /\ UNCHANGED <<session, alive, drawn, named>>
    BY <1>7 DEF Receive, Fail, Over
  <2>2. /\ req' \in [Reqs -> Requests] /\ req'[r] = NoRequest
        /\ \A q \in Reqs : q # r => req'[q] = req[q]
    BY <1>t, <2>1, NoRequestType, ReqUpdate
  <2>3. /\ cookie' \in [Browsers -> Cookies]
        /\ \A b \in Browsers : \/ cookie'[b] = cookie[b]
                               \/ b = Owner[r] /\ cookie'[b] = req[r].sid
    BY <1>7, <1>o, <1>t DEF Receive, Fail, TypeOK, Requests
  <2>4. TypeOK'
    BY <1>t, <2>1, <2>2, <2>3 DEF TypeOK
  <2>5. \A b \in Browsers, i \in Ids : Holds(b, i)' => Holds(b, i)
    BY <2>2, <2>3, SessionAssumption DEF Holds, NoRequest
  <2>6. \A q \in Reqs :
           /\ req'[q].body \in named'[Owner[q]] \cup {Empty}
           /\ req'[q].ans \in named'[Owner[q]] \cup {Empty}
           /\ req'[q].st \in {"bound", "served"} => req'[q].sid \in Ids
    BY <2>1, <2>2 DEF OwnInv, OwnUser, NoRequest
  <2> QED
    BY <2>1, <2>4, <2>5, <2>6, OwnKept DEF OwnInv
<1>8. ASSUME NEW i \in Ids, Expire(i) PROVE OwnInv'
  <2>1. TypeOK'
    BY <1>8, <1>t DEF Expire, TypeOK
  <2> QED
    BY <1>8, <2>1, OwnKept DEF Expire, OwnInv, OwnUser, Holds
<1>9. ASSUME Restart PROVE OwnInv'
  <2>1. req' = [r \in Reqs |-> NoRequest] /\ UNCHANGED <<drawn, cookie, named>>
    BY <1>9 DEF Restart
  <2>2. TypeOK'
    BY <1>9, <1>t, NoRequestType DEF Restart, TypeOK, Entries
  <2>3. \A b \in Browsers, i \in Ids : Holds(b, i)' => Holds(b, i)
    BY <2>1, SessionAssumption DEF Holds, NoRequest
  <2>4. alive' \subseteq drawn /\ \A i \in Ids : session'[i] = Empty
    BY <1>9 DEF Restart, OwnInv
  <2> QED
    BY <2>1, <2>2, <2>3, <2>4, OwnKept DEF NoRequest
<1>10. CASE UNCHANGED vars
  BY <1>10, <1>t, OwnKept DEF vars, OwnInv, OwnUser, Holds, TypeOK
<1> QED
  BY <1>1, <1>2, <1>4, <1>5, <1>6, <1>7, <1>8, <1>9, <1>10
  DEF Next, Kinds, Entries

(* However requests overlap and sessions come and go, auth names a browser *)
(* only as somebody that this browser logged in as.                        *)
THEOREM NobodyElse == Spec => []OwnUser
<1>1. OwnInv => OwnUser
  BY DEF OwnInv
<1> QED
  BY <1>1, OwnInvInit, OwnInvStep, PTL DEF Spec
-----------------------------------------------------------------------------
(* A browser that waits for each answer. Its one connection tells whom the *)
(* service takes it for.                                                   *)

InHand == {"bound", "served"}

Taken(r) ==
    IF req[r].st \in InHand THEN session[req[r].sid]
    ELSE IF cookie[Owner[r]] \in alive THEN session[cookie[Owner[r]]]
    ELSE Empty

CallOf(r) == [phase |-> Phase(r), op |-> req[r].kind,
              arg |-> req[r].body, res |-> req[r].ans]

SeenUser == [b \in Patient |-> UserOf(b)]
SeenCall == [r \in Waiting |-> CallOf(r)]

(* A connection that is free keeps nothing of its last request. The cookie *)
(* does not change while the request runs, and a session that the cookie   *)
(* does not name was created because the one it names had ended.           *)
WaitInv ==
    /\ OwnInv
    /\ \A r \in Reqs : req[r].st = "idle" => req[r] = NoRequest
    /\ \A r \in Reqs : req[r].st \in {"sent", "bound"} => req[r].ans = Empty
    /\ \A r \in Waiting :
          /\ req[r].st # "idle" => req[r].cookie = cookie[Owner[r]]
          /\ req[r].st \in InHand /\ req[r].sid # req[r].cookie =>
                cookie[Owner[r]] \notin alive

(* A connection that waits is the only one of its browser.                 *)
LEMMA WaitingAlone ==
    ASSUME NEW r \in Waiting
    PROVE  /\ r \in Reqs /\ Owner[r] \in Patient /\ Owner[r] \in Browsers
           /\ \A q \in Reqs : q # r => Owner[q] # Owner[r]
  BY SessionAssumption DEF Waiting, Patient

(* Whom the service takes a browser that waits for is read off its one     *)
(* connection, in this state and in the next.                              *)
LEMMA UserIsTaken ==
    ASSUME NEW r \in Waiting
    PROVE  UserOf(Owner[r]) = Taken(r) /\ UserOf(Owner[r])' = Taken(r)'
<1> DEFINE b == Owner[r]
<1>1. \A q \in Reqs : Owner[q] = b => q = r
  BY WaitingAlone
<1>2. r \in Reqs
  BY WaitingAlone
<1>3. InService(b) = IF req[r].st \in InHand THEN {r} ELSE {}
  BY <1>1, <1>2 DEF InService, InHand
<1>4. InService(b)' = IF req'[r].st \in InHand THEN {r} ELSE {}
  BY <1>1, <1>2 DEF InService, InHand
<1>5. UserOf(b) = Taken(r)
  <2>1. CASE req[r].st \in InHand
    <3>1. InService(b) = {r} /\ (CHOOSE q \in InService(b) : TRUE) = r
      BY <1>3, <2>1
    <3> QED
      BY <2>1, <3>1 DEF UserOf, Taken
  <2>2. CASE req[r].st \notin InHand
    BY <1>3, <2>2 DEF UserOf, Taken
  <2> QED
    BY <2>1, <2>2
<1>6. UserOf(b)' = Taken(r)'
  <2>1. CASE req'[r].st \in InHand
    <3>1. InService(b)' = {r} /\ (CHOOSE q \in InService(b)' : TRUE) = r
      BY <1>4, <2>1
    <3> QED
      BY <2>1, <3>1 DEF UserOf, Taken
  <2>2. CASE req'[r].st \notin InHand
    BY <1>4, <2>2 DEF UserOf, Taken
  <2> QED
    BY <2>1, <2>2
<1> QED
  BY <1>5, <1>6

(* What the abstract state becomes when one connection changes.            *)
LEMMA SeenUpdate ==
    ASSUME NEW r \in Waiting, NEW u, NEW c,
           Taken(r)' = u, CallOf(r)' = c,
           \A q \in Waiting : q # r => Taken(q)' = Taken(q) /\ CallOf(q)' = CallOf(q)
    PROVE  /\ SeenUser' = [SeenUser EXCEPT ![Owner[r]] = u]
           /\ SeenCall' = [SeenCall EXCEPT ![r] = c]
<1>1. \A b \in Patient : UserOf(b)' = IF b = Owner[r] THEN u ELSE UserOf(b)
  <2> SUFFICES ASSUME NEW q \in Waiting
               PROVE  UserOf(Owner[q])' = IF Owner[q] = Owner[r] THEN u ELSE UserOf(Owner[q])
    BY DEF Patient
  <2>1. Owner[q] = Owner[r] <=> q = r
    BY WaitingAlone
  <2> QED
    BY <2>1, UserIsTaken
<1>2. SeenUser' = [SeenUser EXCEPT ![Owner[r]] = u]
  BY <1>1 DEF SeenUser
<1>3. SeenCall' = [SeenCall EXCEPT ![r] = c]
  BY DEF SeenCall
<1> QED
  BY <1>2, <1>3

(* The abstract state stays when what it is read off stays.                *)
LEMMA SeenKept ==
    ASSUME \A q \in Waiting : Taken(q)' = Taken(q) /\ CallOf(q)' = CallOf(q)
    PROVE  SeenUser' = SeenUser /\ SeenCall' = SeenCall
<1>1. \A b \in Patient : UserOf(b)' = UserOf(b)
  BY UserIsTaken DEF Patient
<1> QED
  BY <1>1 DEF SeenUser, SeenCall

(* An entry that is held by another browser does not matter to a browser   *)
(* that waits, nor a session it does not hold.                             *)
LEMMA OthersUntouched ==
    ASSUME OwnInv, NEW q \in Waiting, req'[q] = req[q],
           cookie'[Owner[q]] = cookie[Owner[q]],
           \A i \in Ids : Holds(Owner[q], i) =>
              session'[i] = session[i] /\ (i \in alive' <=> i \in alive),
           alive \subseteq Ids, alive' \subseteq Ids
    PROVE  Taken(q)' = Taken(q) /\ CallOf(q)' = CallOf(q)
<1>1. q \in Reqs /\ Owner[q] \in Browsers
  BY WaitingAlone
<1>2. \A i \in Ids : i = cookie[Owner[q]] => Holds(Owner[q], i)
  BY DEF Holds
<1>3. req[q].st \in InHand => req[q].sid \in Ids /\ Holds(Owner[q], req[q].sid)
  BY <1>1 DEF OwnInv, Holds, InHand
<1>4. CallOf(q)' = CallOf(q)
  BY DEF CallOf, Phase
<1>5. Taken(q)' = Taken(q)
  BY <1>2, <1>3 DEF Taken
<1> QED
  BY <1>4, <1>5

(* WaitInv holds at first, and every step keeps it.                        *)
LEMMA WaitInvInit == Init => WaitInv
  BY OwnInvInit, WaitingAlone DEF Init, WaitInv, NoRequest, InHand

(* The conjuncts of WaitInv but the first, which is OwnInvStep.            *)
LEMMA WaitKept ==
    ASSUME WaitInv, OwnInv',
           NEW r \in Reqs, \A q \in Reqs : q # r => req'[q] = req[q],
           req'[r].st = "idle" => req'[r] = NoRequest,
           req'[r].st \in {"sent", "bound"} => req'[r].ans = Empty,
           \A b \in Browsers : b # Owner[r] => cookie'[b] = cookie[b],
           \A q \in Waiting : q # r => (cookie[Owner[q]] \in alive' => cookie[Owner[q]] \in alive),
           r \in Waiting =>
              /\ req'[r].st # "idle" => req'[r].cookie = cookie'[Owner[r]]
              /\ req'[r].st \in InHand /\ req'[r].sid # req'[r].cookie =>
                    cookie'[Owner[r]] \notin alive'
    PROVE  WaitInv'
<1>1. \A q \in Reqs : /\ req'[q].st = "idle" => req'[q] = NoRequest
                      /\ req'[q].st \in {"sent", "bound"} => req'[q].ans = Empty
  BY DEF WaitInv
<1>2. ASSUME NEW q \in Waiting
      PROVE  /\ req'[q].st # "idle" => req'[q].cookie = cookie'[Owner[q]]
             /\ req'[q].st \in InHand /\ req'[q].sid # req'[q].cookie =>
                   cookie'[Owner[q]] \notin alive'
  <2>1. CASE q = r
    BY <2>1
  <2>2. CASE q # r
    <3>1. q \in Reqs /\ Owner[q] \in Browsers /\ Owner[q] # Owner[r]
      BY <2>2, WaitingAlone
    <3>2. req'[q] = req[q] /\ cookie'[Owner[q]] = cookie[Owner[q]]
      BY <2>2, <3>1
    <3> QED
      BY <2>2, <3>2 DEF WaitInv
  <2> QED
    BY <2>1, <2>2
<1> QED
  BY <1>1, <1>2 DEF WaitInv

LEMMA WaitInvStep == WaitInv /\ [Next]_vars => WaitInv'
<1> SUFFICES ASSUME WaitInv, [Next]_vars PROVE WaitInv'
  OBVIOUS
<1>i. OwnInv /\ OwnInv' /\ TypeOK
  BY OwnInvStep DEF WaitInv, OwnInv
<1>o. \A r \in Reqs : Owner[r] \in Browsers /\ req[r] \in Requests
  BY <1>i, SessionAssumption DEF TypeOK
<1>w. \A q \in Waiting : q \in Reqs /\ Owner[q] \in Browsers
  BY WaitingAlone
<1>1. ASSUME NEW r \in Reqs, NEW k \in Kinds, NEW u \in Entries, Send(r, k, u)
      PROVE  WaitInv'
  <2>1. /\ req'[r].st = "sent" /\ req'[r].ans = Empty /\ req'[r].cookie = cookie[Owner[r]]
        /\ \A q \in Reqs : q # r => req'[q] = req[q]
        /\ UNCHANGED <<cookie, alive>>
    BY <1>1, <1>i DEF Send, TypeOK, NoRequest
  <2> QED
    BY <1>i, <2>1, WaitKept DEF InHand
<1>2. ASSUME NEW r \in Reqs, GetSession(r) PROVE WaitInv'
  <2>1. PICK i \in Ids :
           /\ req' = [req EXCEPT ![r] = [req[r] EXCEPT !.st = "bound", !.sid = i]]
           /\ \/ i = req[r].cookie /\ i \in alive /\ UNCHANGED alive
              \/ i \notin drawn /\ req[r].cookie \notin alive /\ alive' = alive \cup {i}
    BY <1>2, <1>i DEF GetSession, BindTo, TypeOK
  <2>2. /\ req'[r].st = "bound" /\ req'[r].ans = req[r].ans /\ req'[r].sid = i
        /\ req'[r].cookie = req[r].cookie
        /\ \A q \in Reqs : q # r => req'[q] = req[q]
    BY <1>i, <1>o, <2>1 DEF TypeOK, Requests
  <2>3. req[r].st = "sent" /\ req[r].ans = Empty /\ UNCHANGED cookie
    BY <1>2 DEF GetSession, WaitInv
  <2>4. \A b \in Browsers : cookie[b] \in alive' => cookie[b] \in alive \/ i \in alive
    <3> SUFFICES ASSUME NEW b \in Browsers, cookie[b] = i PROVE i \in drawn
      BY <1>i, <2>1 DEF OwnInv
    <3> QED
      BY <1>i DEF OwnInv, Holds
  <2>5. \A b \in Browsers : cookie[b] \in alive' => cookie[b] \in alive
    BY <1>i, <2>1, <2>4 DEF OwnInv, Holds
  <2>6. r \in Waiting => /\ req'[r].cookie = cookie'[Owner[r]]
                         /\ req'[r].sid # req'[r].cookie => cookie'[Owner[r]] \notin alive'
    BY <1>o, <2>1, <2>2, <2>3, <2>5 DEF WaitInv
  <2> QED
    BY <1>i, <1>w, <2>2, <2>3, <2>5, <2>6, WaitKept
<1>3. ASSUME NEW r \in Reqs, NEW a \in Entries, Served(r, a), req[r].st = "bound",
             UNCHANGED <<alive, cookie>>
      PROVE  WaitInv'
  <2>1. /\ req'[r].st = "served" /\ req'[r].sid = req[r].sid
        /\ req'[r].cookie = req[r].cookie
        /\ \A q \in Reqs : q # r => req'[q] = req[q]
    BY <1>3, <1>i, <1>o DEF Served, TypeOK, Requests
  <2>2. r \in Waiting => /\ req'[r].cookie = cookie'[Owner[r]]
                         /\ req'[r].sid # req'[r].cookie => cookie'[Owner[r]] \notin alive'
    BY <1>3, <2>1 DEF WaitInv, InHand
  <2> QED
    BY <1>3, <1>i, <2>1, <2>2, WaitKept
<1>4. ASSUME NEW r \in Reqs, RegisterSession(r) \/ UserAuth(r) \/ SessionInvalidate(r)
      PROVE  WaitInv'
  <2>1. CASE UserAuth(r)
    <3>1. session[req[r].sid] \in Entries
      BY <2>1, <1>i DEF UserAuth, Bound, OwnInv, TypeOK
    <3> QED
      BY <1>3, <2>1, <3>1 DEF UserAuth, Bound
  <2>2. CASE RegisterSession(r) \/ SessionInvalidate(r)
    BY <1>3, <2>2 DEF RegisterSession, SessionInvalidate, Bound, Entries
  <2> QED
    BY <1>4, <2>1, <2>2
<1>5. ASSUME NEW r \in Reqs, Receive(r) \/ Fail(r) PROVE WaitInv'
  <2>1. /\ req'[r] = NoRequest /\ UNCHANGED alive
        /\ \A q \in Reqs : q # r => req'[q] = req[q]
        /\ \A b \in Browsers : b # Owner[r] => cookie'[b] = cookie[b]
    BY <1>5, <1>i DEF Receive, Refused, Bound, Fail, Over, TypeOK
  <2> QED
    BY <1>i, <2>1, WaitKept DEF NoRequest, InHand
<1>6. ASSUME NEW i \in Ids, Expire(i) PROVE WaitInv'
  BY <1>6, <1>i DEF Expire, WaitInv
<1>7. ASSUME Restart PROVE WaitInv'
  <2>1. \A r \in Reqs : req'[r] = NoRequest
    BY <1>7 DEF Restart
  <2> QED
    BY <1>i, <1>w, <2>1 DEF WaitInv, NoRequest, InHand
<1>8. CASE UNCHANGED vars
  BY <1>8, <1>i DEF vars, WaitInv
<1> QED
  BY <1>1, <1>2, <1>4, <1>5, <1>6, <1>7, <1>8 DEF Next, Kinds, Entries

-----------------------------------------------------------------------------
(* Every step is one of Identity, or none, to the browsers that wait.      *)

SeenNext == [Seen!Next]_(Seen!idVars)

(* What a step of one connection does to the browsers that do not own it.  *)
LEMMA NobodyElseSees ==
    ASSUME WaitInv, TypeOK', NEW r \in Reqs,
           \A q \in Reqs : q # r => req'[q] = req[q],
           \A b \in Browsers : b # Owner[r] => cookie'[b] = cookie[b],
           \A i \in Ids, b \in Browsers : b # Owner[r] /\ Holds(b, i) =>
              session'[i] = session[i] /\ (i \in alive' <=> i \in alive)
    PROVE  \A q \in Waiting : q # r => Taken(q)' = Taken(q) /\ CallOf(q)' = CallOf(q)
<1> SUFFICES ASSUME NEW q \in Waiting, q # r
             PROVE  Taken(q)' = Taken(q) /\ CallOf(q)' = CallOf(q)
  OBVIOUS
<1>1. q \in Reqs /\ Owner[q] \in Browsers /\ Owner[q] # Owner[r]
  BY WaitingAlone
<1>2. alive \subseteq Ids /\ alive' \subseteq Ids
  BY DEF WaitInv, OwnInv, TypeOK
<1> QED
  BY <1>1, <1>2, OthersUntouched DEF WaitInv

(* A step of a connection that does not wait is none for those that do.    *)
LEMMA StepOf ==
    ASSUME \A q \in Waiting : Taken(q)' = Taken(q) /\ CallOf(q)' = CallOf(q)
    PROVE  SeenNext
  BY SeenKept DEF SeenNext, Seen!idVars, SeenUser, SeenCall, CallOf

(* An action of Identity by the connection r, from what becomes of it.     *)
LEMMA StepBy ==
    ASSUME NEW r \in Waiting, NEW u, NEW c,
           Taken(r)' = u, CallOf(r)' = c,
           \A q \in Waiting : q # r => Taken(q)' = Taken(q) /\ CallOf(q)' = CallOf(q),
           \/ /\ CallOf(r) = Seen!NoCall /\ u = Taken(r)
              /\ \/ \E v \in Users \cup {Empty} : c = [phase |-> "asked", op |-> "login", arg |-> v, res |-> Empty]
                 \/ \E k \in {"auth", "logout"} :
                       c = [phase |-> "asked", op |-> k, arg |-> Empty, res |-> Empty]
           \/ /\ CallOf(r).phase = "asked" /\ CallOf(r).op # "auth"
              /\ c = [CallOf(r) EXCEPT !.phase = "answered"]
              /\ u = IF CallOf(r).op = "login" THEN CallOf(r).arg ELSE Empty
           \/ /\ CallOf(r).phase = "asked" /\ CallOf(r).op = "auth" /\ u = Taken(r)
              /\ c = [phase |-> "answered", op |-> "auth", arg |-> CallOf(r).arg, res |-> Taken(r)]
           \/ /\ CallOf(r).phase # "idle" /\ c = Seen!NoCall /\ u \in {Taken(r), Empty}
           \/ /\ c = CallOf(r) /\ u = Empty
    PROVE  SeenNext
<1>1. /\ SeenUser' = [SeenUser EXCEPT ![Owner[r]] = u]
      /\ SeenCall' = [SeenCall EXCEPT ![r] = c]
  BY SeenUpdate
<1>2. /\ SeenCall[r] = CallOf(r) /\ SeenUser[Owner[r]] = Taken(r)
      /\ Owner[r] \in Patient
  BY WaitingAlone, UserIsTaken DEF SeenCall, SeenUser
<1>3. u = Taken(r) => SeenUser' = SeenUser
  BY <1>1, <1>2 DEF SeenUser
<1>4. c = CallOf(r) => SeenCall' = SeenCall
  BY <1>1, <1>2 DEF SeenCall
<1>5. Seen!Next => SeenNext
  BY DEF SeenNext
<1>6. CASE /\ CallOf(r) = Seen!NoCall /\ u = Taken(r)
           /\ \/ \E v \in Users \cup {Empty} : c = [phase |-> "asked", op |-> "login", arg |-> v, res |-> Empty]
              \/ \E k \in {"auth", "logout"} :
                    c = [phase |-> "asked", op |-> k, arg |-> Empty, res |-> Empty]
  <2>1. \/ \E v \in Users \cup {Empty} : Seen!Ask(r, "login", v)
        \/ \E k \in {"auth", "logout"} : Seen!Ask(r, k, Empty)
    BY <1>1, <1>2, <1>3, <1>6 DEF Seen!Ask, SeenUser, SeenCall, CallOf
  <2> QED
    BY <1>5, <2>1 DEF Seen!Next
<1>7. CASE /\ CallOf(r).phase = "asked" /\ CallOf(r).op # "auth"
           /\ c = [CallOf(r) EXCEPT !.phase = "answered"]
           /\ u = IF CallOf(r).op = "login" THEN CallOf(r).arg ELSE Empty
  <2>1. Seen!Change(r)
    BY <1>1, <1>2, <1>7 DEF Seen!Change, SeenUser, SeenCall, CallOf
  <2> QED
    BY <1>5, <2>1 DEF Seen!Next
<1>8. CASE /\ CallOf(r).phase = "asked" /\ CallOf(r).op = "auth" /\ u = Taken(r)
           /\ c = [phase |-> "answered", op |-> "auth", arg |-> CallOf(r).arg, res |-> Taken(r)]
  <2>1. Seen!Tell(r)
    BY <1>1, <1>2, <1>3, <1>8 DEF Seen!Tell, SeenUser, SeenCall, CallOf
  <2> QED
    BY <1>5, <2>1 DEF Seen!Next
<1>9. CASE CallOf(r).phase # "idle" /\ c = Seen!NoCall /\ u \in {Taken(r), Empty}
  <2>1. Seen!End(r)
    BY <1>1, <1>2, <1>3, <1>9 DEF Seen!End, SeenUser, SeenCall, CallOf
  <2> QED
    BY <1>5, <2>1 DEF Seen!Next
<1>10. CASE c = CallOf(r) /\ u = Empty
  <2>1. Seen!Forget(Owner[r])
    BY <1>1, <1>2, <1>4, <1>10 DEF Seen!Forget, SeenUser, SeenCall, CallOf
  <2> QED
    BY <1>2, <1>5, <2>1 DEF Seen!Next
<1> QED
  BY <1>6, <1>7, <1>8, <1>9, <1>10

(* The step simulation of the refinement.                                  *)
LEMMA SeenStep == WaitInv /\ [Next]_vars => SeenNext
<1> SUFFICES ASSUME WaitInv, [Next]_vars PROVE SeenNext
  OBVIOUS
<1>i. OwnInv /\ OwnInv' /\ TypeOK /\ TypeOK'
  BY OwnInvStep DEF WaitInv, OwnInv
<1>o. \A r \in Reqs : Owner[r] \in Browsers /\ req[r] \in Requests
  BY <1>i, SessionAssumption DEF TypeOK
<1>w. \A q \in Waiting : q \in Reqs /\ Owner[q] \in Browsers
  BY WaitingAlone
<1>h. \A q \in Reqs : req[q].st \in InHand => req[q].sid \in Ids /\ Holds(Owner[q], req[q].sid)
  BY <1>o, <1>i DEF OwnInv, Holds, InHand
<1>1. ASSUME NEW r \in Reqs, NEW k \in Kinds, NEW u \in Entries, Send(r, k, u),
             (k = "login" /\ u \in Users \cup {Empty}) \/ (k \in {"auth", "logout"} /\ u = Empty)
      PROVE  SeenNext
  <2>1. /\ req[r] = NoRequest /\ req'[r].st = "sent" /\ req'[r].ans = Empty
        /\ req'[r].kind = k /\ req'[r].body = u
        /\ \A q \in Reqs : q # r => req'[q] = req[q]
        /\ UNCHANGED <<session, alive, cookie>>
    BY <1>1, <1>i DEF Send, TypeOK, NoRequest, WaitInv
  <2>2. \A q \in Waiting : q # r => Taken(q)' = Taken(q) /\ CallOf(q)' = CallOf(q)
    BY <1>i, <2>1, NobodyElseSees
  <2>3. CASE r \in Waiting
    <3>1. Taken(r)' = Taken(r)
      BY <2>1 DEF Taken, NoRequest, InHand
    <3>2. CallOf(r) = Seen!NoCall
      BY <2>1 DEF CallOf, Phase, NoRequest, Seen!NoCall
    <3>3. CallOf(r)' = [phase |-> "asked", op |-> k, arg |-> u, res |-> Empty]
      BY <2>1 DEF CallOf, Phase
    <3> QED
      BY <1>1, <2>2, <2>3, <3>1, <3>2, <3>3, StepBy
  <2>4. CASE r \notin Waiting
    BY <2>2, <2>4, StepOf
  <2> QED
    BY <2>3, <2>4
<1>2. ASSUME NEW r \in Reqs, GetSession(r) PROVE SeenNext
  <2>1. PICK i \in Ids :
           /\ req' = [req EXCEPT ![r] = [req[r] EXCEPT !.st = "bound", !.sid = i]]
           /\ \/ i = req[r].cookie /\ i \in alive /\ UNCHANGED alive
              \/ i \notin drawn /\ req[r].cookie \notin alive /\ alive' = alive \cup {i}
    BY <1>2, <1>i DEF GetSession, BindTo, TypeOK
  <2>2. /\ req'[r].st = "bound" /\ req'[r].ans = req[r].ans /\ req'[r].sid = i
        /\ req'[r].kind = req[r].kind /\ req'[r].body = req[r].body
        /\ \A q \in Reqs : q # r => req'[q] = req[q]
    BY <1>i, <1>o, <2>1 DEF TypeOK, Requests
  <2>3. req[r].st = "sent" /\ UNCHANGED <<cookie, session>>
    BY <1>2 DEF GetSession
  <2>4. \A b \in Browsers, j \in Ids : Holds(b, j) => (j \in alive' <=> j \in alive)
    BY <1>i, <2>1 DEF OwnInv
  <2>5. \A q \in Waiting : q # r => Taken(q)' = Taken(q) /\ CallOf(q)' = CallOf(q)
    BY <1>i, <2>2, <2>3, <2>4, NobodyElseSees
  <2>6. CallOf(r)' = CallOf(r)
    BY <2>2, <2>3 DEF CallOf, Phase
  <2>7. ASSUME r \in Waiting PROVE Taken(r)' = Taken(r)
    <3>1. req[r].cookie = cookie[Owner[r]]
      BY <2>3, <2>7 DEF WaitInv
    <3>2. i \notin drawn => session[i] = Empty
      BY <1>i DEF OwnInv
    <3> QED
      BY <2>1, <2>2, <2>3, <3>1, <3>2 DEF Taken, InHand
  <2> QED
    BY <2>5, <2>6, <2>7, StepOf
<1>3. ASSUME NEW r \in Reqs, NEW a \in Entries, Served(r, a), req[r].st = "bound",
             UNCHANGED <<alive, cookie>>,
             \A i \in Ids : i # req[r].sid => session'[i] = session[i]
      PROVE  /\ \A q \in Waiting : q # r => Taken(q)' = Taken(q) /\ CallOf(q)' = CallOf(q)
             /\ Taken(r) = session[req[r].sid] /\ Taken(r)' = session'[req[r].sid]
             /\ CallOf(r) = [phase |-> "asked", op |-> req[r].kind, arg |-> req[r].body, res |-> Empty]
             /\ CallOf(r)' = [phase |-> "answered", op |-> req[r].kind, arg |-> req[r].body, res |-> a]
  <2>1. /\ req'[r].st = "served" /\ req'[r].sid = req[r].sid /\ req'[r].ans = a
        /\ req'[r].kind = req[r].kind /\ req'[r].body = req[r].body
        /\ \A q \in Reqs : q # r => req'[q] = req[q]
    BY <1>3, <1>i, <1>o DEF Served, TypeOK, Requests
  <2>2. Holds(Owner[r], req[r].sid) /\ req[r].sid \in Ids
    BY <1>3, <1>h DEF InHand
  <2>3. \A b \in Browsers, i \in Ids : b # Owner[r] /\ Holds(b, i) => i # req[r].sid
    BY <1>i, <1>o, <2>2 DEF OwnInv
  <2>4. \A q \in Waiting : q # r => Taken(q)' = Taken(q) /\ CallOf(q)' = CallOf(q)
    BY <1>3, <1>i, <2>1, <2>3, NobodyElseSees
  <2>5. Taken(r) = session[req[r].sid] /\ Taken(r)' = session'[req[r].sid]
    BY <1>3, <2>1 DEF Taken, InHand
  <2>6. req[r].ans = Empty
    BY <1>3 DEF WaitInv
  <2>7. CallOf(r) = [phase |-> "asked", op |-> req[r].kind, arg |-> req[r].body, res |-> Empty]
    BY <1>3, <2>6 DEF CallOf, Phase
  <2>8. CallOf(r)' = [phase |-> "answered", op |-> req[r].kind, arg |-> req[r].body, res |-> a]
    BY <2>1 DEF CallOf, Phase
  <2> QED
    BY <2>4, <2>5, <2>7, <2>8
<1>4. ASSUME NEW r \in Reqs, RegisterSession(r) PROVE SeenNext
  <2>1. req[r].sid \in Ids /\ req[r].st = "bound" /\ req[r].kind = "login"
    BY <1>4, <1>h DEF RegisterSession, Bound, InHand
  <2>2. /\ session'[req[r].sid] = req[r].body
        /\ \A i \in Ids : i # req[r].sid => session'[i] = session[i]
    BY <1>4, <1>i, <2>1 DEF RegisterSession, TypeOK
  <2>3. /\ \A q \in Waiting : q # r => Taken(q)' = Taken(q) /\ CallOf(q)' = CallOf(q)
        /\ Taken(r)' = req[r].body
        /\ CallOf(r) = [phase |-> "asked", op |-> "login", arg |-> req[r].body, res |-> Empty]
        /\ CallOf(r)' = [phase |-> "answered", op |-> "login", arg |-> req[r].body, res |-> Empty]
    BY <1>3, <1>4, <2>1, <2>2 DEF RegisterSession, Entries
  <2>4. /\ CallOf(r)' = [CallOf(r) EXCEPT !.phase = "answered"]
        /\ CallOf(r).phase = "asked" /\ CallOf(r).op = "login" /\ CallOf(r).arg = req[r].body
    BY <2>3
  <2>5. CASE r \in Waiting
    BY <2>3, <2>4, <2>5, StepBy
  <2>6. CASE r \notin Waiting
    BY <2>3, <2>6, StepOf
  <2> QED
    BY <2>5, <2>6
<1>5. ASSUME NEW r \in Reqs, UserAuth(r) PROVE SeenNext
  <2>1. /\ req[r].sid \in Ids /\ req[r].st = "bound" /\ req[r].kind = "auth"
        /\ session[req[r].sid] \in Entries
    BY <1>5, <1>h, <1>i DEF UserAuth, Bound, InHand, TypeOK
  <2>2. /\ \A q \in Waiting : q # r => Taken(q)' = Taken(q) /\ CallOf(q)' = CallOf(q)
        /\ Taken(r)' = Taken(r)
        /\ CallOf(r) = [phase |-> "asked", op |-> "auth", arg |-> req[r].body, res |-> Empty]
        /\ CallOf(r)' = [phase |-> "answered", op |-> "auth", arg |-> req[r].body, res |-> Taken(r)]
    BY <1>3, <1>5, <2>1 DEF UserAuth
  <2>3. /\ CallOf(r).phase = "asked" /\ CallOf(r).op = "auth"
        /\ CallOf(r)' = [phase |-> "answered", op |-> "auth", arg |-> CallOf(r).arg, res |-> Taken(r)]
    BY <2>2
  <2>4. CASE r \in Waiting
    BY <2>2, <2>3, <2>4, StepBy
  <2>5. CASE r \notin Waiting
    BY <2>2, <2>5, StepOf
  <2> QED
    BY <2>4, <2>5
<1>6. ASSUME NEW r \in Reqs, SessionInvalidate(r) PROVE SeenNext
  <2>1. req[r].sid \in Ids /\ req[r].st = "bound" /\ req[r].kind = "logout"
    BY <1>6, <1>h DEF SessionInvalidate, Bound, InHand
  <2>2. /\ session'[req[r].sid] = Empty
        /\ \A i \in Ids : i # req[r].sid => session'[i] = session[i]
    BY <1>6, <1>i, <2>1 DEF SessionInvalidate, TypeOK
  <2>3. /\ \A q \in Waiting : q # r => Taken(q)' = Taken(q) /\ CallOf(q)' = CallOf(q)
        /\ Taken(r)' = Empty
        /\ CallOf(r) = [phase |-> "asked", op |-> "logout", arg |-> req[r].body, res |-> Empty]
        /\ CallOf(r)' = [phase |-> "answered", op |-> "logout", arg |-> req[r].body, res |-> Empty]
    BY <1>3, <1>6, <2>1, <2>2 DEF SessionInvalidate, Entries
  <2>4. /\ CallOf(r)' = [CallOf(r) EXCEPT !.phase = "answered"]
        /\ CallOf(r).phase = "asked" /\ CallOf(r).op = "logout" /\ CallOf(r).arg = req[r].body
    BY <2>3
  <2>5. CASE r \in Waiting
    BY <2>3, <2>4, <2>5, StepBy
  <2>6. CASE r \notin Waiting
    BY <2>3, <2>6, StepOf
  <2> QED
    BY <2>5, <2>6
<1>7. ASSUME NEW r \in Reqs, Receive(r) \/ Fail(r) PROVE SeenNext
  <2>1. /\ req[r].st # "idle" /\ req'[r] = NoRequest
        /\ \A q \in Reqs : q # r => req'[q] = req[q]
        /\ UNCHANGED <<session, alive>>
        /\ \A b \in Browsers : b # Owner[r] => cookie'[b] = cookie[b]
    BY <1>7, <1>i DEF Receive, Refused, Bound, Fail, Over, TypeOK
  <2>2. \A q \in Waiting : q # r => Taken(q)' = Taken(q) /\ CallOf(q)' = CallOf(q)
    BY <1>i, <2>1, NobodyElseSees
  <2>3. CallOf(r).phase # "idle"
    BY <2>1 DEF CallOf, Phase
  <2>4. CallOf(r)' = Seen!NoCall
    BY <2>1 DEF CallOf, Phase, NoRequest, Seen!NoCall
  <2>5. Taken(r)' = IF cookie'[Owner[r]] \in alive THEN session[cookie'[Owner[r]]] ELSE Empty
    BY <2>1 DEF Taken, NoRequest, InHand
  <2>6. ASSUME r \in Waiting PROVE Taken(r)' \in {Taken(r), Empty}
    <3>1. req[r].cookie = cookie[Owner[r]]
      BY <2>1, <2>6 DEF WaitInv
    <3>2. CASE Receive(r)
      <4>1. req[r].st \in InHand /\ cookie'[Owner[r]] = req[r].sid
        BY <3>1, <3>2, <1>i, <1>o DEF Receive, Refused, Bound, TypeOK, InHand
      <4> QED
        BY <2>5, <4>1 DEF Taken
    <3>3. CASE Fail(r)
      <4>1. cookie' = cookie
        BY <3>3 DEF Fail
      <4>2. CASE req[r].st \in InHand /\ req[r].sid # cookie[Owner[r]]
        BY <2>5, <2>6, <3>1, <4>1, <4>2 DEF WaitInv
      <4>3. CASE req[r].st \in InHand /\ req[r].sid = cookie[Owner[r]]
        BY <2>5, <4>1, <4>3 DEF Taken
      <4>4. CASE req[r].st \notin InHand
        BY <2>5, <4>1, <4>4 DEF Taken
      <4> QED
        BY <4>2, <4>3, <4>4
    <3> QED
      BY <1>7, <3>2, <3>3
  <2>7. CASE r \in Waiting
    BY <2>2, <2>3, <2>4, <2>6, <2>7, StepBy
  <2>8. CASE r \notin Waiting
    BY <2>2, <2>8, StepOf
  <2> QED
    BY <2>7, <2>8
<1>8. ASSUME NEW i \in Ids, Expire(i) PROVE SeenNext
  <2>1. alive' = alive \ {i} /\ UNCHANGED <<session, cookie, req>>
    BY <1>8 DEF Expire
  <2>2. \A q \in Waiting : CallOf(q)' = CallOf(q)
    BY <2>1 DEF CallOf, Phase
  <2>3. \A q \in Waiting : Taken(q)' # Taken(q) => Taken(q)' = Empty /\ cookie[Owner[q]] = i
    BY <2>1 DEF Taken
  <2>4. \A q, r \in Waiting : cookie[Owner[q]] = i /\ cookie[Owner[r]] = i => q = r
    <3> SUFFICES ASSUME NEW q \in Waiting, NEW r \in Waiting,
                        cookie[Owner[q]] = i, cookie[Owner[r]] = i
                 PROVE  q = r
      OBVIOUS
    <3>1. Owner[q] = Owner[r]
      BY <1>i, <1>w DEF OwnInv, Holds
    <3> QED
      BY <1>w, <3>1, WaitingAlone
  <2>5. CASE \A q \in Waiting : Taken(q)' = Taken(q)
    BY <2>2, <2>5, StepOf
  <2>6. CASE \E q \in Waiting : Taken(q)' # Taken(q)
    <3>1. PICK r \in Waiting : Taken(r)' # Taken(r)
      BY <2>6
    <3>2. \A q \in Waiting : q # r => Taken(q)' = Taken(q)
      BY <2>3, <2>4, <3>1
    <3> QED
      BY <2>2, <2>3, <3>1, <3>2, StepBy
  <2> QED
    BY <2>5, <2>6
<1>9. ASSUME Restart PROVE SeenNext
  <2>1. /\ \A r \in Reqs : req'[r] = NoRequest
        /\ \A i \in Ids : session'[i] = Empty
        /\ alive' \subseteq Ids
    BY <1>9, <1>i DEF Restart, TypeOK
  <2>2. \A r \in Waiting : UserOf(Owner[r])' = Empty /\ CallOf(r)' = Seen!NoCall
    <3> SUFFICES ASSUME NEW r \in Waiting
                 PROVE  UserOf(Owner[r])' = Empty /\ CallOf(r)' = Seen!NoCall
      OBVIOUS
    <3>1. Taken(r)' = Empty
      BY <1>w, <2>1 DEF Taken, NoRequest, InHand
    <3>2. CallOf(r)' = Seen!NoCall
      BY <1>w, <2>1 DEF CallOf, Phase, NoRequest, Seen!NoCall
    <3> QED
      BY <3>1, <3>2, UserIsTaken
  <2>3. SeenUser' = [b \in Patient |-> Empty] /\ SeenCall' = [r \in Waiting |-> Seen!NoCall]
    BY <2>2 DEF SeenUser, SeenCall, Patient
  <2>4. Seen!ForgetAll
    BY <2>3 DEF Seen!ForgetAll, SeenUser, SeenCall, CallOf
  <2> QED
    BY <2>4 DEF SeenNext, Seen!Next
<1>10. CASE UNCHANGED vars
  <2>1. \A q \in Waiting : Taken(q)' = Taken(q) /\ CallOf(q)' = CallOf(q)
    BY <1>10 DEF vars, Taken, CallOf, Phase
  <2> QED
    BY <2>1, StepOf
<1> QED
  BY <1>1, <1>2, <1>4, <1>5, <1>6, <1>7, <1>8, <1>9, <1>10 DEF Next, Kinds, Entries

(* A browser that waits for each answer is taken for the user it last      *)
(* logged in as, or for nobody, whatever the others do, and whatever       *)
(* expires, is lost or restarts.                                           *)
THEOREM WaitingSeesIdentity == Spec => SeenSpec
<1>1. Init => Seen!Init
  <2> SUFFICES ASSUME Init PROVE Seen!Init
    OBVIOUS
  <2>1. \A r \in Waiting : UserOf(Owner[r]) = Empty /\ CallOf(r) = Seen!NoCall
    <3> SUFFICES ASSUME NEW r \in Waiting
                 PROVE  UserOf(Owner[r]) = Empty /\ CallOf(r) = Seen!NoCall
      OBVIOUS
    <3>1. req[r] = NoRequest /\ alive = {}
      BY WaitingAlone DEF Init
    <3> QED
      BY <3>1, UserIsTaken DEF Taken, CallOf, Phase, NoRequest, InHand, Seen!NoCall
  <2>2. SeenUser = [b \in Patient |-> Empty] /\ SeenCall = [r \in Waiting |-> Seen!NoCall]
    BY <2>1 DEF SeenUser, SeenCall, Patient
  <2> QED
    BY <2>2 DEF Seen!Init, SeenUser, SeenCall, CallOf
<1>2. WaitInv /\ [Next]_vars => [Seen!Next]_(Seen!idVars)
  BY SeenStep DEF SeenNext
<1> QED
  BY <1>1, <1>2, WaitInvInit, WaitInvStep, PTL DEF Spec, SeenSpec, Seen!Spec
=============================================================================
