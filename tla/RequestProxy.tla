---------------------------- MODULE RequestProxy ----------------------------
(***************************************************************************)
(* src/utils/api-test: the way of a request through GateFilter, which      *)
(* reads its body (RequestWrapper), and Proxy.proxy, which forwards it to  *)
(* the server at port 8080 or 9090. Every request has a worker of the      *)
(* container and an HTTP client of its own; nothing has a timeout.         *)
(*                                                                         *)
(* External: the container, Jackson, the HTTP client and both servers.     *)
(***************************************************************************)
EXTENDS Naturals, FiniteSets

CONSTANTS
    Requests,
    Workers,   \* how many requests the container handles at a time
    MaxLines   \* bound on the lines of a body

ASSUME ProxyAssumption ==
    IsFiniteSet(Requests) /\ Workers \in Nat \ {0} /\ MaxLines \in Nat \ {0}

(* A body of some lines whose JSON ends in line "close"; whether its url   *)
(* contains "stat", is another one, is no URI, or missing; and whether it  *)
(* has reqdata.                                                            *)
Urls   == {"stat", "other", "illegal", "missing"}
Bodies == {m \in [lines : 1..MaxLines, close : 1..MaxLines, url : Urls, data : BOOLEAN] :
             m.close <= m.lines}

VARIABLES
    body,    \* what each client means to send
    pc,
    broken,  \* whose connection broke before the end of the body
    read,    \* how many lines strBuilder has
    open,    \* whose HTTP client is open
    target,  \* where it is forwarded to
    said,    \* what the target answered
    answer   \* what the caller gets

vars == <<body, pc, broken, read, open, target, said, answer>>

Over == {"answered", "error"}
Busy == {"read", "parse", "url", "payload", "execute", "close"}

TypeOK ==
    /\ body \in [Requests -> Bodies]
    /\ pc \in [Requests -> Over \cup Busy \cup {"waiting"}]
    /\ broken \subseteq Requests /\ read \in [Requests -> 0..MaxLines]
    /\ open \subseteq Requests
    /\ target \in [Requests -> {"none", "8080", "9090"}]
    /\ said \in [Requests -> {"nothing", "ok", "failure"}]
    /\ answer \in [Requests -> {"none", "empty", "content"}]
    /\ Cardinality({r \in Requests : pc[r] \in Busy}) <= Workers

Init ==
    /\ body \in [Requests -> Bodies]
    /\ pc = [r \in Requests |-> "waiting"]
    /\ broken = {} /\ read = [r \in Requests |-> 0]
    /\ open = {}
    /\ target = [r \in Requests |-> "none"]
    /\ said = [r \in Requests |-> "nothing"]
    /\ answer = [r \in Requests |-> "none"]

Goto(r, from, to) == pc[r] = from /\ pc' = [pc EXCEPT ![r] = to]

(* The container gives the request to a worker.                            *)
Accept(r) ==
    /\ Cardinality({q \in Requests : pc[q] \in Busy}) < Workers
    /\ Goto(r, "waiting", "read")
    /\ UNCHANGED <<body, broken, read, open, target, said, answer>>

-----------------------------------------------------------------------------
(* RequestWrapper.                                                         *)

(* The connection breaks.                                                  *)
Break(r) ==
    /\ pc[r] \in {"waiting", "read"}
    /\ broken' = broken \cup {r}
    /\ UNCHANGED <<body, pc, read, open, target, said, answer>>

(* Seeded fault: the end of the stream is read as one more line.           *)
ReadLinePast(r) ==
    /\ pc[r] = "read" /\ r \notin broken /\ read[r] <= body[r].lines
    /\ read' = [read EXCEPT ![r] = @ + 1]
    /\ UNCHANGED <<body, pc, broken, open, target, said, answer>>

ReadLine(r) ==
    /\ pc[r] = "read" /\ r \notin broken /\ read[r] < body[r].lines
    /\ read' = [read EXCEPT ![r] = @ + 1]
    /\ UNCHANGED <<body, pc, broken, open, target, said, answer>>

ReadEnd(r) ==
    /\ r \notin broken /\ read[r] = body[r].lines
    /\ Goto(r, "read", "parse")
    /\ UNCHANGED <<body, broken, read, open, target, said, answer>>

(* Seeded fault: the try is inside the loop.                               *)
ReadOn(r) == pc[r] = "read" /\ r \in broken /\ UNCHANGED vars

(* The IOException ends the loop: the lines that are complete are the body.*)
ReadBreak(r) ==
    /\ r \in broken
    /\ Goto(r, "read", "parse")
    /\ UNCHANGED <<body, broken, read, open, target, said, answer>>

-----------------------------------------------------------------------------
(* Proxy.proxy.                                                            *)

(* Seeded fault: the client comes first.                                   *)
ParseFailLate(r) ==
    /\ read[r] < body[r].close
    /\ Goto(r, "parse", "error")
    /\ open' = open \cup {r}
    /\ UNCHANGED <<body, broken, read, target, said, answer>>

(* readTree fails on a part of a JSON text (the log of GateFilter may have *)
(* failed on it before). What it makes of an empty one depends on its      *)
(* version: an error, or nothing to get a url from.                        *)
ParseFail(r) ==
    /\ read[r] < body[r].close
    /\ Goto(r, "parse", "error")
    /\ UNCHANGED <<body, broken, read, open, target, said, answer>>

ParseDone(r) ==
    /\ read[r] >= body[r].close \/ read[r] = 0
    /\ Goto(r, "parse", "url")
    /\ open' = open \cup {r}
    /\ UNCHANGED <<body, broken, read, target, said, answer>>

NoUrl(r) == read[r] = 0 \/ body[r].url \in {"illegal", "missing"}

(* An exception before the try.                                            *)
UrlFail(r) ==
    /\ NoUrl(r)
    /\ Goto(r, "url", "error")
    /\ UNCHANGED <<body, broken, read, open, target, said, answer>>

UrlDone(r) ==
    /\ ~NoUrl(r)
    /\ Goto(r, "url", "payload")
    /\ target' = [target EXCEPT ![r] = IF body[r].url = "stat" THEN "9090" ELSE "8080"]
    /\ UNCHANGED <<body, broken, read, open, said, answer>>

(* Without reqdata: the exception is caught, result stays "".              *)
Payload(r) ==
    /\ Goto(r, "payload", IF body[r].data THEN "execute" ELSE "close")
    /\ UNCHANGED <<body, broken, read, open, target, said, answer>>

(* The target answers, with 200 or another status, or the connection fails.*)
Execute(r) ==
    /\ Goto(r, "execute", "close")
    /\ said' \in {[said EXCEPT ![r] = s] : s \in {"ok", "failure", "nothing"}}
    /\ UNCHANGED <<body, broken, read, open, target, answer>>

(* Seeded fault: what has an entity is the result.                         *)
ResultAny(r) == IF said[r] # "nothing" THEN "content" ELSE "empty"

Result(r) == IF said[r] = "ok" THEN "content" ELSE "empty"

(* The finally, and the answer with status 200.                            *)
Close(r) ==
    /\ Goto(r, "close", "answered")
    /\ open' = open \ {r}
    /\ answer' = [answer EXCEPT ![r] = Result(r)]
    /\ UNCHANGED <<body, broken, read, target, said>>

Work(r) ==
    \/ ReadLine(r) \/ ReadEnd(r) \/ ReadBreak(r)
    \/ ParseFail(r) \/ ParseDone(r) \/ UrlFail(r) \/ UrlDone(r)
    \/ Payload(r) \/ Execute(r) \/ Close(r)

Next == \E r \in Requests : Accept(r) \/ Break(r) \/ Work(r)

(* A worker goes on, the targets answer or break off, and the container    *)
(* forgets no request.                                                     *)
Spec == Init /\ [][Next]_vars /\ \A r \in Requests : SF_vars(Accept(r)) /\ WF_vars(Work(r))

-----------------------------------------------------------------------------
(* Properties.                                                             *)

(* A client stays open after its request only when there was no legal url  *)
(* to forward to (lines 52-59).                                            *)
ClientsClosed == \A r \in open : pc[r] \in Over => pc[r] = "error" /\ NoUrl(r)

(* What the caller gets is the answer, with status 200, of the server that *)
(* the url names, to the whole request; an empty answer may be a failure   *)
(* (RequestWrapper 34, Proxy 54-70).                                       *)
HonestAnswer ==
    \A r \in Requests : answer[r] = "content" =>
        /\ said[r] = "ok" /\ read[r] >= body[r].close
        /\ target[r] = IF body[r].url = "stat" THEN "9090" ELSE "8080"

(* Every request is answered, or refused, as long as the targets answer.   *)
Served == \A r \in Requests : <>(pc[r] \in Over)
=============================================================================
