# Verification of support-file

The repository is a collection of helper programs and notes. Most of its files
are third-party code kept for convenience (Apache httpd, the documentation and
examples of Tomcat, jQuery, d3, Chart.js, the zip file inside `get-pip.py`) or
lists of commands.
This project is about the programs of its own: what state they keep, what may
go wrong in them, and what can be checked (TLC) and proved (TLAPS) about it.

## 1. Inventory

### 1.1 The service stack: `utils/sample-shell/sample_to_run.sh`

One menu, four choices, on one Linux host.

| part | state | operations |
|---|---|---|
| prerequisites (15-189) | what is installed, the database and its user, how far redis is configured, the two parts of the archive; `$count` of the loop | install loops for jdk, mysql, redis, unrar; create database and user; configure redis; download |
| start (191-310) | the directory `sample_to_run`, `pid.log` in it, the shell's working directory, `$count`, `$pids` | wipe, unpack, then for each of four services: launch, wait until `lsof` finds its port, record the process numbers; give up after a number of turns |
| stop (311-346) | `pid.log`, `$ROWNUM` | SIGTERM to each line, remove `pid.log` |
| clear (347-354) | the directory and the script | remove both |

*Interaction.* The script never holds on to a process it started: all it knows
of the processes is `pid.log` and what one `lsof` call prints. Several
terminals may run it on the same host, and other programs may use the ports.

*Hard behaviours.* Processes bind their port late or never, crash, keep their
port after SIGTERM; `lsof` prints clients and strangers too; the operator
interrupts the script anywhere; one terminal deletes the directory another one
stands in; the host reboots and hands out the same process numbers again; any
command may fail, and most failures go unnoticed.

*Correct means.* What the script starts it can stop: every service that a start
has gone past is listed; a stop drops the list only when nothing in it still
runs untold; nobody else is killed; every choice ends. For the prerequisites:
no loop is left without its tool, the archive comes from one download, a run that
installs redis goes on only after the commands that configure it.

### 1.2 The login service: `api-test`, `controller/Proxy.java` 34, 83-109

*State.* A static map from session ids to login bodies, in the controller; the
sessions, in the servlet container; the cookie, in the browser.
*Operations.* login (put), auth (get), logout (remove), each by the id of
`request.getSession()`, which creates a session when the request carries none.
*Hard behaviours.* Requests of one browser overlap; answers with their
Set-Cookie arrive in any order or not at all; sessions expire while the map
keeps their entries; a restart empties the map while sessions may survive
(`spring-boot-devtools` is on the class path).
*Correct means.* Nobody is taken for somebody else; a browser that waits for
each answer is taken for the user it last logged in as, or for nobody.

### 1.3 The request proxy: `Proxy.java` 36-81

*State.* An HTTP client per request, the headers that are forwarded.
*Operations.* parse the body, choose the target, forward, close the client.
*Hard behaviours.* Exceptions at different places, before and inside the `try`;
repeated headers; the caller sees an empty answer for every failure.
*Correct means.* Every client that is created is closed; a non-empty answer is
the target's; a forwarded request carries the caller's headers.

### 1.4 Filters and stream copiers: `servlet/*.java`, `config/FilterConfig.java`

*State.* The request body, read once and kept without its line ends; the stream
or the writer of the answer and the copy that is logged.
*Operations.* read the body, `getOutputStream`, `getWriter`, `write`,
`flushBuffer`, `getCopy`; the order of the two filters.
*Hard behaviours.* A body that breaks off; a write that fails between the two
streams; a copy that is read before a buffer was flushed.
*Correct means.* The logged answer ends with the one the client was sent, what a
chain wrote and flushed is sent, the handler sees the body that was logged.

### 1.5 The proxy server switch: `gfw/switch.sh`

*State.* The installation, the two ports and the id in `config.json`, the port
and the password in `user-config.json`.
*Operations.* V2Ray and SSR (reinstall, choose free ports, substitute, start),
Show (prints fixed lines of the files).
*Hard behaviours.* A port is free when `lsof` looks and taken later; the test
that the two ports differ compares two literal words (line 40); a download
fails and the file is replaced by nothing; systemd restarts one of the servers.
SSR is installed in the directory the script is run from, so that it may exist
several times.
*Correct means.* The two ports differ; Show never prints another configuration
than the one that runs.

### 1.6 Table widgets: `js/custom.js` (and the copy in `api-test`)

*State.* The rows of a table, their order and visibility, the event attributes.
*Operations.* bind the filter and filter, bind the headers and sort.
*Hard behaviours.* Two filter modes of which one never shows a row again; a
column index that counts unbound cells only; a comparator that never answers
zero and whose direction depends on the first two rows.
*Correct means.* A filter shows exactly the matching rows; a sort yields an
ordered permutation and a second click the reverse.

### 1.7 Hierarchy queries: `mysql/HIE QUERY.md`

*State.* The table CS_NODE (a parent for each node), a temporary table.
*Operations.* descend by recursion or by levels, ascend to the root.
*Hard behaviours.* Cycles and self-parents, the recursion limit of 255, the
truncation of long lists.
*Correct means.* The descent returns exactly the descendants (the procedure those
that have a row, because it joins with the table), the ascent the path to the
root, both for every table, and they end.

### 1.8 Cluster and load balancer configuration

`cluster based on apache and tomcat/demo` (workers, mod_jk, three `server.xml`)
and `nginx/*.conf`. State and algorithms belong to the vendored servers; the
repository decides the weights, stickiness and replication only.

### 1.9 The pip bootstrap: `python/get-pip.py` 1-202

*State.* The temporary directory with pip's zip file and the certificates, the
list of arguments for pip, three `implicit_...` variables; the packages of the
host, which other invocations change too.
*Operations.* decode the zip file (`b85decode`), filter the options, look for
setuptools and wheel, scan the arguments, call pip, remove the directory.
*Hard behaviours.* An exception or an interrupt anywhere; two invocations at
once, one of which looks for a package that the other one is replacing; names
in another spelling; padding, overflow and bad characters in the decoder.
*Correct means.* The directory goes, whatever statement fails; pip gets no option that
is not its own and no package twice; what was to be installed is there in the
end, what was declined is not; decoding undoes encoding, and errors are named at
their place. Lines 203-23468 are the zip file itself, data for an external
program.

### 1.10 Not programs

Oracle and shell notes, vendored code, jars, the three printing handlers of
`controller/Test.java`, Spring wiring. They keep no state of their own.

## 2. Plan

| order | module | what | composed with | status |
|---|---|---|---|---|
| 1 | `SampleShell` | start, stop, clear, processes, ports | implements `StackBook` | done, proved |
| 2 | `Provision` | prerequisites and download | the step `Provision` of `SampleShell` in detail | done, proved |
| 3 | `UserSession` | login, auth, logout | implements `Identity` | done, proved |
| 4 | `SwitchScript` | ports, configuration, Show | - | done, proved |
| 5 | `ResponseCopy` | the answer through the filters, its copy | the handlers run inside it | done, proved |
| 6 | `HieQuery` | the walks over CS_NODE, against a reference definition | - | done, proved |
| 7 | `GetPip` | the bootstrap of pip, several invocations | - | done, proved |
| 8 | `B85Decode` | the decoder of the bootstrap, against the encoding | what `Unpack` of `GetPip` calls | done, proved |
| 9 | `RequestProxy` | the buffered body of `RequestWrapper`, the proxy handler and its client | before and inside `ResponseCopy` | done, proved |
| 10 | `TableWidget` | filter and sort | - | done, proved |

Abstract specifications: `StackBook` (a book of processes that a start adds to
and a stop closes), `Identity` (a user per browser), and, as definitions, the
descendants of a node (`HieQuery`) and the encoding (`B85Decode`).

Each component has its own run, with the smallest instance in which all of its
actions and all the interesting interleavings occur.

## 3. The modules and the code

| module | models | state | actions |
|---|---|---|---|
| `SampleShell` | `sample_to_run.sh` 1-13, 191-360 | below | below |
| `StackBook` | what start and stop promise together | `mode`, `book`, `live` | `BeginStart`, `Enter`, `BeginStop`, `Retire`, `Leave`, `Discard`, `Arrive`, `Depart` |
| `Provision` | `sample_to_run.sh` 15-189 | below | below |
| `UserSession` | `Proxy.java` 34, 83-109 | below | below |
| `Identity` | what a browser may expect of the login service | `user`, `call` | `Ask`, `Change`, `Tell`, `End`, `Forget`, `ForgetAll` |
| `SwitchScript` | `switch.sh` | below | below |
| `ResponseCopy` | `GateFilter`, `HttpServletResponseCopier`, `ServletOutputStreamCopier` | below | below |
| `HieQuery` | `HIE QUERY.md` | below | below |
| `GetPip` | `get-pip.py` 80-202 | below | below |
| `B85Decode` | `get-pip.py` 40-77 | below | below |
| `TableWidget` | `custom.js` 34-124 | below | below |
| `RequestProxy` | `GateFilter` 26-41, `RequestWrapper` 24-38, `Proxy.java` 46-81 | below | below |
| `MC...` | values of the constants for TLC | | |
| `...Proofs` | theorems and their proofs; `GateFilterProofs` has those of `RequestProxy` and of `ResponseCopy`, the two ways through `GateFilter`, `GetPipProofs` those of `GetPip` and `B85Decode`, the two parts of `get-pip.py` | | |

Definitions whose comment begins with "Seeded fault" are variants of an
operator with a plausible bug. Nothing uses them in the specifications: each
is there to confirm that a property notices the bug.

### 3.1 SampleShell

Each operator `o` has a shell with a program counter `pc[o]`. One action is one
command, or a run of commands that touches the shared state once:

| action | lines | remark |
|---|---|---|
| `StartAll` | 6-13 | the status check; a refused choice changes nothing |
| `Provision` | 15-189 | goes on or exits; detailed in `Provision` |
| `Wipe`, `Unpack` | 192, 193-197 | an archive that does not unpack leaves the shell where it was |
| `Launch` | 198-199, 222, 250, 273 | fails outside the installation directory |
| `Probe` | 201-207 and the same three times below | count, sleep, `lsof` |
| `Record` | 209-210, ... | appends to the `pid.log` of the working directory; outside `sample_to_run` that is a file nothing reads |
| `GiveUp` | 213-215, ... | `fuser -k`, exit |
| `Finish` | 292-310 | |
| `StopAll` | 311-332 | |
| `Signal`, `LastLine`, `Unlog` | 333-339, 342 | |
| `Clear` | 347-354 | |
| `Bind`, `Exit`, `Spawn`, `Visit` | external | what processes do; a client on the port of that number may be one of another host, `lsof` prints it all the same |
| `Abort`, `Reboot` | external | Ctrl-C; the host |

The four services run through the same code with another port and another
number of turns, so they are one set of actions with the service as `cur[o]`.
The tables that lines 241-245 create between the second and the third service
are data no property is about.

Working directories are modelled because they decide where `pid.log` is: `top`
(the directory of the script), `stack` (`sample_to_run`), `stale`
(`sample_to_run` after somebody deleted it: nothing can be found or created in
it by a relative name). `launched[o]` is a history variable: whether this start of
`o` launched a service. A start whose `cd` failed launches nothing, but may find
the port of a service that was left over from an earlier start, and goes on.

A process is `free` (its number was not handed out yet), `boot`, `up`, `term`
(received SIGTERM, keeps its sockets), `gone`. The kernel hands out a number
again only after a reboot; wrap-around of process numbers is left out. A
process is told apart by role: a service of the stack, a `Visitor` (some other
program on the ports), a `Bystander` (a program that never touches them).

### 3.2 Provision

`pc` walks through the loops in the script's order. `Present` (the version
check succeeds), `Install` (a turn of the loop), `OutOfTries`, `Configure`
(redis, 119-137), `MakeInMysql` (71-92, outcome ignored as in the script),
`CleanParts`, `Fetch`, `FetchGivesUp`, `Ready`. `part[i]` is the try that
fetched part i, which is how a mix of tries would show. The commands at 132-137
(remove the old `redis.conf`, move the new one, restart, `requirepass`) are run
without a look at their outcome: `redis` is then `"lost"` (the file that arrived is
not in force), `"conf"` or `"password"`, and the run goes on in any case. `HandOver` is the rest
of the start, `Interrupt` a Ctrl-C or a host that goes down; the next run finds
what the one before left. Packages are never removed.

### 3.3 UserSession

A connection `r` carries one request at a time through `sent`, `bound` (the
handler has its session), `served` (the answer is on its way). `GetSession` and
the three handlers are separate because the container's session and the map are
separate stores that other requests use in between. A login without a body is a
body like any other until `put` refuses the null that `readTree` gave
(`Refused`): an error, but one with a Set-Cookie. `Receive` is the browser
that stores the cookie, `Fail` everything that ends a request without its
answer. A login without a `user` field is one more value of `Users`.
`named` is a history variable: the users each browser ever sent in a login.

A browser with one connection waits for each answer (`Waiting`, `Patient`);
`SeenSpec` is `Identity` for those, whatever the others do beside them. `OwnUser`
is about all browsers.

### 3.4 SwitchScript

| action | lines | remark |
|---|---|---|
| `V2Remove`, `V2Install`, `V2Config` | 9-15, 17-19, 21-25 | `go.sh` installs, or nothing arrives; `config.json` is replaced by what wget got, which may be nothing |
| `V2Dy`, `V2Al`, `V2Id` | 27-36, 38-47, 49-52 | draw until `lsof` is silent, then `sed` on the file |
| `V2Start` | 54-60 | print, start |
| `SsrRemove`, `SsrClone`, `SsrConfig`, `SsrPort`, `SsrId`, `SsrStart` | 65-66, 68-79, 81-82, 84-93, 95-98, 100-108 | in the directory `cwd` that the choice is made in; every command with a relative name fails when the clone did |
| `Others`, `Crash`, `Abort`, `Reboot` | external | ports come and go, systemd restarts V2Ray, Ctrl-C |

A configuration is the record of its ports and its secret. `PutPort` does what
`sed s/.../.../g` does: it replaces every port that is the placeholder, wherever
it stands. `vrun` and `srun` are the configurations the servers were started
with; a server whose port is in use, or V2Ray with the placeholder for an id,
does not start. Whether V2Ray accepts two equal ports does not matter: the
properties are about the file. The packages' own configurations (`V2Package`,
`SsrPackage`) have ports outside the range of the draws. SSR's paths are relative,
so its directory, file and server are functions of the directory (`Dirs`): a
reinstallation elsewhere neither sees nor changes what this one holds. `stop.sh` is the
package's; it stops the server of its own directory and may stop others
(`Stopped`). A server without `user-config.json` takes the package's file
(`SsrServes`). `Show` changes nothing
and is no action; what it would print is `ShownIsServed`'s subject.

### 3.5 ResponseCopy

| action | lines | remark |
|---|---|---|
| `DoFilter` | `GateFilter` 25-42 | a new wrapper for each request |
| `GetOutputStream`, `GetWriter` | `HttpServletResponseCopier` 21-47 | the refused call throws and changes nothing |
| `Write`, `Copy` | `ServletOutputStreamCopier` 20-24 | container first, then copy; the container may throw at any byte |
| `PrintChar`, `Spill` | `HttpServletResponseCopier` 42-43 | the encoder under the writer keeps characters until it is full or flushed |
| `FlushBuffer` | 49-56 | empties the writer; the copier inherits a `flush` that does nothing |
| `Commit` | external | the container's buffer overflows |
| `Reset`, `SendError` | inherited by the wrapper (11-19) | they reach the container only |
| `LogCopy` | `GateFilter` 43-59 | after a return as after an exception |

The chain inside the filter (CORSFilter, Spring, a handler) is any client of the
response: each action is a call it may make. Bytes are numbered in the order in
which they are written, so that a lost, doubled or swapped one shows; a
character is one byte. `wrote`, `meant`, `flushed`, `failed` and `stale` are
history variables. The body of the request is the subject of `RequestProxy`. An exception
before the chain is entered leaves an empty answer and no log entry.

### 3.6 HieQuery

| action | lines | remark |
|---|---|---|
| `CallProc`, `OpenCursor`, `FetchRow`, `FetchEnd`, `TooDeep` | 10-20, 42-64 | `stack` holds one frame per call of `hieQueRecursive`: its node and the rows left in its cursor; rows come in any order |
| `Select` | 21-28 | the join of `TEMP_HIE` with the table as it is then; `rows` has the `p_id` of each selected row by `sno` |
| `CallDown`, `DownStep`, `DownTooLong`, `DownReturn` | 78-94 | one action per turn of the loop |
| `CallUp`, `UpStep`, `UpTooLong`, `UpReturn` | 107-127 | the same; `temp_id` starts as any other number |
| `Update` | external | another session inserts, moves or deletes a node |

One session calls the routines one after the other, on any table: forests, nodes
that are their own parent, cycles, parents without a row. Other sessions change
the table between two statements of a procedure; a function is part of a query
and sees one snapshot, so no `Update` happens under it. `GROUP_CONCAT` cuts what
is longer than `group_concat_max_len`, possibly within an id, and what remains of
that id may name another node (`Stubs`); the limit is counted in ids
(`MaxLevel`), as is that of `VARCHAR(60000)` (`MaxIds`). Overlong strings are
errors, as in the strict mode that is the default since MySQL 5.7.

`Descendants(r)` is the least set with `r` that is closed under children, which
is defined without recursion and for cyclic tables too. A `root_id` without a
row of its own may have children: it is in TEMP_HIE, and the join drops it.

### 3.7 GetPip and B85Decode

| action | lines | remark |
|---|---|---|
| `Mkdtemp`, `Bind`, `Unpack` | 187, 189-198 | two steps, because an interrupt may fall between the creation and the assignment |
| `ReadFlags` | 82-114 | `implicit[r]` is the set of the `implicit_...` that are True |
| `Probe` | 118-129 | once for each package; a `broken` one raises something else than ImportError (`Refused`) |
| `Scan` | 136-158 | the loop touches nothing shared |
| `WriteCert` | 160-176 | and the call of pip |
| `PipRemove`, `PipPut`, `PipDone`, `PipFail` | external | `--upgrade --force-reinstall`: one package after the other, the old version aside until the new one is in place |
| `Raise`, `RaiseUnbound` | 185-198, 187 | an exception or interrupt inside the `try` |
| `Finally`, `FinallyInPart`, `FinallyInterrupted` | 199-202 | the directory goes, goes in part, or an interrupt ends the clean-up (`ignore_errors` ignores an OSError only) |
| `Kill` | external | |

A command line is a set of tokens; `Req` says which of them are requirements and
for which package, under which name as typed. The scan does not know pip's options:
it also takes the value of one for a requirement (`--log wheel`), which pip does
not. Such a token has `pkg = "none"`: it is in `Names` and not in `Reqs`. `main` always passes a
directory, so lines 164-166 and 179-180 never act.

`B85Decode` is the decoder as functions of a text, with the sizes as constants:
`Alpha` characters in groups of `Group`, `Byte` bytes in words of `Word`.
`DecodeChunk` is a turn of the loop, `Turns` what the loop has after each turn; an
exception leaves the rest of the turns without effect. The decoder is compared
with the encoding for all `Contents` (`UndoesEncoding`) and with the place of the
first error for all `Texts` (`FirstError`). Both are formulas without variables,
which TLC evaluates once: the first as what `ZipIsWhatWasPacked` of `GetPip` says
of every zip file that `Unpack` leaves in a directory, the second as an assumption
of the run `getpip` (`ErrorsAreNamed`).

### 3.8 TableWidget

`BindSort` and `BindKey` are the calls that the page makes, `Click` and `SiftCall`
what the handlers do, each a whole function (JavaScript runs to its end). Texts
are numbers, since the comparator orders them totally (by length, then by
character). The comparator answers "smaller" both ways for equal texts; `Click`
allows every order in which no two rows stand the wrong way round where the
answers agree, which covers the sorts of the browsers. The table has at least two
rows (a sort of fewer does nothing) and one tbody. The page may have given some
header cells an onclick of their own (`own`); those call something else and are
not clicks on the widget.

### 3.9 RequestProxy

| action | lines | remark |
|---|---|---|
| `Accept`, `Break` | external, `GateFilter` 26-27 | a worker takes the request; the connection breaks while it is read |
| `ReadLine`, `ReadEnd`, `ReadBreak` | `RequestWrapper` 28-37 | after an IOException the lines so far are the body |
| `ParseFail`, `ParseDone` | `Proxy` 49-52 | `close` is the line in which the JSON text ends |
| `UrlFail`, `UrlDone` | 53-59 | before the `try` |
| `Payload`, `Execute`, `Close` | 61-80 | inside; every exception ends in `Close` |

The servers at 8080 and 9090 answer with 200, with another status, or break off.

## 4. What the runs show

| run | instance | checks | shows |
|---|---|---|---|
| `shell_solo` | 1 operator, 4 process numbers, 3 services, abort, crash and reboot | `TypeOK`, `RecordedPrefix`, `BookSpec`, `ScriptAdvances`, `ScriptEnds` | what a start that launched anything went past is listed; the script implements `StackBook`; every command brings the end of the choice nearer, and it comes |
| `shell_pair` | 2 operators, 3 process numbers, 2 services, abort and visitors | `QuietSpared` | two terminals and foreign programs never bring a bystander into `pid.log` or to its end |
| `shell_status` | 1 operator, 3 process numbers, 2 services | `StartsOnlyStopped`, violated | a disagreement between the message of line 11 and the code, section 6 |
| `provision` | 3 tries | `ToolsReady`, `PartsOfOneTry`, `RedisConfigured`, `RunAdvances`, `RunEnds` | all combinations of failures and of tools already there, repeated runs, which all end |
| `session` | 2 browsers, one with two connections, one that waits; 2 users and logins without one, 2 ids | `OwnUser`, `SeenSpec` | overlapping requests never show a browser somebody else's user; for the browser that waits, `UserSession` implements `Identity` |
| `switch` | 3 ports, 2 directories, all events | `ShownIsServed`, `PrintedIsConfigured` | no file changes under a running server; what is printed is configured |
| `switch_ports` | 3 ports, 1 directory, no events | `PortsDiffer`, violated | line 40 does not do what it is for, section 6 |
| `response` | 4 bytes | `CopyTypeOK`, `LogShowsAnswer`, `FlushedIsSent` | the log ends with what was sent; what was flushed is sent |
| `hie` | 3 nodes, recursion 2, lists of 3 ids, levels of 2, one update | `TypeOK`, `ProcExact`, `ProcShape`, `DownExact`, `UpExact`, `CallAdvances`, `CallEnds` | on every table the routines select or return what they should or fail, and they end |
| `getpip` | 2 invocations, 4 command lines, 2 environments; texts of up to 7 characters, contents of up to 4 bytes | `TypeOK`, `TmpLife`, `Outcome`, `DeclinedStays`, `NoDoubleRequirement`, `ImplicitOnlyIfAbsent`, `ZipIsWhatWasPacked`, and the assumption `ErrorsAreNamed` | overlapping, failing and interrupted invocations leave no directory but for the four reasons of `TmpLife`, and succeed together; the arguments for pip are what the comments say; the decoder undoes the encoding and names the first error |
| `widget` | 3 rows, 2 columns, 3 texts, 4 events | `TypeOK`, `ShownMatches`, `HeadSortsColumn`, `SecondClickReverses` | any table, any four calls and clicks |
| `proxy` | 2 requests, 1 worker, 2 lines | `TypeOK`, `ClientsClosed`, `HonestAnswer`, `Served` | whatever breaks, clients are closed, answers are honest, and the next request gets the worker |

### Bounds

- Services: 3 give a first, a middle and a last one. The run with two operators
  has 2, which still separates "the first was recorded" from "all were".
- `MCLimit`: the wait loops give up after 1 turn, the last service's after 2
  (after 1 with two operators, `PairLimit`), instead of 11 and 41. A process may bind before, between and after any turn
  either way, so more turns add only waiting.
- Process numbers: 4 for three services and one leftover of an earlier start,
  3 for two services and a stranger.
- `LogBound` (2 lines) bounds `pid.log` in the run with two operators; only two
  starts at once make it longer than the number of services plus strangers.
- `MaxTries` is 3, the script's own number.
- Session ids are drawn once, as the container's random ids are: the instance
  ends when all are used. 2 ids let two overlapping first requests of one
  browser end up in two sessions, and let the browser that waits lose a session
  and get another. Requests that need a third id never get an answer, other than
  failing, and are covered by the theorem `NobodyElse`.
- Ports: the two placeholders, which are numbers that the draw may yield, and an
  ordinary one. With three ports both draws may meet each placeholder, each
  other, and ports that others use. Two directories: one that was installed in, and
  another that a later choice is made in.
- `MaxBytes` is 4: one or two bytes on either side of a reset, of a flush or of
  a failure half-way through the encoder's content. The answer starts afresh
  with every request.
- `hie`: the limits are as small as they can be while each is exceeded by some
  table and kept by others; 12 is an id that begins with the text of another one.
  With three nodes a root may have two children, or a child and a grandchild, so
  a cursor goes on after a deeper call either way. A level of two, the children of
  a branching node, is returned whole; one of three (a node that is its own
  parent, with two more children) is cut. Larger tables are covered by the theorems.
- `getpip`: the lines are empty; name an option of pip, both options of the
  script and a package they decline; name two packages, one with a version, and give
  an option a value that is called like the third; name pip twice, which pip
  refuses. The host has each package present, absent or
  broken. Invocations are interchangeable, so two of them are permuted.
- The decoder: 4 characters, 5 bytes: a group of 3 holds 64 numbers and a
  word of 2 only 25, so most groups overflow, as some do with 85 and 256; 7
  characters (`MaxLen`) are two full groups and a part of a third. The real sizes
  exceed TLC's integers; the theorems hold for them, as `B85Assumption` does
  (85^5 is 4437053125, 256^4 is 4294967296).
- `widget`: three rows are the fewest that can be out of order between the
  first two and the rest; any of the two header cells may be the page's own. Four events: bind, sift, two clicks.
- `proxy`: the JSON text may end in the first or the second of two lines, so a
  body that breaks off may lack something or not.
- Symmetry: operators and process numbers, session ids and users are
  interchangeable where the instance treats them alike, and so are the two
  connections of one browser; browsers are not permuted, because `Owner` tells
  them apart. No run with symmetry checks
  liveness.

### Fairness

`ScriptEnds` assumes weak fairness of a running script's own next step (its
commands return: they do, `sleep` and `lsof` are not waiting for anybody) and
of the end of a process that received SIGTERM. It assumes neither that a
service ever comes up nor that the operator chooses anything. `RunEnds` assumes
that apt-get, wget and mysql return, with or without success. `CallEnds` assumes
that the server executes the next statement of a routine that runs. `Served`
assumes that a worker goes on, which includes that the servers at 8080 and 9090
answer or break the connection off (the client has no timeout of its own), and
that the container does not pass over one waiting request for ever (strong
fairness of `Accept`, for a connector that takes connections in order). The
other specifications state no liveness; `GetPip` has the fairness of a
process that runs on.

## 5. What is proved

`tlapm` checks all proofs; nothing is assumed but the named assumptions on the
constants (`ConstantsAssumption`, `TriesAssumption`, `SessionAssumption`,
`SwitchAssumption`, `MissingAssumption`, `BytesAssumption`, `HieAssumption`,
`ReqAssumption`, `B85Assumption`, `InputsAssumption`, `WidgetAssumption`,
`ProxyAssumption`) and what a theorem lists.

| theorem | says | hypotheses |
|---|---|---|
| `TypeCorrect` | `Spec => []TypeOK` | - |
| `BystandersSpared` | `Spec => []QuietSpared` | no reboot |
| `SoloImplementsBook` | `Spec => BookSpec` | one operator; not both visitors and reboots |
| `SoloRecordsPrefix` | `Spec => []RecordedPrefix` | one operator, no visitors |
| `ScriptComesNearer` | `Spec => ScriptAdvances` | - |
| `ToolsAreReady` | `Spec => []ToolsReady` | - |
| `OneTryFetchesBoth` | `Spec => []PartsOfOneTry` | - |
| `InstallerConfigures` | `Spec => []RedisConfigured` | - |
| `RunComesNearer` | `Spec => RunAdvances` | - |
| `NobodyElse` | `Spec => []OwnUser` | - |
| `WaitingSeesIdentity` | `Spec => SeenSpec` | - |
| `ShowTellsTheTruth` | `Spec => []ShownIsServed` | - |
| `PrintsWhatItWrote` | `Spec => []PrintedIsConfigured` | - |
| `ProvisionTypes`, `SwitchTypes` | `Spec => []TypeOK` | - |
| `CopyTypes` | `CopySpec => []CopyTypeOK` | - |
| `LogIsTrue` | `CopySpec => []LogShowsAnswer` | - |
| `FlushSends` | `CopySpec => []FlushedIsSent` | - |
| `LimitsHold` | `Spec => []TypeOK` | - |
| `ListIsATree` | `Spec => []ProcShape` | - |
| `ProcedureListsTheHierarchy` | `Spec => []ProcExact` | - |
| `DownReturnsTheHierarchy` | `Spec => []DownExact` | - |
| `UpReturnsThePath` | `Spec => []UpExact` | - |
| `CallComesNearer` | `Spec => CallAdvances` | - |
| `OptionsFiltered` | `Spec => []TypeOK` | - |
| `DirectoryRemoved` | `Spec => []TmpLife` | - |
| `DeclinedIsHonoured` | `Spec => []DeclinedStays` | - |
| `NoDoubleInstall` | `Spec => []NoDoubleRequirement` | names in small letters |
| `EverythingInstalled` | `Spec => []Outcome` | - |
| `ImplicitWhenAbsent` | `Spec => ImplicitOnlyIfAbsent` | - |
| `ZipIsRight` | `Spec => []ZipIsWhatWasPacked` | - |
| `DecodesWhatWasEncoded` | `UndoesEncoding` | - |
| `NamesTheFirst` | `FirstError` | - |
| `WidgetTypes` | `Spec => []TypeOK` | - |
| `SiftsAddUp` | `Spec => []ShownMatches` | - |
| `HeadsSort` | `Spec => HeadSortsColumn` | - |
| `ClickTurnsOver` | `Spec => SecondClickReverses` | - |
| `ProxyTypes` | `Spec => []TypeOK` | - |
| `OnlyWithoutUrl` | `Spec => []ClientsClosed` | - |
| `AnswersAreHonest` | `Spec => []HonestAnswer` | - |

*TypeCorrect.* `TypeInv` adds to `TypeOK` that a process that boots has the role
of a service: the port it binds next is then a service's.

*BystandersSpared.* `QuietSpared` is not inductive: a number gets into `pid.log`
through `found`, and into `found` through a socket. `QuietInv` says that
everything in `pid.log` and in any `found` is `Traced` (handed out, and no
bystander), and that neither bystanders nor numbers that were not handed out
have sockets on a port of the stack. A number that is not handed out twice keeps
its role, hence the hypothesis: after a reboot a number in an old `pid.log` may
be a bystander's.

*SoloImplementsBook.* `BookInv` relates `pid.log` to the label: until a start
reaches its first launch, `pid.log` is empty; in the kill loop, the lines before
`ROWNUM` belong to processes that are not running, and after it all lines do.
With visitors and reboots together a new stranger may get a number that the kill
loop has passed already, which is the case the hypothesis excludes.

*SoloRecordsPrefix.* The property has an exception, for a start whose `cd` failed:
it goes past a service whose port is held by a process that an earlier start left,
writes to a file nothing reads, and has launched nothing. `PrefixInv` says that
this is the only way to be outside `sample_to_run` after the unpacking, and
carries the property through `found`: with nobody else on the ports, what `lsof` prints for the port of a service was
launched as that service, and while a start runs the numbers in `pid.log` and
`found` are not handed out again, so recording extends the prefix by one.

*ScriptComesNearer.* The measure of a script are three numbers in the order of the
dictionary: the part it is in, in its two loops the services or the lines of
`pid.log` that are left, and the turns left of a wait loop. That the last never
gets below zero is the invariant `Patience` (a loop that goes on has not counted
beyond its limit). `StepAdvances` goes through the commands. For what others do
to a script, `OthersKeep` says that it is as far from its end as before unless
pid.log disappears, which only shortens the kill loop. The exception in the
property is real: with two terminals a start may append to `pid.log` while the
other one's kill loop reads it (`TerminalsKeep` shows that this is the only
case), and a terminal that kept on starting could keep that loop going.

*Provision.* `ProvInv` adds to the three properties that the parts on the disk,
once the download has begun, are of the current try or absent, and that between
`conf` and the end of its loop redis is installed and not at its defaults.
The measure of `RunComesNearer` is one number, because `MaxTries` bounds what a
loop can take: a loop that is left outweighs all the tries of the next
(`LoopOutweighsTries`), and of a loop's tries each takes two, so that the step in
between that fetches `redis.conf` has one of its own.

*NobodyElse.* `OwnInv` is about all three stores: an id is held by one browser
only (in its cookie or in its requests), the ids that anybody holds were drawn,
the map's entry for an id is a user that the browser holding it named, and
there is none for an id that was not drawn. The entries of sessions that expired
are harmless just because ids are never drawn twice.

*WaitingSeesIdentity.* The refinement mapping reads the user of a waiting browser
off its one connection: the map's entry for the session the request is bound to,
or for the cookie's while none is. `WaitInv` adds to `OwnInv` that a connection
that is not in use carries nothing, that there is no answer before the handler
has run, that the cookie does not change while the request is under way, and
that the request is bound to another session than the cookie's only if that one
is dead. Each step of the browser's own request is then a step of `Identity` or
a stutter, and `NobodyElseSees` that a step of any other browser is a stutter:
by `OwnInv` it touches none of the ids this browser holds.

*SwitchScript.* `SwitchInv` adds that no server runs while its file is rewritten
(from the removal to the start of the same server, for SSR in the directory of the
choice), that there is no file where there is no directory, and, in `SubstInv`, what the
file contains after each substitution: after the first, the first port is the
draw and the second still the placeholder; after the second, the first port is
the draw unless the draw was the second placeholder.

*ResponseCopy.* `LogShowsAnswer` is about the end of a request; `CopyInv` keeps
that the copy ends with what was sent at every moment, that stream and writer
exclude each other, that an answer in error is empty, and that sent bytes and
encoder together are what the chain meant, which is what a flush then completes.
`CopyKeeps` says what the copier does to it however many bytes get through, and
`EndsWithBoth` that appending the same bytes to both sides keeps one the end of
the other.

*HieQuery.* `ListIsATree` needs the depths of the rows and of the stack together:
a row's depth is the number of calls that were open when it was inserted, and
the stack never grows by more than one beyond the last row's depth. For
`DownExact` the invariant says that the levels so far are disjoint, each the
children of the one before, that everything the children of the last level lead
to is still to come, and that all of it descends from the root; a least set is
reasoned about by the closed sets that contain the root, so no induction is
needed. `UpExact` is the same upwards, along a path.

`ProcExact` needs three things at once until the recursion has ended (`ProcInv`).
From them `ProcWhole` gets what it leaves to the SELECT (`Whole`): the list is the
whole hierarchy, each node once, each but the first a row under its parent, and
`ProcSelects` that the join drops the first at most. `Chain`: the rows below
root_id each stand under their parent, and all rows after the row of an open
call are deeper. `Returned`: there is a set of nodes whose calls have come back
that is closed under children, and each child of an open call's node is in it,
still in the cursor, or the next open call. `Once`: as long as root_id is not
below itself no node is listed twice. None of the nodes in the set is on a
cycle, because a node gets in only after its children did; so when the first
call returns root_id is on no cycle either, the list has each node once, and the
closed set shows that none is missing. On a table with a cycle the first call
never returns that way: the recursion limit ends it, which is a step to
"failed".

`CallComesNearer` has a measure of `MaxDepth + 1` numbers: for each open call of
`hieQueRecursive` the rows in its cursor and its return. A fetched row puts a new
call behind the one whose number it lowers, and a cursor is fixed when it is
opened, so no other session can lengthen it; for the functions the room that is
left in the string falls. The limits enter as the number of places and as the
value of the first one. No table has to be free of cycles for it.

*GetPip.* `ArgsInv` says what bootstrap knows at each statement: before the scan
the arguments are the command line without the script's options, after it the
implicit packages are appended and none of them has the name of a requirement
that was given. `NoDoubleInstall` follows from it when names are typed in small
letters (`SmallLetters`), without which it is false (section 6). `Outcome` is not
inductive, because a package may be absent for a moment: in `OutInv` a package
that was not declined is still to be installed, or there, or held aside by some
invocation, as long as none has failed.

`ImplicitOnlyIfAbsent` is about one step of pip; `AbsentInv` carries to it what the
imports found: as long as no other invocation has begun, setuptools and wheel,
where they are implicit and still to be installed, are absent. What pip then finds
present and removes was asked for on the command line.

*B85Decode.* Its loops are recursive functions, about which nothing is known until
they are shown to exist. `AllNumbers` is induction in the form the provers can
use (a set that has 0, and n + 1 with n, has every number; it follows from
`WFMin` of the library), `LoopRuns` says that a loop whose turns stay in a set
has a value after every turn, and `PowerIs`, `ValuesAre` and `TurnsAre` are the
loops of the model. The lemmas after them are about numbers: the first m digits of
a number are its quotient by the rest's power (`PlacesRead`), and what is near
enough to the value of m digits begins with them (`PlacesOf`).
`WordComesBack` is the heart of the matter: the value of the last word is a
multiple of 256^f, where f is the number of zeros it was filled up with, and the
highest digits in place of the f characters that were dropped make it larger by
less than 85^f. That is at most 256^f, so no byte before the last f changes and
the word does not overflow. `Alpha <= Byte` is needed here, and `Word <= Group`
for f characters to be part of one group. `TurnDecodes` puts the words
one after the other, `Filled` and `FillIs` say that as many bytes are cut off as
were filled up. For `NamesTheFirst`, `TurnReports` says what one turn reports and
`GroupIsChunk` that a group of the text and the chunk of what the text is filled up
to are the same, so the filling has no error at a place of its own.

*TableWidget.* `WidgetInv` adds `Numbered` to `TypeOK` and `ShownMatches`: the header
cells are bound all at once, and one with no cell of the page's own before it is
bound to its own column, which is what `HeadsSort` needs. For `ClickTurnsOver`,
`at` maps each place of the new order to the place its row had before; by the two
orders this function falls, and `CountDown` says that the only one that falls from
1..n to 1..n is n + 1 - k, the reverse. Again the induction goes through
`AllNumbers`.

*RequestProxy.* `WayInv` says at which steps a client is open and that from
"payload" on the body was read to the end of its JSON text and the target is the
one that the url names. `WorkersStep` counts the requests at work.

Only model-checked: `ScriptEnds`, `RunEnds`, `CallEnds` and `Served`, because liveness
under fairness is out of the prover's reach. Of the first three the half that
is about the code is proved: `ScriptAdvances`, `RunAdvances` and `CallAdvances`
say that each step lowers a measure made of natural numbers, which can happen
finitely often only. The other half, that a script, a run or a routine which
has not ended has a step to take and takes it, is about fairness and ENABLED
and stays with TLC (for `ScriptEnds` with one operator; with several, see the
exception of `ScriptAdvances`). Every other property of a passing run is
stated by a theorem. The type invariants of `Provision` and `SwitchScript` are
proved and in no run: the theorems say all that a run could. The two runs that end in a violation have nothing to prove.

## 6. Where the code and its own words differ

`StartsOnlyStopped` states what line 11 of `sample_to_run.sh` says ("please stop
all processes first"). The check above it looks for `pid.log`. In the run's
counterexample the first service boots slowly: the wait loop gives up, `fuser`
finds nobody on the port, the script exits without a `pid.log`, and the next
start goes past the check with the process still there. That process binds the
port later and is not the one the new start launched.

`PortsDiffer` states what the loop condition at line 40 of `switch.sh` asks:
`[[ port_al == port_dy ]]`, draw again while the ports are equal. Without the
dollar signs it compares two different words and is always false. V2Ray is
stopped at that moment, so `lsof` does not object to the first port either, and
both inbounds get the same port. `PrintedIsConfigured` has an exception for a
related accident: a first port that happens to be 22222 is replaced by the
second substitution, and the first port that is printed is then in no file.

The following differences are exceptions in a property or hypotheses of a
theorem and have no run of their own.

`RecordedPrefix`: a start does not look whether `cd sample_to_run` (197) worked. When
it did not, the launches fail, but a process that an earlier start left behind may
bind its port meanwhile; `lsof` finds it, and the start goes past the service with a
line in another `pid.log` (the one beside the script, which no stop reads).

`ShownIsServed`: when the download at line 82 of `switch.sh` fails, line 81 has
removed `user-config.json` already. The server runs with the package's file; Show
prints sed's complaint. Show also knows SSR only in the directory it is called
from, and a reinstallation from another one leaves the old server where it is
unless the package's `stop.sh` ends it.

`ProcExact`: the final join drops a `root_id` without a row, although its
descendants are listed with depths from 1.

`TmpLife` states the comment "Clean up our temporary working directory" (line 200)
with four exceptions: a kill; an interrupt between the creation of the directory and
its assignment (187), when `tmpdir` is still None; an interrupt during the clean-up
(199-202), which `ignore_errors` does not ignore; files that cannot be removed.

`Outcome`: the scan at 136-147 takes every argument that reads as a requirement for
one. In `--log wheel` the value of the option turns the implicit install of wheel
off, and pip installs no wheel (`Misread`).

`NoDoubleRequirement` states the comment at lines 131-135 of `get-pip.py`: an
argument that is "a specific for one of our packages" turns off the implicit
install. The scan compares names as they were typed. With `Pip<8` the comparison
with "pip" fails, the implicit install stays on, and pip is given both, which it
refuses because for it the names are the same. `SmallLetters` is the hypothesis
under which the comment is right.

`ImplicitOnlyIfAbsent` states lines 116-117 for an invocation while no other one
has begun (`Alone`). With two, one may look for setuptools while pip, called by
the other, has it aside; it then installs setuptools although by that time it is
there. What it leads to is harmless (`Outcome`), unlike what the comment wants.

`HeadSortsColumn` states line 82 of `custom.js`. The index of a header cell is
counted over the cells that get a handler in this call. `widget` shows that this
is right when no cell before it has an onclick of its own, also when the function
is called again; one that has shifts all cells behind it, which sort by the
column to their left.

Two more hypotheses of section 5 mark limits of the code rather than of the
proofs: `pid.log` outlives a reboot (numbers then belong to other programs), and
a redis that an interrupted run installed keeps the package's defaults for good,
since later runs find redis present and configure only what they install
themselves (`RedisConfigured` therefore speaks of `~had`).

## 7. What is not modelled, and why

- The configuration of section 1.8: weights and stickiness are parameters of
  servers (mod_jk, Tomcat, nginx) whose code is not in the repository, and a
  model of them would be a model of something else.
- `controller/Test.java`, the Spring wiring and CORSFilter: handlers that print
  their arguments, and headers that no other part reads.
- The form and uuid helpers of `custom.js` (1-32): functions from a form or from a
  random number to a text, without state.
- `get-pip.py` 89-98 (the default of `--cert`), and the 23266 lines of the encoded
  zip file: they are data. The map covers the code of that file, which is about
  one per cent of its lines; no further definition could add to that.
- The headers that `Proxy.addHeader` copies, and timeouts of the proxied servers
  (there are none: a server that never answers keeps a worker for ever).
- An argument of `get-pip.py` whose environment marker does not hold: pip skips
  it, and the package is then not installed at all.

Of the modelled parts,
these are left out: wrap-around of process numbers, removal of packages, edits of
`pid.log` by hand, the content of downloads (a truncated part shows as an archive
that does not unpack), the database's tables, and the text that is printed. A port that is taken between
`lsof` and the start of a server (`switch.sh` 28) lets the server fail to start;
the script promises nothing about it, and no property is stated.
