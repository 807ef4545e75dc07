--------------------------- MODULE GateFilterProofs ---------------------------
(***************************************************************************)
(* Both halves of the way of a request through GateFilter. The request:    *)
(* any number of requests and workers, bodies of any length; which HTTP    *)
(* clients stay open, and whose answer a caller gets. The answer: the      *)
(* logged body ends with the body that was sent, and what a flushing chain *)
(* wrote is sent, for answers of any length.                               *)
(***************************************************************************)
EXTENDS RequestProxy, ResponseCopy, FiniteSetTheorems, SequenceTheorems, TLAPS

-----------------------------------------------------------------------------
(* RequestProxy.                                                           *)

Working == {r \in Requests : pc[r] \in Busy}

Port(r) == IF body[r].url = "stat" THEN "9090" ELSE "8080"

(* What holds of a request at each of its steps.                           *)
Way(r) ==
    /\ pc[r] = "url" => read[r] >= body[r].close \/ read[r] = 0
    /\ pc[r] \in {"payload", "execute", "close", "answered"} =>
         read[r] >= body[r].close /\ target[r] = Port(r)
    /\ r \in open =>
         \/ pc[r] \in {"url", "payload", "execute", "close"}
         \/ pc[r] = "error" /\ NoUrl(r)
    /\ answer[r] = "content" => pc[r] = "answered" /\ said[r] = "ok"

WayInv == \A r \in Requests : Way(r)

LEMMA TypesInit == Init => TypeOK
<1> SUFFICES ASSUME Init PROVE TypeOK
  OBVIOUS
<1>1. Working = {}
  BY DEF Init, Working, Busy
<1>2. Cardinality(Working) <= Workers
  BY <1>1, FS_EmptySet, ProxyAssumption DEF ProxyAssumption
<1>3. Cardinality({r \in Requests : pc[r] \in Busy}) <= Workers
  BY <1>2 DEF Working
<1>4. 0 \in 0..MaxLines
  BY ProxyAssumption DEF ProxyAssumption
<1> QED
  BY <1>3, <1>4 DEF Init, TypeOK, Over, Busy

(* The container gives work to a worker that has none.                     *)
LEMMA WorkersStep == TypeOK /\ [Next]_vars => Cardinality(Working)' <= Workers
<1> SUFFICES ASSUME TypeOK, [Next]_vars PROVE Cardinality(Working') <= Workers
  OBVIOUS
<1>1. IsFiniteSet(Working) /\ Cardinality(Working) \in Nat /\ Cardinality(Working) <= Workers
  BY FS_Subset, FS_CardinalityType, ProxyAssumption DEF ProxyAssumption, Working, TypeOK
<1>2. ASSUME NEW r \in Requests, Accept(r)
      PROVE  Cardinality(Working') <= Workers
  <2>1. Working' = Working \cup {r} /\ Cardinality(Working) < Workers
    BY <1>2 DEF Accept, Goto, Working, TypeOK, Busy
  <2>2. Cardinality(Working') \in {Cardinality(Working), Cardinality(Working) + 1}
    BY <1>1, <2>1, FS_AddElement
  <2> QED
    BY <1>1, <2>1, <2>2, ProxyAssumption DEF ProxyAssumption
<1>3. CASE Working' \subseteq Working
  <2>1. Cardinality(Working') \in Nat /\ Cardinality(Working') <= Cardinality(Working)
    BY <1>1, <1>3, FS_Subset, FS_CardinalityType
  <2> QED
    BY <1>1, <2>1, ProxyAssumption DEF ProxyAssumption
<1>4. ASSUME NEW r \in Requests, Break(r) \/ Work(r)
      PROVE  Working' \subseteq Working
  BY <1>4 DEF Break, Work, Goto, Working, TypeOK, Busy, Over, ReadLine, ReadEnd, ReadBreak,
              ParseFail, ParseDone, UrlFail, UrlDone, Payload, Execute, Close
<1>5. CASE UNCHANGED vars
  BY <1>3, <1>5 DEF vars, Working
<1> QED
  BY <1>2, <1>3, <1>4, <1>5 DEF Next

LEMMA TypesStep == TypeOK /\ [Next]_vars => TypeOK'
<1> SUFFICES ASSUME TypeOK, [Next]_vars PROVE TypeOK'
  OBVIOUS
<1>1. Cardinality({r \in Requests : pc[r] \in Busy})' <= Workers
  BY WorkersStep DEF Working
<1> DEFINE Types ==
      /\ body \in [Requests -> Bodies]
      /\ pc \in [Requests -> Over \cup Busy \cup {"waiting"}]
      /\ broken \subseteq Requests /\ read \in [Requests -> 0..MaxLines]
      /\ open \subseteq Requests
      /\ target \in [Requests -> {"none", "8080", "9090"}]
      /\ said \in [Requests -> {"nothing", "ok", "failure"}]
      /\ answer \in [Requests -> {"none", "empty", "content"}]
<1> USE DEF TypeOK, Over, Busy, Goto
<1>2. ASSUME NEW r \in Requests, ReadLine(r)
      PROVE  Types'
  <2>1. body[r].lines \in 1..MaxLines
    BY DEF Bodies
  <2>2. read[r] + 1 \in 0..MaxLines
    BY <1>2, <2>1, ProxyAssumption DEF ReadLine, ProxyAssumption
  <2> QED
    BY <1>2, <2>2 DEF ReadLine
<1>3. ASSUME NEW r \in Requests,
             Accept(r) \/ Break(r) \/ ReadEnd(r) \/ ReadBreak(r) \/ ParseFail(r) \/ ParseDone(r)
      PROVE  Types'
  BY <1>3 DEF Accept, Break, ReadEnd, ReadBreak, ParseFail, ParseDone
<1>4. ASSUME NEW r \in Requests, UrlFail(r) \/ UrlDone(r)
      PROVE  Types'
  BY <1>4 DEF UrlFail, UrlDone
<1>5. ASSUME NEW r \in Requests, Payload(r) \/ Execute(r) \/ Close(r)
      PROVE  Types'
  BY <1>5 DEF Payload, Execute, Close, Result
<1>6. CASE UNCHANGED vars
  BY <1>6 DEF vars
<1>7. Types'
  BY <1>2, <1>3, <1>4, <1>5, <1>6 DEF Next, Work
<1> QED
  BY <1>1, <1>7

(* Every request is at one of the steps of the code, with at most one line *)
(* per line that was sent, and at most Workers are at work at a time.      *)
THEOREM ProxyTypes == Spec => []TypeOK
  BY TypesInit, TypesStep, PTL DEF Spec

-----------------------------------------------------------------------------
LEMMA WayStep == TypeOK /\ WayInv /\ [Next]_vars => WayInv'
<1> SUFFICES ASSUME TypeOK, WayInv, [Next]_vars, NEW q \in Requests PROVE Way(q)'
  BY DEF WayInv
<1>1. Way(q)
  BY DEF WayInv
<1>2. body[q].close \in 1..MaxLines /\ read[q] \in 0..MaxLines /\ body' = body
  BY DEF TypeOK, Bodies, Next, Work, vars, Accept, Break, ReadLine, ReadEnd, ReadBreak,
         ParseFail, ParseDone, UrlFail, UrlDone, Payload, Execute, Close
<1> USE DEF TypeOK, Goto, Way, NoUrl, Port
<1>3. CASE /\ pc'[q] = pc[q] /\ read'[q] = read[q] /\ target'[q] = target[q]
           /\ said'[q] = said[q] /\ answer'[q] = answer[q]
           /\ q \in open' => q \in open
  BY <1>1, <1>2, <1>3
<1>4. ASSUME NEW r \in Requests, Accept(r) \/ Break(r) \/ Work(r), r # q
      PROVE  Way(q)'
  BY <1>3, <1>4 DEF Work, Accept, Break, ReadLine, ReadEnd, ReadBreak,
         ParseFail, ParseDone, UrlFail, UrlDone, Payload, Execute, Close
<1>5. ASSUME Accept(q) \/ Break(q) \/ ReadLine(q) \/ ReadEnd(q) \/ ReadBreak(q)
      PROVE  Way(q)'
  BY <1>1, <1>2, <1>5 DEF Accept, Break, ReadLine, ReadEnd, ReadBreak
<1>6. ASSUME ParseFail(q) \/ ParseDone(q)
      PROVE  Way(q)'
  BY <1>1, <1>2, <1>6 DEF ParseFail, ParseDone
<1>7. ASSUME UrlFail(q) \/ UrlDone(q)
      PROVE  Way(q)'
  BY <1>1, <1>2, <1>7 DEF UrlFail, UrlDone
<1>8. ASSUME Payload(q) \/ Execute(q)
      PROVE  Way(q)'
  BY <1>1, <1>2, <1>8 DEF Payload, Execute
<1>9. ASSUME Close(q)
      PROVE  Way(q)'
  BY <1>1, <1>2, <1>9 DEF Close, Result
<1>10. CASE UNCHANGED vars
  BY <1>3, <1>10 DEF vars
<1> QED
  BY <1>4, <1>5, <1>6, <1>7, <1>8, <1>9, <1>10 DEF Next, Work

LEMMA WayAlways == Spec => []WayInv
<1>1. Init => WayInv
  BY DEF Init, WayInv, Way
<1> QED
  BY <1>1, ProxyTypes, WayStep, PTL DEF Spec

(* Whatever goes wrong between the filter and the answer, the HTTP client  *)
(* is closed unless there was no legal url to forward to (lines 52-59).    *)
THEOREM OnlyWithoutUrl == Spec => []ClientsClosed
<1>1. TypeOK /\ WayInv => ClientsClosed
  BY DEF TypeOK, WayInv, Way, ClientsClosed, Over
<1> QED
  BY <1>1, ProxyTypes, WayAlways, PTL

(* A caller gets content only from the right server, for a body that was   *)
(* read to the end of its JSON text, though the wrapper takes whatever it  *)
(* has read at an error for the whole body (RequestWrapper 34).            *)
THEOREM AnswersAreHonest == Spec => []HonestAnswer
<1>1. TypeOK /\ WayInv => HonestAnswer
  BY DEF TypeOK, WayInv, Way, HonestAnswer, Port
<1> QED
  BY <1>1, ProxyTypes, WayAlways, PTL

-----------------------------------------------------------------------------
(* ResponseCopy.                                                           *)

(* While the chain runs, the copy already ends with what was sent; and     *)
(* what was sent and what the encoder holds are what the chain meant.      *)
CopyInv ==
    /\ CopyTypeOK
    /\ stream => ~writer
    /\ ~writer => buf = <<>>
    /\ err => sent = <<>>
    /\ EndsWith(copy, sent)
    /\ LogShowsAnswer
    /\ flushed => buf = <<>>
    /\ ~failed /\ ~err /\ ~stale => meant = sent \o buf

LEMMA BytesNat == MaxBytes \in Nat
  BY BytesAssumption DEF BytesAssumption

(* What both sequences gain at the end, and what only the first one has    *)
(* before, does not matter.                                                *)
LEMMA EndsWithBoth ==
    ASSUME NEW s \in Bytes, NEW t \in Bytes, NEW u \in Bytes, EndsWith(s, t)
    PROVE  EndsWith(s \o u, t \o u)
<1>1. Len(s \o u) = Len(s) + Len(u) /\ Len(t \o u) = Len(t) + Len(u)
  BY DEF Bytes
<1>2. Len(s) \in Nat /\ Len(t) \in Nat /\ Len(u) \in Nat /\ Len(t) <= Len(s)
  BY DEF Bytes, EndsWith
<1>3. ASSUME NEW i \in 1..Len(t \o u)
      PROVE  (s \o u)[Len(s \o u) - Len(t \o u) + i] = (t \o u)[i]
  <2>1. Len(s \o u) - Len(t \o u) + i = Len(s) - Len(t) + i
    BY <1>1, <1>2
  <2>2. CASE i <= Len(t)
    <3>1. i \in 1..Len(t) /\ Len(s) - Len(t) + i \in 1..Len(s)
      BY <1>1, <1>2, <2>2
    <3>2. (t \o u)[i] = t[i]
      BY <3>1 DEF Bytes
    <3>3. (s \o u)[Len(s) - Len(t) + i] = s[Len(s) - Len(t) + i]
      BY <3>1 DEF Bytes
    <3> QED
      BY <2>1, <3>1, <3>2, <3>3 DEF EndsWith
  <2>3. CASE i > Len(t)
    <3>1. /\ i - Len(t) \in 1..Len(u)
          /\ (Len(s) - Len(t) + i) - Len(s) = i - Len(t)
          /\ Len(s) - Len(t) + i \in 1..(Len(s) + Len(u))
          /\ Len(s) - Len(t) + i > Len(s)
      BY <1>1, <1>2, <2>3
    <3>2. (t \o u)[i] = u[i - Len(t)]
      BY <1>1, <1>2, <2>3 DEF Bytes
    <3>3. (s \o u)[Len(s) - Len(t) + i] = u[i - Len(t)]
      BY <3>1 DEF Bytes
    <3> QED
      BY <2>1, <3>2, <3>3
  <2> QED
    BY <1>1, <1>2, <2>2, <2>3
<1> QED
  BY <1>1, <1>2, <1>3 DEF EndsWith

LEMMA EmptyBytes == <<>> \in Bytes /\ Len(<<>>) = 0 /\ <<>> \o <<>> = <<>>
  BY EmptySeq, ConcatEmptySeq DEF Bytes

LEMMA EmptyAtEnd == ASSUME NEW s \in Bytes PROVE s \o <<>> = s
  BY ConcatEmptySeq DEF Bytes

LEMMA ConcatBytes ==
    ASSUME NEW s \in Bytes, NEW t \in Bytes, NEW u \in Bytes
    PROVE  (s \o t) \o u = s \o (t \o u)
<1> DEFINE S == 1..MaxBytes
<1>1. s \in Seq(S) /\ t \in Seq(S) /\ u \in Seq(S)
  BY DEF Bytes
<1> HIDE DEF S
<1> QED
  BY <1>1, ConcatAssociative

LEMMA EndsWithSame ==
    ASSUME NEW s \in Bytes
    PROVE  EndsWith(s, <<>>)
  BY DEF Bytes, EndsWith

(* What the copier does with the bytes it is given.                        *)
LEMMA CopyKeeps ==
    ASSUME CopyInv, NEW s \in Bytes, Copy(s), UNCHANGED err
    PROVE  /\ sent' \in Bytes /\ copy' \in Bytes /\ failed' \in BOOLEAN
           /\ Len(copy') <= Len(copy) + Len(s)
           /\ err' => sent' = <<>>
           /\ EndsWith(copy', sent')
           /\ ~failed' /\ ~err => ~failed /\ sent' = sent \o s
<1> USE DEF CopyInv
<1>1. sent \in Bytes /\ copy \in Bytes /\ failed \in BOOLEAN
  BY DEF CopyTypeOK
<1>2. PICK k \in 0..Len(s) :
         /\ sent' = IF err THEN sent ELSE sent \o SubSeq(s, 1, k)
         /\ copy' = copy \o SubSeq(s, 1, k)
         /\ failed' = (failed \/ k < Len(s))
  BY DEF Copy
<1> DEFINE u == SubSeq(s, 1, k)
<1>3. u \in Bytes /\ Len(u) <= Len(s) /\ (k = Len(s) => u = s)
  <2>1. Len(s) \in Nat /\ \A i \in 1..k : s[i] \in 1..MaxBytes
    <3>1. Len(s) \in Nat /\ s \in Seq(1..MaxBytes)
      BY DEF Bytes
    <3>2. \A i \in 1..k : i \in 1..Len(s)
      BY <3>1
    <3>3. \A i \in 1..Len(s) : s[i] \in 1..MaxBytes
      BY <3>1, ElementOfSeq
    <3> QED
      BY <3>1, <3>2, <3>3
  <2>2. u \in Bytes /\ Len(u) = IF 1 <= k THEN k - 1 + 1 ELSE 0
    BY <2>1, SubSeqProperties DEF Bytes
  <2>3. k = Len(s) => u = s
    BY SubSeqFull DEF Bytes
  <2> QED
    BY <2>1, <2>2, <2>3
<1> HIDE DEF u
<1>4. copy' \in Bytes /\ Len(copy') <= Len(copy) + Len(s)
  BY <1>1, <1>2, <1>3 DEF Bytes, u
<1>5. sent' \in Bytes
  <2>1. sent \o u \in Bytes
    BY <1>1, <1>3 DEF Bytes
  <2> QED
    BY <1>1, <1>2, <2>1 DEF u
<1>6. EndsWith(copy', sent')
  <2>1. CASE err
    BY <1>2, <1>4, <2>1, EndsWithSame
  <2>2. CASE ~err
    BY <1>1, <1>2, <1>3, <2>2, EndsWithBoth DEF u
  <2> QED
    BY <2>1, <2>2
<1>7. ~failed' => ~failed /\ k = Len(s)
  <2>1. ~failed' => ~failed /\ ~(k < Len(s))
    BY <1>2
  <2>2. Len(s) \in Nat
    BY DEF Bytes
  <2> QED
    BY <2>1, <2>2
<1> QED
  BY <1>1, <1>2, <1>3, <1>4, <1>5, <1>6, <1>7 DEF u

(* An answer nobody has written to yet.                                    *)
LEMMA FreshAnswer ==
    /\ EndsWith(<<>>, <<>>)
    /\ 0 \in 0..MaxBytes
    /\ Len(<<>>) + Len(<<>>) <= 0
<1>1. <<>> \in Bytes /\ Len(<<>>) = 0
  BY EmptyBytes
<1> QED
  BY <1>1, BytesNat, EndsWithSame

LEMMA CopyInvInit == CopyInit => CopyInv
<1> SUFFICES ASSUME CopyInit PROVE CopyInv
  OBVIOUS
<1>1. CopyTypeOK
  <2>1. Len(copy) + Len(buf) <= wrote /\ wrote \in 0..MaxBytes
    BY FreshAnswer DEF CopyInit
  <2> QED
    BY <2>1, EmptyBytes DEF CopyInit, CopyTypeOK
<1>2. EndsWith(copy, sent) /\ LogShowsAnswer
  BY FreshAnswer DEF CopyInit, LogShowsAnswer
<1>3. meant = sent \o buf
  BY EmptyBytes DEF CopyInit
<1> QED
  BY <1>1, <1>2, <1>3 DEF CopyInit, CopyInv

LEMMA CopyInvStep == CopyInv /\ [CopyNext]_copyVars => CopyInv'
<1> SUFFICES ASSUME CopyInv, [CopyNext]_copyVars PROVE CopyInv'
  OBVIOUS
<1> USE DEF CopyInv
<1>0. /\ buf \in Bytes /\ copy \in Bytes /\ sent \in Bytes /\ logged \in Bytes /\ meant \in Bytes
      /\ Len(buf) \in Nat /\ Len(copy) \in Nat /\ wrote \in 0..MaxBytes
      /\ Len(copy) + Len(buf) <= wrote
  BY DEF CopyTypeOK, Bytes
<1>1. CASE DoFilter
  <2>1. CopyTypeOK'
    <3>1. Len(copy') + Len(buf') <= wrote' /\ wrote' \in 0..MaxBytes
      BY <1>1, FreshAnswer DEF DoFilter
    <3> QED
      BY <1>0, <1>1, <3>1, EmptyBytes DEF DoFilter, CopyTypeOK
  <2>2. EndsWith(copy', sent') /\ LogShowsAnswer'
    BY <1>1, FreshAnswer DEF DoFilter, LogShowsAnswer
  <2>3. meant' = sent' \o buf'
    BY <1>1, EmptyBytes DEF DoFilter
  <2> QED
    BY <1>1, <2>1, <2>2, <2>3 DEF DoFilter
<1>2. CASE GetOutputStream
  BY <1>2 DEF GetOutputStream, CopyTypeOK, LogShowsAnswer, response, history
<1>3. CASE GetWriter
  BY <1>3 DEF GetWriter, CopyTypeOK, LogShowsAnswer, response, history
<1>4. CASE Write
  <2>1. /\ wrote' = wrote + 1 /\ wrote' \in 1..MaxBytes /\ st' = "chain"
        /\ buf = <<>> /\ buf' = <<>>
        /\ meant' = Append(meant, wrote') /\ Copy(<<wrote'>>)
        /\ UNCHANGED <<stream, writer, committed, err, logged, flushed, stale>>
    BY <1>0, <1>4, BytesNat DEF Write
  <2>2. <<wrote'>> \in Bytes /\ Len(<<wrote'>>) = 1
    BY <2>1 DEF Bytes
  <2>3. /\ sent' \in Bytes /\ copy' \in Bytes /\ failed' \in BOOLEAN
        /\ Len(copy') <= Len(copy) + 1
        /\ err' => sent' = <<>>
        /\ EndsWith(copy', sent')
        /\ ~failed' /\ ~err => ~failed /\ sent' = sent \o <<wrote'>>
    BY <2>1, <2>2, CopyKeeps
  <2>4. meant' \in Bytes
    BY <1>0, <2>1 DEF Bytes
  <2>5. Len(copy') + Len(buf') <= wrote'
    BY <1>0, <2>1, <2>3 DEF Bytes
  <2>6. ~failed' /\ ~err' /\ ~stale' => meant' = sent' \o buf'
    <3> SUFFICES ASSUME ~failed', ~err, ~stale PROVE meant' = sent' \o <<>>
      BY <2>1
    <3>1. meant = sent \o <<>> /\ sent' = sent \o <<wrote'>>
      BY <2>1, <2>3
    <3> QED
      BY <1>0, <2>1, <2>3, <3>1 DEF Bytes
  <2>7. CopyTypeOK'
    BY <1>0, <2>1, <2>3, <2>4, <2>5 DEF CopyTypeOK, Bytes
  <2> QED
    BY <2>1, <2>3, <2>6, <2>7 DEF LogShowsAnswer
<1>5. CASE PrintChar
  <2>1. /\ wrote' = wrote + 1 /\ wrote' \in 1..MaxBytes /\ st' = "chain"
        /\ meant' = Append(meant, wrote') /\ buf' = Append(buf, wrote')
        /\ flushed' = FALSE /\ writer
        /\ UNCHANGED <<stream, writer, copy, sent, committed, err, logged, failed, stale>>
    BY <1>0, <1>5, BytesNat DEF PrintChar, response
  <2>2. meant' \in Bytes /\ buf' \in Bytes /\ Len(buf') = Len(buf) + 1
    BY <1>0, <2>1 DEF Bytes
  <2>3. ~failed' /\ ~err' /\ ~stale' => meant' = sent' \o buf'
    <3> SUFFICES ASSUME ~failed, ~err, ~stale
                 PROVE  Append(meant, wrote') = sent \o Append(buf, wrote')
      BY <2>1
    <3>1. meant = sent \o buf
      OBVIOUS
    <3>2. <<wrote'>> \in Bytes
      BY <2>1 DEF Bytes
    <3>3. /\ Append(meant, wrote') = (sent \o buf) \o <<wrote'>>
          /\ Append(buf, wrote') = buf \o <<wrote'>>
      BY <1>0, <2>1, <3>1, AppendIsConcat DEF Bytes
    <3>4. (sent \o buf) \o <<wrote'>> = sent \o (buf \o <<wrote'>>)
      BY <1>0, <3>2, ConcatBytes
    <3> QED
      BY <3>3, <3>4, Zenon
  <2>4. Len(copy') + Len(buf') <= wrote'
    BY <1>0, <2>1, <2>2
  <2>5. CopyTypeOK'
    <3>1. wrote' \in 0..MaxBytes
      BY <2>1, BytesNat
    <3> QED
      BY <1>0, <2>1, <2>2, <2>4, <3>1, Zenon DEF CopyTypeOK
  <2> QED
    BY <2>1, <2>3, <2>5 DEF LogShowsAnswer
<1>6. ASSUME Copy(buf), buf' = <<>>, st' = "chain",
             UNCHANGED <<stream, writer, committed, err, logged, wrote, meant, stale>>,
             flushed' \in BOOLEAN
      PROVE  CopyInv'
  <2>1. /\ sent' \in Bytes /\ copy' \in Bytes /\ failed' \in BOOLEAN
        /\ Len(copy') <= Len(copy) + Len(buf)
        /\ err' => sent' = <<>>
        /\ EndsWith(copy', sent')
        /\ ~failed' /\ ~err => ~failed /\ sent' = sent \o buf
    BY <1>0, <1>6, CopyKeeps
  <2>2. buf' \in Bytes /\ Len(buf') = 0
    BY <1>6 DEF Bytes
  <2>3. Len(copy') + Len(buf') <= wrote'
    BY <1>0, <1>6, <2>1, <2>2 DEF Bytes
  <2>4. ~failed' /\ ~err' /\ ~stale' => meant' = sent' \o buf'
    <3>1. ~failed' /\ ~err' /\ ~stale' => meant' = sent'
      BY <1>6, <2>1
    <3> QED
      BY <1>6, <2>1, <3>1, EmptyAtEnd
  <2>5. CopyTypeOK'
    BY <1>0, <1>6, <2>1, <2>2, <2>3 DEF CopyTypeOK
  <2> QED
    BY <1>6, <2>1, <2>4, <2>5 DEF LogShowsAnswer
<1>7. CASE Spill
  BY <1>6, <1>7 DEF Spill, CopyTypeOK
<1>8. CASE FlushBuffer
  <2>1. CASE writer
    BY <1>6, <1>8, <2>1 DEF FlushBuffer
  <2>2. CASE ~writer
    BY <1>8, <2>2 DEF FlushBuffer, CopyTypeOK, LogShowsAnswer
  <2> QED
    BY <2>1, <2>2
<1>9. CASE Commit
  BY <1>9 DEF Commit, CopyTypeOK, LogShowsAnswer, fields, history
<1>10. CASE Reset
  <2>1. /\ sent' = <<>> /\ meant' = <<>> /\ stale' = (stale \/ buf # <<>>) /\ st' = "chain"
        /\ UNCHANGED <<fields, committed, err, logged, wrote, flushed, failed>>
    BY <1>10 DEF Reset
  <2>2. CopyTypeOK'
    BY <2>1, EmptyBytes DEF CopyTypeOK, fields
  <2>3. ~stale' => meant' = sent' \o buf'
    <3>1. ~stale' => buf' = <<>>
      BY <2>1 DEF fields
    <3> QED
      BY <2>1, <3>1, EmptyBytes
  <2> QED
    BY <1>0, <2>1, <2>2, <2>3, EndsWithSame DEF LogShowsAnswer, fields
<1>11. CASE SendError
  BY <1>0, <1>11, EmptyBytes, EndsWithSame
     DEF SendError, CopyTypeOK, LogShowsAnswer, fields, history
<1>12. CASE LogCopy
  BY <1>0, <1>12 DEF LogCopy, CopyTypeOK, LogShowsAnswer, fields, response, history
<1>13. CASE UNCHANGED copyVars
  BY <1>13 DEF copyVars, CopyTypeOK, LogShowsAnswer, fields, response, history
<1> QED
  BY <1>1, <1>2, <1>3, <1>4, <1>5, <1>7, <1>8, <1>9, <1>10, <1>11, <1>12, <1>13 DEF CopyNext

(* The logged body ends with the body that was sent (GateFilter 46-58).    *)
THEOREM LogIsTrue == CopySpec => []LogShowsAnswer
<1>1. CopyInv => LogShowsAnswer
  BY DEF CopyInv
<1> QED
  BY <1>1, CopyInvInit, CopyInvStep, PTL DEF CopySpec

(* What a flushing chain wrote is sent, in order                           *)
(* (HttpServletResponseCopier 50-56, ServletOutputStreamCopier 21-24).     *)
THEOREM FlushSends == CopySpec => []FlushedIsSent
<1>1. CopyInv => FlushedIsSent
  BY DEF CopyInv, FlushedIsSent, CopyTypeOK, Bytes
<1> QED
  BY <1>1, CopyInvInit, CopyInvStep, PTL DEF CopySpec

(* The copy and the encoder never hold more bytes than the chain wrote.    *)
THEOREM CopyTypes == CopySpec => []CopyTypeOK
<1>1. CopyInv => CopyTypeOK
  BY DEF CopyInv
<1> QED
  BY <1>1, CopyInvInit, CopyInvStep, PTL DEF CopySpec
===============================================================================
