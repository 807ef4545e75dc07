---------------------------- MODULE ResponseCopy ----------------------------
(***************************************************************************)
(* The answer to a request that passes GateFilter in src/utils/api-test    *)
(* (servlet/GateFilter.java, HttpServletResponseCopier.java and            *)
(* ServletOutputStreamCopier.java). The filter hands the rest of the chain *)
(* a wrapped response; what is written to it goes to the container's       *)
(* stream and to a copy, and the copy is logged when the chain returns.    *)
(*                                                                         *)
(* The chain (CORSFilter, Spring, a controller) is any client of the       *)
(* response: it may take the stream or the writer, any number of times,    *)
(* write, flush, reset, report an error, and return or throw at any time.  *)
(* The k-th byte it writes is the number k.                                *)
(***************************************************************************)
EXTENDS Naturals, Sequences

CONSTANT MaxBytes   \* bound on the bytes written to one answer

ASSUME BytesAssumption == MaxBytes \in Nat

VARIABLES
    st,        \* {"done", "chain"} where doFilter is
    stream,    \* outputStream # null
    writer,    \* writer # null
    buf,       \* bytes in the writer's encoder
    copy,      \* the bytes in the copier, <<>> when there is none
    sent,      \* the bytes the container has for the client
    committed, \* the container has sent some of them
    err,       \* sendError was called: the container drops what follows
    logged,    \* the response body in the last log entry
    wrote,     \* history: how many bytes the chain wrote
    meant,     \* history: those it wrote since it last reset the answer
    flushed,   \* history: nothing was printed since the last flushBuffer
    failed,    \* history: a write to the container's stream failed
    stale      \* history: a reset left bytes in the encoder

fields   == <<stream, writer, buf, copy>>
response == <<sent, committed, err>>
history  == <<wrote, meant, flushed, failed, stale>>
copyVars == <<st, fields, response, logged, history>>

Bytes == Seq(1..MaxBytes)

(* No byte is copied twice.                                                *)
CopyTypeOK ==
    /\ st \in {"done", "chain"}
    /\ stream \in BOOLEAN /\ writer \in BOOLEAN /\ committed \in BOOLEAN
    /\ err \in BOOLEAN /\ flushed \in BOOLEAN /\ failed \in BOOLEAN /\ stale \in BOOLEAN
    /\ buf \in Bytes /\ copy \in Bytes /\ sent \in Bytes
    /\ logged \in Bytes /\ meant \in Bytes
    /\ wrote \in 0..MaxBytes
    /\ Len(copy) + Len(buf) <= wrote

CopyInit ==
    /\ st = "done"
    /\ stream = FALSE /\ writer = FALSE /\ buf = <<>> /\ copy = <<>>
    /\ sent = <<>> /\ committed = FALSE /\ err = FALSE
    /\ logged = <<>>
    /\ wrote = 0 /\ meant = <<>> /\ flushed = TRUE /\ failed = FALSE /\ stale = FALSE

(* doFilter: a new response and a new copier, then the chain.              *)
DoFilter ==
    /\ st = "done"
    /\ st' = "chain"
    /\ stream' = FALSE /\ writer' = FALSE /\ buf' = <<>> /\ copy' = <<>>
    /\ sent' = <<>> /\ committed' = FALSE /\ err' = FALSE
    /\ wrote' = 0 /\ meant' = <<>>
    /\ flushed' = TRUE /\ failed' = FALSE /\ stale' = FALSE
    /\ UNCHANGED logged

(* Seeded fault: a new copier at every call.                               *)
GetOutputStreamAnew ==
    /\ st = "chain" /\ ~writer
    /\ stream' = TRUE
    /\ copy' = <<>>
    /\ UNCHANGED <<st, writer, buf, response, logged, history>>

(* IllegalStateException once there is a writer. The copier is made at the *)
(* first call only.                                                        *)
GetOutputStream ==
    /\ st = "chain" /\ ~writer
    /\ stream' = TRUE
    /\ UNCHANGED <<st, writer, buf, copy, response, logged, history>>

GetWriter ==
    /\ st = "chain" /\ ~stream
    /\ writer' = TRUE
    /\ UNCHANGED <<st, stream, buf, copy, response, logged, history>>

(* Seeded fault: the copy is made by write(byte[]) and write(int) both.    *)
CopyTwice(s) ==
    \E k \in 0..Len(s) :
        /\ sent' = IF err THEN sent ELSE sent \o SubSeq(s, 1, k)
        /\ copy' = copy \o SubSeq(s, 1, k) \o SubSeq(s, 1, k)
        /\ failed' = (failed \/ k < Len(s))

(* ServletOutputStreamCopier.write, byte by byte: to the container's       *)
(* stream, then to the copy. When the stream throws, the byte is in        *)
(* neither and the rest is not written. After an error the container takes *)
(* the bytes and drops them.                                               *)
Copy(s) ==
    \E k \in 0..Len(s) :
        /\ sent' = IF err THEN sent ELSE sent \o SubSeq(s, 1, k)
        /\ copy' = copy \o SubSeq(s, 1, k)
        /\ failed' = (failed \/ k < Len(s))

(* The chain writes a byte to the stream.                                  *)
Write ==
    /\ st = "chain" /\ stream /\ wrote < MaxBytes
    /\ wrote' = wrote + 1
    /\ meant' = Append(meant, wrote')
    /\ Copy(<<wrote'>>)
    /\ UNCHANGED <<st, stream, writer, buf, committed, err, logged, flushed, stale>>

(* The chain prints a character to the writer, whose encoder keeps it.     *)
PrintChar ==
    /\ st = "chain" /\ writer /\ wrote < MaxBytes
    /\ wrote' = wrote + 1
    /\ meant' = Append(meant, wrote')
    /\ buf' = Append(buf, wrote')
    /\ flushed' = FALSE
    /\ UNCHANGED <<st, stream, writer, copy, response, logged, failed, stale>>

(* The encoder is full, or the chain flushes the writer itself. The writer *)
(* keeps an exception to itself.                                           *)
Spill ==
    /\ st = "chain" /\ writer /\ buf # <<>>
    /\ Copy(buf)
    /\ buf' = <<>>
    /\ UNCHANGED <<st, stream, writer, committed, err, logged, wrote, meant, flushed, stale>>

(* Seeded fault: flushBuffer flushes the stream only.                      *)
FlushStream ==
    /\ st = "chain"
    /\ flushed' = TRUE
    /\ UNCHANGED <<st, fields, response, logged, wrote, meant, failed, stale>>

(* flushBuffer: the writer's encoder is emptied into the copier; the       *)
(* copier's own flush does nothing, so the container commits nothing.      *)
FlushBuffer ==
    /\ st = "chain"
    /\ IF writer THEN Copy(buf) /\ buf' = <<>>
                 ELSE UNCHANGED <<sent, copy, failed, buf>>
    /\ flushed' = TRUE
    /\ UNCHANGED <<st, stream, writer, committed, err, logged, wrote, meant, stale>>

(* The container's own buffer overflows.                                   *)
Commit ==
    /\ st = "chain" /\ sent # <<>> /\ ~err
    /\ committed' = TRUE
    /\ UNCHANGED <<st, fields, sent, err, logged, history>>

(* resetBuffer, reset: passed on to the container. The wrapper keeps its   *)
(* copy, and the writer its encoder.                                       *)
Reset ==
    /\ st = "chain" /\ ~committed
    /\ sent' = <<>> /\ meant' = <<>>
    /\ stale' = (stale \/ buf # <<>>)
    /\ UNCHANGED <<st, fields, committed, err, logged, wrote, flushed, failed>>

(* sendError: the container resets the answer and sends a page of its own, *)
(* which does not pass the filter.                                         *)
SendError ==
    /\ st = "chain" /\ ~committed
    /\ sent' = <<>> /\ err' = TRUE
    /\ UNCHANGED <<st, fields, committed, logged, history>>

(* The chain returns or throws; finally logs the copy. Nobody flushes the  *)
(* writer: what is in its encoder is lost.                                 *)
LogCopy ==
    /\ st = "chain"
    /\ st' = "done"
    /\ logged' = copy
    /\ UNCHANGED <<fields, response, history>>

CopyNext ==
    \/ DoFilter \/ LogCopy
    \/ GetOutputStream \/ GetWriter \/ Write \/ PrintChar \/ Spill \/ FlushBuffer
    \/ Commit \/ Reset \/ SendError

CopySpec == CopyInit /\ [][CopyNext]_copyVars

-----------------------------------------------------------------------------
(* Properties.                                                             *)

EndsWith(s, t) ==
    /\ Len(t) <= Len(s)
    /\ \A i \in 1..Len(t) : s[Len(s) - Len(t) + i] = t[i]

(* The response body in the log ends with the body that the client was     *)
(* sent, whatever the chain took, wrote, reset or lost on the way          *)
(* (GateFilter 46-58). What precedes it was reset; an error page of the    *)
(* container is not in the log.                                            *)
LogShowsAnswer == st = "done" => EndsWith(logged, sent)

(* A chain that flushes the response after its last print has sent what it *)
(* wrote, in order, although GateFilter flushes nothing itself, unless the *)
(* stream failed, it reported an error, or it reset the answer with        *)
(* characters still in the encoder (HttpServletResponseCopier 50-56).      *)
FlushedIsSent ==
    flushed /\ ~failed /\ ~err /\ ~stale => sent = meant
=============================================================================
