------------------------------ MODULE Response ------------------------------
(***************************************************************************)
(* One request as its client sees it: the Response object of a page        *)
(* (axonvm/asp/response.go), the writers the HTTP server puts between it   *)
(* and the connection (singleHeaderResponseWriter, cancellableWriter) and  *)
(* the request handler that started the page (executeASPWithStatus).       *)
(*                                                                         *)
(* Two threads use the connection: the script, whose methods each hold the *)
(* mutex of the Response, and the handler, which answers by itself when    *)
(* the script fails or takes too long, and never takes that mutex.         *)
(* flushInternal is a step for every call it makes on the writer.          *)
(*                                                                         *)
(* A unit of output is a pair: what was written, and the code page it is   *)
(* encoded with ("bin" for BinaryWrite).                                   *)
(***************************************************************************)
EXTENDS Integers, Sequences, SequencesExt

CONSTANTS
    Texts,      \* what Response.Write writes, a unit of the buffer each
    CodePages,  \* values of Response.CodePage
    CodePage0,  \* the one a response starts with (65001)
    Limit,      \* maxBufferBytes
    Names,      \* names of the headers a script adds
    MaxOps      \* BOUND: calls a script makes

ASSUME ResponseAssumption ==
    /\ CodePage0 \in CodePages
    /\ Limit \in Nat \ {0} /\ MaxOps \in Nat

VARIABLES
    res,     \* the Response object
    out,     \* the writers and the connection
    script,  \* the script thread
    handler, \* where the handler is
    want,    \* what was written and not cleared, in order
    ops      \* calls made so far

vars == <<res, out, script, handler, want, ops>>

(***************************************************************************)
(* buf, segs  buffer and segments; a segment is a range of the buffer      *)
(* headers    the names in the map of headers                              *)
(* status     "200 OK" or another one                                      *)
(***************************************************************************)
NewResponse ==
    [buf |-> <<>>, segs |-> <<>>, ended |-> FALSE, flushed |-> FALSE,
     bufferEnabled |-> TRUE, codePage |-> CodePage0, headers |-> {},
     status |-> "200"]

(***************************************************************************)
(* canceled  of the cancellableWriter                                      *)
(* header    the header map of the connection, the session cookie in it    *)
(* wrote     the header is on its way, as sent and status say              *)
(* body      what the client gets                                          *)
(***************************************************************************)
NewWriter ==
    [canceled |-> FALSE, header |-> {"session"}, wrote |-> FALSE,
     sent |-> {}, status |-> "none", body |-> <<>>]

\* WriteHeader and Write of singleHeaderResponseWriter
Committed(o, status) ==
    IF o.wrote THEN o
    ELSE [o EXCEPT !.wrote = TRUE, !.sent = o.header, !.status = status]

\* WriteHeader and Write of cancellableWriter
WriteHeader(status) ==
    out' = IF out.canceled THEN out ELSE Committed(out, status)

Write(units) ==
    out' = IF out.canceled THEN out
           ELSE [Committed(out, "200") EXCEPT !.body = @ \o units]

-----------------------------------------------------------------------------
(***************************************************************************)
(* What the methods do to the object.                                      *)
(***************************************************************************)
\* Slip: neighbouring segments are joined whatever their code pages.
AppendSegmentJoining(r, start, end, binary) ==
    LET n == Len(r.segs)
    IN IF n > 0 /\ r.segs[n].end = start /\ r.segs[n].binary = binary
         THEN [r.segs EXCEPT ![n].end = end]
         ELSE Append(r.segs, [start |-> start, end |-> end,
                              codePage |-> r.codePage, binary |-> binary])

\* appendSegmentLocked
AppendSegment(r, start, end, binary) ==
    LET n == Len(r.segs)
    IN IF n > 0 /\ r.segs[n].end = start /\ r.segs[n].binary = binary
            /\ (binary \/ r.segs[n].codePage = r.codePage)
         THEN [r.segs EXCEPT ![n].end = end]
         ELSE Append(r.segs, [start |-> start, end |-> end,
                              codePage |-> r.codePage, binary |-> binary])

Appended(r, t, binary) ==
    [r EXCEPT !.buf = Append(@, t),
              !.segs = AppendSegment(r, Len(r.buf), Len(r.buf) + 1, binary)]

\* Slip: the length before the write is compared.
OverLimitLate(r) == r.bufferEnabled /\ Len(r.buf) > Limit

\* ensureBufferCapacityLocked panics
OverLimit(r) == r.bufferEnabled /\ Len(r.buf) + 1 > Limit

Emptied(r) == [r EXCEPT !.buf = <<>>, !.segs = <<>>]

\* Slip: a status that the page set is kept.
RedirectedMildly(r) ==
    [Emptied(r) EXCEPT
        !.headers = @ \cup {"location"},
        !.status = IF @ = "200" THEN "302" ELSE @]

\* Redirect up to its flush
Redirected(r) ==
    [Emptied(r) EXCEPT
        !.headers = @ \cup {"location"},
        !.status = "302"]

\* A segment as flushInternal writes it
Encoded(r, i) ==
    LET s == r.segs[i]
        e == IF s.binary THEN "bin" ELSE s.codePage
    IN [k \in 1..(s.end - s.start) |-> <<r.buf[s.start + k], e>>]

-----------------------------------------------------------------------------
(***************************************************************************)
(* pc      "start": in Session_OnStart of a new session, on the handler's  *)
(*         thread and with Output = nil; "started": that handler ended;    *)
(*         "page": between two calls of the page; "get", "put", "status",  *)
(*         "body": in flushInternal; "over", "failed": what vm.Run left    *)
(* then    where a flush goes on                                           *)
(* todo    the headers it still has to put                                 *)
(* live    the map it got from Header() is that of the connection          *)
(* seg     the segment it writes next                                      *)
(* redirected  the page was redirected before it flushed or sent anything  *)
(***************************************************************************)
Call ==
    /\ handler # "crashed"
    /\ script.pc \in {"start", "page"}
    /\ ops < MaxOps
    /\ ops' = ops + 1

\* flushInternal begins; without an Output it is over at once.
Flushing(then) ==
    IF script.pc = "start"
      THEN script' = [script EXCEPT !.pc = IF then = "page" THEN "start"
                                           ELSE "started"]
      ELSE script' = [script EXCEPT
                        !.pc = IF res'.flushed THEN "body" ELSE "get",
                        !.then = then,
                        !.todo = {"standard"} \cup res'.headers,
                        !.seg = 1]

\* Response.Write and Response.BinaryWrite
WriteText(t, binary) ==
    /\ Call
    /\ UNCHANGED <<out, handler>>
    /\ \/ /\ res.ended
          /\ UNCHANGED <<res, script, want>>
       \/ /\ ~res.ended /\ OverLimit(res)
          /\ script' = [script EXCEPT
               !.pc = IF @ = "start" THEN "started" ELSE "failed"]
          /\ UNCHANGED <<res, want>>
       \/ /\ ~res.ended /\ ~OverLimit(res)
          /\ res' = Appended(res, t, binary)
          /\ want' = Append(want, <<t, IF binary THEN "bin" ELSE res.codePage>>)
          /\ IF res.bufferEnabled THEN UNCHANGED script ELSE Flushing("page")

SetCodePage(c) ==
    /\ Call
    /\ res' = IF res.flushed THEN res ELSE [res EXCEPT !.codePage = c]
    /\ UNCHANGED <<out, script, handler, want>>

SetBuffer(b) ==
    /\ Call
    /\ res' = [res EXCEPT !.bufferEnabled = b]
    /\ UNCHANGED <<out, script, handler, want>>

\* The other properties are set the same way.
SetStatus(s) ==
    /\ Call
    /\ res' = IF res.flushed THEN res ELSE [res EXCEPT !.status = s]
    /\ UNCHANGED <<out, script, handler, want>>

AddHeader(name) ==
    /\ Call
    /\ res' = IF res.flushed \/ res.ended THEN res
              ELSE [res EXCEPT !.headers = @ \cup {name}]
    /\ UNCHANGED <<out, script, handler, want>>

\* What Clear, Redirect and Server.Transfer drop was never sent.
Forgotten == SubSeq(want, 1, Len(want) - Len(res.buf))

Cleared(r) == [Emptied(r) EXCEPT !.flushed = FALSE]

Clear ==
    /\ Call
    /\ IF res.ended THEN UNCHANGED <<res, want>>
       ELSE res' = Cleared(res) /\ want' = Forgotten
    /\ UNCHANGED <<out, script, handler>>

Flush ==
    /\ Call
    /\ res' = res
    /\ Flushing("page")
    /\ UNCHANGED <<out, handler, want>>

\* Response.End: flush, then the panic that vm.Run takes for the end
End ==
    /\ Call
    /\ res' = [res EXCEPT !.ended = @ \/ script.pc = "start"]
    /\ Flushing("end")
    /\ UNCHANGED <<out, handler, want>>

Redirect ==
    /\ Call
    /\ UNCHANGED <<out, handler>>
    /\ IF res.ended THEN UNCHANGED <<res, script, want>>
       ELSE /\ res' = [Redirected(res) EXCEPT !.ended = (script.pc = "start")]
            /\ want' = Forgotten
            /\ IF script.pc = "page" /\ ~res.flushed
                 THEN script' = [script EXCEPT !.pc = "get", !.then = "end",
                        !.todo = {"standard"} \cup res'.headers, !.seg = 1,
                        !.redirected = ~out.wrote]
                 ELSE Flushing("end")

\* The page ends by itself; vm.Run flushes before it returns.
PageEnds ==
    /\ handler # "crashed"
    /\ script.pc = "page"
    /\ res' = res
    /\ Flushing("over")
    /\ UNCHANGED <<out, handler, want, ops>>

PageFails ==
    /\ handler # "crashed"
    /\ script.pc = "page"
    /\ script' = [script EXCEPT !.pc = "failed"]
    /\ UNCHANGED <<res, out, handler, want, ops>>

\* ResetEnded, if the response was ended, and Clear
StartedOver(r) ==
    Cleared([r EXCEPT !.ended = FALSE])

\* The end of Session_OnStart in NewWebHost; the page starts.
OnStartEnds ==
    /\ script.pc \in {"start", "started"}
    /\ res' = StartedOver(res)
    /\ want' = <<>>
    /\ script' = [script EXCEPT !.pc = "page"]
    /\ handler' = "watch"
    /\ UNCHANGED <<out, ops>>

-----------------------------------------------------------------------------
(***************************************************************************)
(* flushInternal.                                                          *)
(***************************************************************************)
\* r.w.Header() for the next header: the live map, or a fresh one.
GetHeader ==
    /\ handler # "crashed"
    /\ script.pc = "get"
    /\ script' = IF script.todo = {}
                   THEN [script EXCEPT !.pc = "status"]
                   ELSE [script EXCEPT !.pc = "put", !.live = ~out.canceled]
    /\ UNCHANGED <<res, out, handler, want, ops>>

\* Set or Add on that map, without any lock; r.headers is a map, whose
\* names come in any order
PutHeader ==
    /\ handler # "crashed"
    /\ script.pc = "put"
    /\ \E h \in script.todo :
          /\ out' = IF script.live THEN [out EXCEPT !.header = @ \cup {h}] ELSE out
          /\ script' = [script EXCEPT !.pc = "get", !.todo = @ \ {h}, !.live = FALSE]
    /\ UNCHANGED <<res, handler, want, ops>>

\* A status other than 200 is written at once.
PutStatus ==
    /\ handler # "crashed"
    /\ script.pc = "status"
    /\ IF res.status = "200" THEN UNCHANGED out ELSE WriteHeader(res.status)
    /\ res' = [res EXCEPT !.flushed = TRUE]
    /\ script' = [script EXCEPT !.pc = "body"]
    /\ UNCHANGED <<handler, want, ops>>

PutSegment ==
    /\ handler # "crashed"
    /\ script.pc = "body" /\ script.seg <= Len(res.segs)
    /\ Write(Encoded(res, script.seg))
    /\ script' = [script EXCEPT !.seg = @ + 1]
    /\ UNCHANGED <<res, handler, want, ops>>

(***************************************************************************)
(* The buffer is reset.  The cancellableWriter is no http.Flusher, so the  *)
(* connection is not flushed and an empty flush sends nothing.             *)
(***************************************************************************)
FlushEnds ==
    /\ handler # "crashed"
    /\ script.pc = "body" /\ script.seg > Len(res.segs)
    /\ res' = [Emptied(res) EXCEPT !.ended = @ \/ script.then = "end"]
    /\ script' = [script EXCEPT !.seg = 1,
                    !.pc = IF script.then = "page" THEN "page" ELSE "over"]
    /\ UNCHANGED <<out, handler, want, ops>>

-----------------------------------------------------------------------------
(***************************************************************************)
(* The handler.                                                            *)
(***************************************************************************)
\* PersistSession renews the session cookie; Flush; ReleaseBuffer.  The
\* script thread has ended, so nothing comes between.  A response that was
\* flushed is not told its status again: net/http sends 200 if it got nothing.
RestOfBody == FlattenSeq([i \in 1..Len(res.segs) |-> Encoded(res, i)])

Finish ==
    /\ handler = "watch" /\ script.pc = "over"
    /\ LET late == IF res.flushed THEN {} ELSE {"standard"} \cup res.headers
           status == IF res.flushed THEN "200" ELSE res.status
           headed == [out EXCEPT !.header = @ \cup {"session"} \cup late]
       IN out' = [Committed(headed, status) EXCEPT !.body = @ \o RestOfBody]
    /\ res' = Emptied(res)
    /\ handler' = "returned"
    /\ UNCHANGED <<script, want, ops>>

\* The script failed: an error page on the same connection.
ErrorPage ==
    /\ handler = "watch" /\ script.pc = "failed"
    /\ out' = [Committed(out, "500") EXCEPT !.body = Append(@, <<"error">>)]
    /\ handler' = "returned"
    /\ UNCHANGED <<res, script, want, ops>>

\* Slip: the handler answers without cancelling the writer.
TimeoutUncanceled ==
    /\ handler = "watch"
    /\ handler' = "header"
    /\ UNCHANGED <<res, out, script, want, ops>>

\* The watchdog: cancel, then http.Error, whose three calls follow
Timeout ==
    /\ handler = "watch"
    /\ out' = [out EXCEPT !.canceled = TRUE]
    /\ handler' = "header"
    /\ UNCHANGED <<res, script, want, ops>>

ErrorHeader ==
    /\ handler = "header"
    /\ out' = [out EXCEPT !.header = @ \cup {"standard"}]
    /\ handler' = "body"
    /\ UNCHANGED <<res, script, want, ops>>

ErrorBody ==
    /\ handler = "body"
    /\ out' = [Committed(out, "503") EXCEPT !.body = Append(@, <<"error">>)]
    /\ handler' = "returned"
    /\ UNCHANGED <<res, script, want, ops>>

\* Both threads change the header map.
HeaderRace == script.pc = "put" /\ script.live /\ handler = "header"

\* The Go runtime ends a process in which two threads write to a map.
MapFault ==
    /\ HeaderRace
    /\ handler' = "crashed"
    /\ UNCHANGED <<res, out, script, want, ops>>

-----------------------------------------------------------------------------
\* NewWebHost has set the session cookie; a new session has Session_OnStart.
Init ==
    /\ res = NewResponse
    /\ out = NewWriter
    /\ \E new \in BOOLEAN :
          /\ script = [pc |-> IF new THEN "start" ELSE "page", then |-> "page",
                       todo |-> {}, live |-> FALSE, seg |-> 1,
                       redirected |-> FALSE]
          /\ handler = IF new THEN "host" ELSE "watch"
    /\ want = <<>>
    /\ ops = 0

Methods ==
    \/ \E t \in Texts, b \in BOOLEAN : WriteText(t, b)
    \/ \E c \in CodePages : SetCodePage(c)
    \/ \E b \in BOOLEAN : SetBuffer(b)
    \/ SetStatus("404")
    \/ \E name \in Names : AddHeader(name)
    \/ Clear \/ Flush \/ End \/ Redirect

FlushStep == GetHeader \/ PutHeader \/ PutStatus \/ PutSegment \/ FlushEnds

Handler ==
    \/ Finish \/ ErrorPage \/ Timeout \/ ErrorHeader \/ ErrorBody \/ MapFault

Next ==
    \/ Methods \/ PageEnds \/ PageFails \/ OnStartEnds
    \/ FlushStep
    \/ Handler

Spec == Init /\ [][Next]_vars
-----------------------------------------------------------------------------
(***************************************************************************)
(* Properties.                                                             *)
(***************************************************************************)
HeaderNames == Names \cup {"session", "standard", "location"}
Units == Texts \X (CodePages \cup {"bin"})

Responses ==
    [buf : Seq(Texts),
     segs : Seq([start : Nat, end : Nat, codePage : CodePages, binary : BOOLEAN]),
     ended : BOOLEAN, flushed : BOOLEAN, bufferEnabled : BOOLEAN,
     codePage : CodePages, headers : SUBSET HeaderNames,
     status : {"200", "404", "302"}]

Writers ==
    [canceled : BOOLEAN, header : SUBSET HeaderNames, wrote : BOOLEAN,
     sent : SUBSET HeaderNames,
     status : {"none", "200", "302", "404", "500", "503"},
     body : Seq(Units \cup {<<"error">>})]

Scripts ==
    [pc : {"start", "started", "page", "get", "put", "status", "body", "over",
           "failed"},
     then : {"page", "end", "over"}, todo : SUBSET HeaderNames,
     live : BOOLEAN, seg : Nat, redirected : BOOLEAN]

\* Every variable has its type.
TypeOK ==
    /\ res \in Responses /\ out \in Writers /\ script \in Scripts
    /\ handler \in {"host", "watch", "header", "body", "returned", "crashed"}
    /\ want \in Seq(Units)
    /\ ops \in 0..MaxOps

\* What the page sent: the answer of the handler, if any, comes last.
Sent ==
    IF out.body # <<>> /\ Last(out.body) = <<"error">> THEN Front(out.body)
    ELSE out.body

Pending ==
    FlattenSeq([i \in 1..Len(res.segs) |->
        IF script.pc = "body" /\ i < script.seg THEN <<>> ELSE Encoded(res, i)])

(***************************************************************************)
(* The client gets what the page wrote and did not clear, in that order    *)
(* and each piece in the code page of the moment it was written, however   *)
(* writes, flushes, code pages, Buffer and Clear are mixed, and nothing of *)
(* Session_OnStart.  A page that was detached has sent a beginning of it.  *)
(* Clear drops what is in the buffer when it is called (ClearAsDocumented  *)
(* has what the manual says).                                              *)
(***************************************************************************)
BodyFaithful ==
    IF out.canceled THEN IsPrefix(Sent, want) ELSE Sent \o Pending = want

(***************************************************************************)
(* response.md:152, Clear "only works when buffering is enabled" and "has  *)
(* no effect after Response.Flush": what a page's Clear drops was buffered *)
(* and comes before any flush.                                             *)
(***************************************************************************)
ClearAsDocumented ==
    [][Len(want') < Len(want) /\ script.pc = "page" /\ UNCHANGED script
         => res.bufferEnabled /\ ~res.flushed]_vars

(***************************************************************************)
(* The answer of the handler to a timeout or an error is the last thing    *)
(* the client gets: a detached script adds nothing to it.                  *)
(***************************************************************************)
ErrorLast ==
    \A i \in 1..Len(out.body) : out.body[i] = <<"error">> => i = Len(out.body)

(***************************************************************************)
(* A page that is redirected before it flushed or sent anything answers    *)
(* with the redirect and an empty body, whatever it wrote and set before.  *)
(***************************************************************************)
RedirectStands ==
    script.redirected /\ script.pc = "over" /\ ~out.canceled
      => /\ out.status = "302"
         /\ "location" \in out.sent
         /\ out.body = <<>>

(***************************************************************************)
(* While a page runs with or without buffering, the buffer never holds     *)
(* more than maxBufferBytes.                                               *)
(***************************************************************************)
BufferBounded == script.pc = "page" => Len(res.buf) <= Limit

(***************************************************************************)
(* The script is detached safely: it does not touch the header of the      *)
(* connection while the handler does.                                      *)
(***************************************************************************)
DetachedSafely == ~HeaderRace
=============================================================================
