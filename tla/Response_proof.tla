--------------------------- MODULE Response_proof ---------------------------
(***************************************************************************)
(* Proofs about Response for any texts, code pages, headers and limit, and *)
(* pages of any length: the client gets what the page wrote and did not    *)
(* clear, the handler's answer ends the body, a redirect stands and the    *)
(* buffer keeps its limit.                                                 *)
(*                                                                         *)
(* BodyFaithful is about concatenations.  The invariant says the same by   *)
(* positions: the segments cover the buffer without gaps (SegInv), the     *)
(* buffer, encoded, is the end of what is wanted (TailInv), and what was   *)
(* sent reaches to where the flush under way has got (BodyInv).  PendingIs *)
(* leads back to FlattenSeq.                                               *)
(***************************************************************************)
EXTENDS Response, FiniteSets, FiniteSetTheorems, WellFoundedInduction, SequenceTheorems, TLAPS

(***************************************************************************)
(* Induction over the natural numbers in a form the provers can use: over  *)
(* a set instead of a formula. It follows from the library's theorems that *)
(* proper inclusion of finite sets is well founded and that every nonempty *)
(* set has a minimal element for such an order.                            *)
(***************************************************************************)
\* Every nonempty set of natural numbers has a least element.
LEMMA LeastElement ==
    ASSUME NEW T \in SUBSET Nat, T # {}
    PROVE  \E n \in T : \A m \in T : n <= m
<1> DEFINE C == {1 .. n : n \in T}
           R == StrictSubsetOrdering(Nat)
<1>1. C \subseteq FiniteSubsetsOf(Nat)
  <2> SUFFICES ASSUME NEW n \in T PROVE (1 .. n) \in FiniteSubsetsOf(Nat) OBVIOUS
  <2>1. IsFiniteSet(1 .. n) BY FS_Interval
  <2> QED BY <2>1 DEF FiniteSubsetsOf
<1>2. C # {} OBVIOUS
<1>3. IsWellFoundedOn(R, FiniteSubsetsOf(Nat)) BY FS_StrictSubsetOrderingWellFounded
<1> HIDE DEF R
<1>4. PICK x \in C : \A y \in C : ~(<<y, x>> \in R)
  <2> HIDE DEF C
  <2> QED BY <1>1, <1>2, <1>3, WFMin
<1>5. PICK n \in T : x = 1 .. n OBVIOUS
<1>6. ASSUME NEW m \in T, ~(n <= m) PROVE FALSE
  <2>1. (1 .. m) \in C OBVIOUS
  <2>2. (1 .. m) \subseteq (1 .. n) /\ (1 .. m) # (1 .. n)
    <3>1. n \in 1 .. n /\ n \notin 1 .. m BY <1>6
    <3>2. (1 .. m) \subseteq (1 .. n) BY <1>6
    <3> QED BY <3>1, <3>2
  <2>3. <<1 .. m, 1 .. n>> \in R
    <3>1. (1 .. m) \in SUBSET Nat /\ (1 .. n) \in SUBSET Nat OBVIOUS
    <3> QED BY <2>2, <3>1 DEF R, StrictSubsetOrdering
  <2> QED BY <1>4, <1>5, <2>1, <2>3
<1> QED BY <1>6

\* Induction over a set: what contains 0 and each successor is Nat.
LEMMA SetInduction ==
    ASSUME NEW T \in SUBSET Nat, 0 \in T, \A n \in T : n + 1 \in T
    PROVE  T = Nat
<1> SUFFICES ASSUME Nat \ T # {} PROVE FALSE OBVIOUS
<1>1. PICK n \in Nat \ T : \A m \in Nat \ T : n <= m BY LeastElement
<1>2. n # 0 OBVIOUS
<1>3. n - 1 \in Nat /\ ~(n <= n - 1) BY <1>2
<1>4. n - 1 \in T BY <1>1, <1>3
<1>5. (n - 1) + 1 = n OBVIOUS
<1> QED BY <1>4, <1>5

\* How much of what is wanted has left the buffer
Off == Len(want) - Len(res.buf)

\* How much of the buffer a flush has written
PosOf(r, s) ==
    IF s.pc # "body" THEN 0
    ELSE IF s.seg <= Len(r.segs) THEN r.segs[s.seg].start
    ELSE Len(r.buf)

Pos == PosOf(res, script)

\* A body without the answer of the handler
SentOf(body) ==
    IF body # <<>> /\ Last(body) = <<"error">> THEN Front(body) ELSE body

\* Where the two threads can be, and what a step of each leaves behind
PhaseInv ==
    /\ script.pc \in {"start", "started"} <=> handler = "host"
    /\ handler = "host" => ~out.canceled /\ ~out.wrote
    /\ handler \in {"header", "body"} => out.canceled
    /\ handler = "returned" => out.canceled \/ script.pc \in {"over", "failed"}
    /\ script.pc = "over" => res.buf = <<>>
    /\ ~out.wrote => out.body = <<>>

\* The segments cover the buffer, one after the other.
Segmented(r) ==
    /\ r.segs = <<>> <=> r.buf = <<>>
    /\ \A i \in 1 .. Len(r.segs) :
          /\ r.segs[i].start < r.segs[i].end
          /\ r.segs[i].start = IF i = 1 THEN 0 ELSE r.segs[i - 1].end
          /\ r.segs[i].end <= Len(r.buf)
          /\ i = Len(r.segs) => r.segs[i].end = Len(r.buf)

\* A flush is at one of the segments, or behind the last.
SegInv ==
    /\ Segmented(res)
    /\ script.seg \in 1 .. Len(res.segs) + 1
    /\ script.pc # "body" => script.seg = 1

\* What the buffer holds is the end of what is wanted.
TailInv ==
    /\ Len(res.buf) <= Len(want)
    /\ \A i \in 1 .. Len(res.segs) :
          \A k \in 1 .. res.segs[i].end - res.segs[i].start :
             want[Off + res.segs[i].start + k] = Encoded(res, i)[k]

\* The handler has not answered by itself.
Undisturbed == out.body \in Seq(Units)

\* Once it has, nobody writes to the body again.
ErrorInv ==
    \/ Undisturbed
    \/ /\ handler = "returned" /\ (out.canceled \/ script.pc = "failed")
       /\ \E b \in Seq(Units) : out.body = Append(b, <<"error">>)

\* What was sent is a beginning of what is wanted, up to the buffer's rest
\* unless the script was detached.
BodyInv ==
    /\ Len(Sent) <= Off + Pos
    /\ ~out.canceled => Len(Sent) = Off + Pos
    /\ \A i \in 1 .. Len(Sent) : Sent[i] = want[i]

\* How far a redirect has come; only a timeout takes its place.
RedirectInv ==
    script.redirected =>
      /\ script.pc \in {"get", "put", "status", "body", "over"}
      /\ script.then = "end" /\ res.buf = <<>> /\ res.status = "302"
      /\ out.canceled
         \/ /\ out.body = <<>>
            /\ script.pc = "put" => script.live
            /\ script.pc \in {"get", "put", "status"} =>
                 ~out.wrote /\ "location" \in script.todo \cup out.header
            /\ script.pc = "status" => script.todo = {}
            /\ script.pc \in {"body", "over"} =>
                 out.wrote /\ out.status = "302" /\ "location" \in out.sent

IInv ==
    /\ TypeOK /\ PhaseInv /\ SegInv /\ TailInv /\ ErrorInv /\ BodyInv
    /\ RedirectInv /\ BufferBounded

-----------------------------------------------------------------------------
USE ResponseAssumption DEF HeaderNames

\* The handler's answer is no unit of a page.
LEMMA UnitsAreNoError == <<"error">> \notin Units
BY DEF Units

\* The invariant holds initially.
LEMMA InitIInv == Init => IInv
<1> SUFFICES ASSUME Init PROVE IInv OBVIOUS
<1> USE DEF Init, NewResponse, NewWriter
<1>1. TypeOK BY DEF TypeOK, Responses, Writers, Scripts
<1>2. PhaseInv BY DEF PhaseInv
<1>3. SegInv /\ TailInv BY DEF SegInv, Segmented, TailInv
<1>4. ErrorInv BY DEF ErrorInv, Undisturbed
<1>5. BodyInv BY DEF BodyInv, Sent, Off, Pos, PosOf
<1>6. RedirectInv /\ BufferBounded BY DEF RedirectInv, BufferBounded
<1> QED BY <1>1, <1>2, <1>3, <1>4, <1>5, <1>6 DEF IInv

\* A segment
SegType == [start : Nat, end : Nat, codePage : CodePages, binary : BOOLEAN]

\* appendSegmentLocked yields segments.
LEMMA AppendSegmentType ==
    ASSUME NEW r \in Responses, NEW b \in BOOLEAN, NEW s \in Nat, NEW e \in Nat
    PROVE  AppendSegment(r, s, e, b) \in Seq(SegType)
<1>1. r.segs \in Seq(SegType) /\ r.codePage \in CodePages BY DEF Responses, SegType
<1>2. [start |-> s, end |-> e, codePage |-> r.codePage, binary |-> b] \in SegType
  BY <1>1 DEF SegType
<1>3. Append(r.segs, [start |-> s, end |-> e, codePage |-> r.codePage, binary |-> b])
        \in Seq(SegType)
  BY <1>1, <1>2, AppendProperties
<1>4. ASSUME Len(r.segs) > 0 PROVE [r.segs EXCEPT ![Len(r.segs)].end = e] \in Seq(SegType)
  <2>1. PICK n \in 1 .. Len(r.segs) : n = Len(r.segs) BY <1>1, <1>4
  <2>2. r.segs[n] \in SegType BY <1>1, ElementOfSeq
  <2>3. [r.segs[n] EXCEPT !.end = e] \in SegType BY <2>2 DEF SegType
  <2>4. [r.segs EXCEPT ![n] = [r.segs[n] EXCEPT !.end = e]] \in Seq(SegType)
    BY <1>1, <2>3, ExceptSeq
  <2> QED BY <2>1, <2>4
<1> QED BY <1>3, <1>4 DEF AppendSegment

\* An emptied Response is one.
LEMMA EmptiedType ==
    ASSUME NEW r \in Responses PROVE Emptied(r) \in Responses
<1> DEFINE s == [r EXCEPT !.buf = <<>>]
<1>1. <<>> \in Seq(Texts)
      /\ <<>> \in Seq([start : Nat, end : Nat, codePage : CodePages, binary : BOOLEAN])
  OBVIOUS
<1>2. s \in Responses BY <1>1 DEF Responses
<1>3. Emptied(r) = [s EXCEPT !.segs = <<>>] BY DEF Emptied, Responses
<1> HIDE DEF s
<1> QED BY <1>1, <1>2, <1>3 DEF Responses

\* A flush that begins leaves a script.
LEMMA FlushingType ==
    ASSUME TypeOK, res' \in Responses, NEW then \in {"page", "end", "over"}, Flushing(then)
    PROVE  script' \in Scripts
<1> USE DEF TypeOK
<1>1. res'.headers \in SUBSET HeaderNames BY DEF Responses
<1>2. CASE script.pc = "start" BY <1>2 DEF Flushing, Scripts
<1>3. CASE script.pc # "start"
  <2> DEFINE pc == IF res'.flushed THEN "body" ELSE "get"
             s1 == [script EXCEPT !.pc = pc]
             s2 == [s1 EXCEPT !.then = then]
             s3 == [s2 EXCEPT !.todo = {"standard"} \cup res'.headers]
  <2>1. script' = [s3 EXCEPT !.seg = 1] BY <1>3 DEF Flushing, Scripts
  <2>2. s1 \in Scripts BY DEF Scripts
  <2> HIDE DEF s1
  <2>3. s2 \in Scripts BY <2>2 DEF Scripts
  <2> HIDE DEF s2
  <2>4. s3 \in Scripts BY <1>1, <2>3 DEF Scripts
  <2> HIDE DEF s3
  <2> QED BY <2>1, <2>4 DEF Scripts
<1> QED BY <1>2, <1>3

\* What is left after a Clear is units.
LEMMA ForgottenType ==
    ASSUME TypeOK, Len(res.buf) <= Len(want)
    PROVE  Forgotten \in Seq(Units)
BY SubSeqProperties DEF TypeOK, Forgotten, Responses

\* Types, for Write and BinaryWrite.
LEMMA WriteTextTypes ==
    ASSUME TypeOK, NEW t \in Texts, NEW b \in BOOLEAN, WriteText(t, b)
    PROVE  TypeOK'
<1> USE DEF TypeOK
<1>1. ops' \in 0 .. MaxOps BY DEF WriteText, Call
<1>2. out' = out /\ handler' = handler BY DEF WriteText
<1>3. CASE res.ended BY <1>1, <1>2, <1>3 DEF WriteText
<1>4. CASE ~res.ended /\ OverLimit(res)
  <2>1. script' \in Scripts BY <1>4 DEF WriteText, Scripts
  <2> QED BY <1>1, <1>2, <1>4, <2>1 DEF WriteText
<1>5. CASE ~res.ended /\ ~OverLimit(res)
  <2>1. res' = Appended(res, t, b) BY <1>5 DEF WriteText
  <2>2. Len(res.buf) \in Nat /\ Len(res.buf) + 1 \in Nat BY DEF Responses
  <2>3. AppendSegment(res, Len(res.buf), Len(res.buf) + 1, b) \in Seq(SegType)
    BY <2>2, AppendSegmentType
  <2>4. Append(res.buf, t) \in Seq(Texts) BY DEF Responses
  <2>5. res' \in Responses BY <2>1, <2>3, <2>4 DEF Appended, Responses, SegType
  <2>6. <<t, IF b THEN "bin" ELSE res.codePage>> \in Units BY DEF Units, Responses
  <2>7. want' \in Seq(Units)
    <3>1. want' = Append(want, <<t, IF b THEN "bin" ELSE res.codePage>>)
      BY <1>5 DEF WriteText
    <3> QED BY <2>6, <3>1, AppendProperties
  <2>8. script' \in Scripts BY <1>5, <2>5, FlushingType DEF WriteText
  <2> QED BY <1>1, <1>2, <2>5, <2>7, <2>8
<1> QED BY <1>3, <1>4, <1>5 DEF WriteText

\* Types, for every method.
LEMMA MethodTypes ==
    ASSUME TypeOK, Len(res.buf) <= Len(want), Methods
    PROVE  TypeOK'
<1> USE DEF TypeOK, Call
<1>1. ASSUME NEW c \in CodePages, SetCodePage(c) PROVE TypeOK'
  BY <1>1 DEF SetCodePage, Responses
<1>2. ASSUME NEW b \in BOOLEAN, SetBuffer(b) PROVE TypeOK'
  <2>1. [res EXCEPT !.bufferEnabled = b] \in Responses BY DEF Responses
  <2> QED BY <1>2, <2>1 DEF SetBuffer
<1>3. CASE SetStatus("404")
  <2>1. [res EXCEPT !.status = "404"] \in Responses BY DEF Responses
  <2> QED BY <1>3, <2>1 DEF SetStatus
<1>4. ASSUME NEW n \in Names, AddHeader(n) PROVE TypeOK'
  <2>1. res' \in Responses BY <1>4 DEF AddHeader, Responses
  <2> QED BY <1>4, <2>1 DEF AddHeader
<1>5. CASE Clear
  <2>1. Emptied(res) \in Responses BY EmptiedType
  <2>2. Cleared(res) \in Responses BY <2>1 DEF Cleared, Responses
  <2> QED BY <1>5, <2>2, ForgottenType DEF Clear
<1>6. CASE Flush
  <2>1. script' \in Scripts BY <1>6, FlushingType DEF Flush
  <2> QED BY <1>6, <2>1 DEF Flush
<1>7. CASE End
  <2>1. res' \in Responses BY <1>7 DEF End, Responses
  <2>2. script' \in Scripts BY <1>7, <2>1, FlushingType DEF End
  <2> QED BY <1>7, <2>1, <2>2 DEF End
<1>8. CASE Redirect
  <2>1. CASE res.ended BY <1>8, <2>1 DEF Redirect
  <2>2. CASE ~res.ended
    <3>1. Emptied(res) \in Responses BY EmptiedType
    <3>2. Redirected(res) \in Responses BY <3>1 DEF Redirected, Responses
    <3>3. res' \in Responses BY ZenonT(60), <1>8, <2>2, <3>2 DEF Redirect, Responses
    <3>4. res'.headers \in SUBSET HeaderNames BY <3>3 DEF Responses
    <3>5. script' \in Scripts
      <4>1. CASE script.pc = "page" /\ ~res.flushed
        <5> DEFINE s1 == [script EXCEPT !.pc = "get"]
                   s2 == [s1 EXCEPT !.then = "end"]
                   s3 == [s2 EXCEPT !.todo = {"standard"} \cup res'.headers]
                   s4 == [s3 EXCEPT !.seg = 1]
        <5>1. script' = [s4 EXCEPT !.redirected = ~out.wrote]
          BY <1>8, <2>2, <4>1 DEF Redirect, Scripts
        <5>2. s1 \in Scripts BY DEF Scripts
        <5> HIDE DEF s1
        <5>3. s2 \in Scripts BY <5>2 DEF Scripts
        <5> HIDE DEF s2
        <5>4. s3 \in Scripts BY <3>4, <5>3 DEF Scripts
        <5> HIDE DEF s3
        <5>5. s4 \in Scripts BY <5>4 DEF Scripts
        <5> HIDE DEF s4
        <5> QED BY <5>1, <5>5 DEF Scripts
      <4>2. CASE ~(script.pc = "page" /\ ~res.flushed)
        BY <1>8, <2>2, <3>3, <4>2, FlushingType DEF Redirect
      <4> QED BY <4>1, <4>2
    <3> QED BY <1>8, <2>2, <3>3, <3>5, ForgottenType DEF Redirect
  <2> QED BY <2>1, <2>2
<1>9. ASSUME NEW t \in Texts, NEW b \in BOOLEAN, WriteText(t, b) PROVE TypeOK'
  BY <1>9, WriteTextTypes
<1> QED BY <1>1, <1>2, <1>3, <1>4, <1>5, <1>6, <1>7, <1>8, <1>9 DEF Methods

\* What singleHeaderResponseWriter does to the header, once.
LEMMA CommittedType ==
    ASSUME NEW o \in Writers, NEW s \in {"200", "302", "404", "500", "503"}
    PROVE  /\ Committed(o, s) \in Writers
           /\ Committed(o, s).wrote
           /\ Committed(o, s).canceled = o.canceled /\ Committed(o, s).body = o.body
           /\ o.wrote => Committed(o, s) = o
           /\ ~o.wrote => Committed(o, s).status = s /\ Committed(o, s).sent = o.header
<1> DEFINE o1 == [o EXCEPT !.wrote = TRUE]
           o2 == [o1 EXCEPT !.sent = o.header]
           o3 == [o2 EXCEPT !.status = s]
<1>1. o1 \in Writers BY DEF Writers
<1>2. o.header \in SUBSET HeaderNames BY DEF Writers
<1>3. o2 \in Writers
  <2> HIDE DEF o1
  <2> QED BY <1>1, <1>2 DEF Writers
<1>4. o3 \in Writers
  <2> HIDE DEF o2
  <2> QED BY <1>3 DEF Writers
<1>5. ~o.wrote => Committed(o, s) = o3 BY DEF Committed, Writers
<1>6. /\ o3.wrote /\ o3.canceled = o.canceled /\ o3.body = o.body
      /\ o3.status = s /\ o3.sent = o.header
  BY DEF Writers
<1>7. o.wrote => Committed(o, s) = o BY DEF Committed
<1> HIDE DEF o3
<1>8. CASE o.wrote BY <1>7, <1>8
<1>9. CASE ~o.wrote BY <1>4, <1>5, <1>6, <1>9
<1> QED BY <1>8, <1>9

\* The header is committed and the body becomes b.
Answered(o, s, b) == [Committed(o, s) EXCEPT !.body = b]

\* The client gets more of the body.
LEMMA AnsweredType ==
    ASSUME NEW o \in Writers, NEW s \in {"200", "302", "404", "500", "503"},
           NEW b \in Seq(Units \cup {<<"error">>}),
           NEW q, q = Answered(o, s, b)
    PROVE  /\ q \in Writers /\ q.body = b /\ q.wrote /\ q.canceled = o.canceled
           /\ o.wrote => q.status = o.status /\ q.sent = o.sent
<1>1. PICK c \in Writers : c = Committed(o, s) BY CommittedType
<1>2. c.wrote /\ c.canceled = o.canceled /\ (o.wrote => c = o) BY <1>1, CommittedType
<1>3. q = [c EXCEPT !.body = b] BY <1>1 DEF Answered
<1>4. q \in Writers BY <1>3 DEF Writers
<1> QED BY <1>2, <1>3, <1>4 DEF Writers

-----------------------------------------------------------------------------
(***************************************************************************)
(* Segments and the body.                                                  *)
(***************************************************************************)
\* A segment is encoded to units, one for one.
LEMMA EncodedType ==
    ASSUME NEW r \in Responses, Segmented(r), NEW i \in 1 .. Len(r.segs)
    PROVE  /\ r.segs[i] \in SegType
           /\ r.segs[i].end - r.segs[i].start \in Nat
           /\ Encoded(r, i) \in Seq(Units)
           /\ Len(Encoded(r, i)) = r.segs[i].end - r.segs[i].start
           /\ \A k \in 1 .. r.segs[i].end - r.segs[i].start :
                 Encoded(r, i)[k] =
                   <<r.buf[r.segs[i].start + k],
                     IF r.segs[i].binary THEN "bin" ELSE r.segs[i].codePage>>
<1>1. r.segs \in Seq(SegType) /\ r.buf \in Seq(Texts) BY DEF Responses, SegType
<1>2. r.segs[i] \in SegType BY <1>1, ElementOfSeq
<1>3. PICK s \in SegType : s = r.segs[i] BY <1>2
<1>4. s.start \in Nat /\ s.end \in Nat /\ s.codePage \in CodePages /\ s.binary \in BOOLEAN
  BY DEF SegType
<1>5. s.start < s.end /\ s.end <= Len(r.buf) BY <1>3 DEF Segmented
<1>6. PICK n \in Nat : n = s.end - s.start BY <1>4, <1>5
<1>7. PICK e \in CodePages \cup {"bin"} : e = IF s.binary THEN "bin" ELSE s.codePage
  BY <1>4
<1> DEFINE E == [k \in 1 .. n |-> <<r.buf[s.start + k], e>>]
<1>8. Encoded(r, i) = E BY <1>3, <1>6, <1>7 DEF Encoded
<1>9. ASSUME NEW k \in 1 .. n PROVE <<r.buf[s.start + k], e>> \in Units
  <2>1. s.start + k \in 1 .. Len(r.buf) BY <1>1, <1>4, <1>5, <1>6
  <2>2. r.buf[s.start + k] \in Texts BY <1>1, <2>1, ElementOfSeq
  <2> QED BY <2>2 DEF Units
<1>10. E \in [1 .. n -> Units] BY <1>9
<1>11. E \in Seq(Units) BY <1>10
<1>12. Len(E) = n BY <1>10
<1>13. \A k \in 1 .. n : E[k] = <<r.buf[s.start + k], e>> OBVIOUS
<1> HIDE DEF E
<1> QED BY <1>2, <1>3, <1>6, <1>7, <1>8, <1>11, <1>12, <1>13

\* FlattenSeq is what concatenation from the left computes.
LEMMA FlattenIs ==
    ASSUME NEW S, NEW ss \in Seq(Seq(S)), NEW f \in [0 .. Len(ss) -> Seq(S)],
           f[0] = <<>>, \A n \in 0 .. Len(ss) - 1 : f[n + 1] = f[n] \o ss[n + 1]
    PROVE  FlattenSeq(ss) = f[Len(ss)]
<1>1. PICK N \in Nat : N = Len(ss) OBVIOUS
<1>2. CASE N = 0
  <2>1. Len(ss) = 0 BY <1>1, <1>2
  <2>2. ss = <<>> BY <2>1, EmptySeq
  <2> QED BY <1>1, <1>2, <2>2 DEF FlattenSeq
<1>3. CASE N # 0
  <2> DEFINE Eq(h) == h = [i \in 1 .. N |-> IF i = 1 THEN ss[i] ELSE h[i - 1] \o ss[i]]
             h0 == [i \in 1 .. N |-> f[i]]
             h1 == CHOOSE h : Eq(h)
  <2>1. ASSUME NEW i \in 1 .. N
        PROVE  f[i] = IF i = 1 THEN ss[i] ELSE f[i - 1] \o ss[i]
    <3>1. i - 1 \in 0 .. Len(ss) - 1 /\ (i - 1) + 1 = i BY <1>1
    <3>2. f[i] = f[i - 1] \o ss[i] BY <3>1
    <3>3. CASE i = 1
      <4>1. 1 \in 1 .. Len(ss) BY <1>1, <3>3
      <4>2. ss[1] \in Seq(S) BY <4>1, ElementOfSeq
      <4>3. <<>> \o ss[1] = ss[1] BY <4>2, ConcatEmptySeq
      <4>4. f[i - 1] = <<>> BY <3>3
      <4> QED BY <3>2, <3>3, <4>3, <4>4
    <3> QED BY <3>2, <3>3
  <2>2. Eq(h0)
    <3>1. ASSUME NEW i \in 1 .. N PROVE h0[i] = IF i = 1 THEN ss[i] ELSE h0[i - 1] \o ss[i]
      <4>1. h0[i] = f[i] OBVIOUS
      <4>2. CASE i = 1 BY <2>1, <4>1, <4>2
      <4>3. CASE i # 1
        <5>1. i - 1 \in 1 .. N BY <4>3
        <5>2. h0[i - 1] = f[i - 1] BY <5>1
        <5> QED BY <2>1, <4>1, <4>3, <5>2
      <4> QED BY <4>2, <4>3
    <3>2. h0 = [i \in 1 .. N |-> h0[i]] OBVIOUS
    <3> HIDE DEF h0
    <3> QED BY <3>1, <3>2
  <2>3. Eq(h1) BY <2>2
  <2>4. FlattenSeq(ss) = h1[N] BY <1>1, <1>3 DEF FlattenSeq
  <2>5. ASSUME NEW i \in 1 .. N PROVE h1[i] = IF i = 1 THEN ss[i] ELSE h1[i - 1] \o ss[i]
    <3> HIDE DEF h1
    <3> QED BY <2>3
  <2> HIDE DEF h1, h0, Eq
  <2> DEFINE T == {n \in Nat : n + 1 \in 1 .. N => h1[n + 1] = f[n + 1]}
  <2>6. 0 \in T
    <3>1. 1 \in 1 .. N BY <1>3
    <3>2. h1[1] = f[1] BY <2>1, <2>5, <3>1
    <3> QED BY <3>2
  <2>7. ASSUME NEW n \in T PROVE n + 1 \in T
    <3> SUFFICES ASSUME (n + 1) + 1 \in 1 .. N PROVE h1[(n + 1) + 1] = f[(n + 1) + 1] OBVIOUS
    <3>1. PICK i \in 1 .. N : i = (n + 1) + 1 OBVIOUS
    <3>2. i # 1 /\ i - 1 = n + 1 /\ n + 1 \in 1 .. N BY <3>1
    <3>3. h1[n + 1] = f[n + 1] BY <3>2
    <3>4. h1[i] = h1[n + 1] \o ss[i] BY <2>5, <3>2
    <3>5. f[i] = f[n + 1] \o ss[i] BY <2>1, <3>2
    <3> QED BY <3>1, <3>3, <3>4, <3>5
  <2>8. T = Nat
    <3>1. T \in SUBSET Nat OBVIOUS
    <3> HIDE DEF T
    <3> QED BY <2>6, <2>7, <3>1, SetInduction
  <2>9. N - 1 \in Nat /\ (N - 1) + 1 = N /\ N \in 1 .. N BY <1>3
  <2>10. h1[N] = f[N]
    <3>1. N - 1 \in T
      <4> HIDE DEF T
      <4> QED BY <2>8, <2>9
    <3> QED BY <2>9, <3>1
  <2> QED BY <1>1, <2>4, <2>10
<1> QED BY <1>2, <1>3

\* What was sent, for each shape of the body.
LEMMA SentIs ==
    ASSUME NEW d
    PROVE  /\ d \in Seq(Units) => SentOf(d) = d
           /\ \A b \in Seq(Units) : d = Append(b, <<"error">>) => SentOf(d) = b
<1> DEFINE E == Units \cup {<<"error">>}
<1>1. ASSUME d \in Seq(Units) PROVE SentOf(d) = d
  <2>1. CASE d = <<>> BY <2>1 DEF SentOf
  <2>2. CASE d # <<>>
    <3>1. Len(d) \in 1 .. Len(d) BY <1>1, <2>2, EmptySeq
    <3>2. d[Len(d)] \in Units BY <1>1, <3>1, ElementOfSeq
    <3>3. Last(d) # <<"error">> BY <3>2, UnitsAreNoError DEF Last
    <3> QED BY <3>3 DEF SentOf
  <2> QED BY <2>1, <2>2
<1>2. ASSUME NEW b \in Seq(Units), d = Append(b, <<"error">>) PROVE SentOf(d) = b
  <2>1. b \in Seq(E) /\ <<"error">> \in E OBVIOUS
  <2>2. PICK c \in Seq(E) : c = d BY <1>2, <2>1, AppendProperties
  <2>3. Len(c) = Len(b) + 1 /\ c[Len(b) + 1] = <<"error">>
        /\ \A i \in 1 .. Len(b) : c[i] = b[i]
    BY <1>2, <2>1, <2>2, AppendProperties
  <2>4. c # <<>> /\ Last(c) = <<"error">> BY <2>3 DEF Last
  <2>5. Front(c) = b
    <3>1. Len(c) - 1 = Len(b) /\ Len(b) \in Nat BY <2>3
    <3>2. Front(c) = SubSeq(c, 1, Len(b)) BY <3>1 DEF Front
    <3>3. SubSeq(c, 1, Len(b)) = b BY <2>1, <2>3, <3>1
    <3> QED BY <3>2, <3>3
  <2> QED BY <2>2, <2>4, <2>5 DEF SentOf
<1> QED BY <1>1, <1>2

\* Sent depends on the body alone.
LEMMA SentOfBody == Sent = SentOf(out.body) /\ Sent' = SentOf(out'.body)
BY DEF Sent, SentOf

\* A flush that is not under way has written nothing.
LEMMA PosZero ==
    ASSUME NEW r \in Responses, Segmented(r), NEW s, s.pc # "body" \/ s.seg = 1
    PROVE  PosOf(r, s) = 0
<1>1. r.segs \in Seq(SegType) /\ r.buf \in Seq(Texts) BY DEF Responses, SegType
<1>2. CASE s.pc = "body" /\ 1 <= Len(r.segs)
  <2>1. 1 \in 1 .. Len(r.segs) BY <1>1, <1>2
  <2>2. r.segs[1].start = 0 BY <2>1 DEF Segmented
  <2> QED BY <1>2, <2>2 DEF PosOf
<1>3. CASE s.pc = "body" /\ ~(1 <= Len(r.segs))
  <2>1. Len(r.segs) = 0 BY <1>1, <1>3
  <2>2. r.segs = <<>> BY <1>1, <2>1, EmptySeq
  <2>3. r.buf = <<>> BY <2>2 DEF Segmented
  <2> QED BY <1>3, <2>3 DEF PosOf
<1> QED BY <1>2, <1>3 DEF PosOf

(***************************************************************************)
(* A step that leaves the buffer, its history and the body alone.          *)
(***************************************************************************)
LEMMA Quiet ==
    ASSUME IInv, TypeOK',
           res'.buf = res.buf, res'.segs = res.segs, want' = want,
           out'.body = out.body, out.canceled => out'.canceled,
           script'.seg = script.seg,
           script'.pc # "body" => script.seg = 1,
           script'.pc = script.pc \/ script.seg = 1,
           script.pc = "failed" => script'.pc = "failed",
           handler' = handler \/ handler # "returned"
    PROVE  SegInv' /\ TailInv' /\ BodyInv' /\ ErrorInv'
<1> USE DEF IInv
<1>1. Segmented(res) /\ Segmented(res)' BY DEF SegInv, Segmented
<1>2. SegInv' BY <1>1 DEF SegInv
<1>3. TailInv'
  <2>1. \A i : Encoded(res', i) = Encoded(res, i) BY DEF Encoded
  <2>2. Off' = Off BY DEF Off
  <2> QED BY <2>1, <2>2 DEF TailInv
<1>4. Pos' = Pos
  <2>1. CASE script.seg = 1
    <3>1. Pos = 0 BY <1>1, <2>1, PosZero DEF Pos, TypeOK
    <3>2. Pos' = 0 BY <1>1, <2>1, PosZero DEF Pos, TypeOK
    <3> QED BY <3>1, <3>2
  <2>2. CASE script'.pc = script.pc BY <2>2 DEF Pos, PosOf
  <2> QED BY <2>1, <2>2
<1>5. BodyInv'
  <2>1. Sent' = Sent BY SentOfBody
  <2>2. Off' = Off BY DEF Off
  <2>3. ~out'.canceled => ~out.canceled OBVIOUS
  <2> QED BY <1>4, <2>1, <2>2, <2>3 DEF BodyInv
<1>6. ErrorInv' BY DEF ErrorInv, Undisturbed
<1> QED BY <1>2, <1>3, <1>5, <1>6

\* A call that sets a property of the Response.
LEMMA SettersInv ==
    ASSUME IInv, TypeOK', Call, UNCHANGED <<out, script, handler, want>>,
           res'.buf = res.buf, res'.segs = res.segs
    PROVE  IInv'
<1> USE DEF IInv
<1>1. SegInv' /\ TailInv' /\ BodyInv' /\ ErrorInv'
  BY Quiet DEF SegInv, Call, TypeOK
<1>2. PhaseInv' BY DEF PhaseInv, Call
<1>3. RedirectInv' BY DEF RedirectInv, Call
<1>4. BufferBounded' BY DEF BufferBounded
<1> QED BY <1>1, <1>2, <1>3, <1>4

(***************************************************************************)
(* The methods.                                                            *)
(***************************************************************************)
\* Response.CodePage
LEMMA SetCodePageInv ==
    ASSUME IInv, NEW c \in CodePages, SetCodePage(c) PROVE IInv'
<1>1. TypeOK' BY MethodTypes DEF IInv, TailInv, Methods
<1>2. res'.buf = res.buf /\ res'.segs = res.segs
  BY DEF SetCodePage, IInv, TypeOK, Responses
<1> QED BY <1>1, <1>2, SettersInv DEF SetCodePage

\* Response.Buffer
LEMMA SetBufferInv ==
    ASSUME IInv, NEW b \in BOOLEAN, SetBuffer(b) PROVE IInv'
<1>1. TypeOK' BY MethodTypes DEF IInv, TailInv, Methods
<1>2. res'.buf = res.buf /\ res'.segs = res.segs
  BY DEF SetBuffer, IInv, TypeOK, Responses
<1> QED BY <1>1, <1>2, SettersInv DEF SetBuffer

\* Response.Status
LEMMA SetStatusInv ==
    ASSUME IInv, SetStatus("404") PROVE IInv'
<1>1. TypeOK' BY MethodTypes DEF IInv, TailInv, Methods
<1>2. res'.buf = res.buf /\ res'.segs = res.segs
  BY DEF SetStatus, IInv, TypeOK, Responses
<1> QED BY <1>1, <1>2, SettersInv DEF SetStatus

\* Response.AddHeader
LEMMA AddHeaderInv ==
    ASSUME IInv, NEW n \in Names, AddHeader(n) PROVE IInv'
<1>1. TypeOK' BY MethodTypes DEF IInv, TailInv, Methods
<1>2. res'.buf = res.buf /\ res'.segs = res.segs
  BY DEF AddHeader, IInv, TypeOK, Responses
<1> QED BY <1>1, <1>2, SettersInv DEF AddHeader

\* Where a flush begins.
LEMMA FlushingIs ==
    ASSUME TypeOK, NEW then \in {"page", "end", "over"}, Flushing(then)
    PROVE  /\ script.pc = "start" =>
                script'.pc \in {"start", "started"} /\ script'.seg = script.seg
           /\ script.pc # "start" => script'.pc \in {"body", "get"} /\ script'.seg = 1
           /\ script'.redirected = script.redirected
BY DEF TypeOK, Flushing, Scripts

\* A flush begins.
LEMMA FlushInv ==
    ASSUME IInv, NEW then \in {"page", "end", "over"}, Flushing(then), TypeOK',
           script.pc \in {"start", "page"},
           res'.buf = res.buf, res'.segs = res.segs,
           UNCHANGED <<out, handler, want>>
    PROVE  IInv'
<1> USE DEF IInv
<1>1. /\ script.pc = "start" => script'.pc \in {"start", "started"} /\ script'.seg = script.seg
      /\ script.pc # "start" => script'.pc \in {"body", "get"} /\ script'.seg = 1
      /\ script'.redirected = script.redirected
  BY FlushingIs
<1>2. script.seg = 1 /\ script'.seg = 1 BY <1>1 DEF SegInv
<1>3. SegInv' /\ TailInv' /\ BodyInv' /\ ErrorInv' BY <1>2, Quiet
<1>4. PhaseInv' BY <1>1 DEF PhaseInv
<1>5. RedirectInv' BY <1>1 DEF RedirectInv
<1>6. BufferBounded' BY <1>1 DEF BufferBounded
<1> QED BY <1>3, <1>4, <1>5, <1>6

\* Response.Flush, Response.End and the end of the page
LEMMA FlushMethodsInv ==
    ASSUME IInv, Flush \/ End \/ PageEnds PROVE IInv'
<1>1. CASE Flush
  <2>1. TypeOK' BY <1>1, MethodTypes DEF IInv, TailInv, Methods
  <2> QED BY <1>1, <2>1, FlushInv DEF Flush, Call
<1>2. CASE End
  <2>1. TypeOK' BY <1>2, MethodTypes DEF IInv, TailInv, Methods
  <2>2. res'.buf = res.buf /\ res'.segs = res.segs
    BY <1>2 DEF End, IInv, TypeOK, Responses
  <2> QED BY <1>2, <2>1, <2>2, FlushInv DEF End, Call
<1>3. CASE PageEnds
  <2>1. script' \in Scripts BY <1>3, FlushingType DEF PageEnds, IInv, TypeOK
  <2>2. TypeOK' BY <1>3, <2>1 DEF PageEnds, IInv, TypeOK
  <2> QED BY <1>3, <2>2, FlushInv DEF PageEnds
<1> QED BY <1>1, <1>2, <1>3

\* The page drops what is in the buffer.
LEMMA ForgottenIs ==
    ASSUME IInv
    PROVE  /\ Off \in Nat /\ Off <= Len(want)
           /\ Forgotten \in Seq(Units) /\ Len(Forgotten) = Off
           /\ \A i \in 1 .. Off : Forgotten[i] = want[i]
<1> USE DEF IInv, TypeOK
<1>1. Len(res.buf) \in Nat /\ Len(want) \in Nat /\ Len(res.buf) <= Len(want)
  BY DEF Responses, TailInv
<1>2. Off \in Nat /\ Off <= Len(want) BY <1>1 DEF Off
<1>3. Forgotten = SubSeq(want, 1, Off) BY DEF Forgotten, Off
<1>4. Len(SubSeq(want, 1, Off)) = Off BY <1>1, <1>2
<1> QED BY <1>1, <1>2, <1>3, <1>4, ForgottenType

\* A step that empties the buffer and takes its units off the history.
LEMMA DropInv ==
    ASSUME IInv, TypeOK', script.seg = 1, script'.seg = 1, Pos = 0,
           res'.buf = <<>>, res'.segs = <<>>, want' = Forgotten,
           UNCHANGED <<out, handler>>, script.pc # "failed"
    PROVE  SegInv' /\ TailInv' /\ BodyInv' /\ ErrorInv'
<1> USE DEF IInv
<1>1. Segmented(res)' BY DEF Segmented
<1>2. SegInv' BY <1>1 DEF SegInv
<1>3. /\ Off \in Nat /\ Off <= Len(want)
      /\ want' \in Seq(Units) /\ Len(want') = Off
      /\ \A i \in 1 .. Off : want'[i] = want[i]
  BY ForgottenIs
<1>4. TailInv' BY <1>3 DEF TailInv
<1>5. Pos' = 0 /\ Off' = Off
  <2>1. Pos' = 0 BY <1>1, PosZero DEF Pos, TypeOK
  <2> QED BY <1>3, <2>1 DEF Off
<1>6. Sent' = Sent BY SentOfBody
<1>7. BodyInv' BY <1>3, <1>5, <1>6 DEF BodyInv
<1>8. ErrorInv' BY DEF ErrorInv, Undisturbed
<1> QED BY <1>2, <1>4, <1>7, <1>8

\* Response.Clear
LEMMA ClearInv ==
    ASSUME IInv, Clear PROVE IInv'
<1> USE DEF IInv
<1>1. TypeOK' BY MethodTypes DEF TailInv, Methods
<1>2. CASE res.ended
  <2>1. res' = res BY <1>2 DEF Clear
  <2> QED BY <1>1, <1>2, <2>1, SettersInv DEF Clear
<1>3. CASE ~res.ended
  <2>1. res' = Cleared(res) /\ want' = Forgotten BY <1>3 DEF Clear
  <2>2. res'.buf = <<>> /\ res'.segs = <<>>
    BY <2>1 DEF Cleared, Emptied, TypeOK, Responses
  <2>3. script.pc \in {"start", "page"} /\ script' = script BY DEF Clear, Call
  <2>4. script.seg = 1 BY <2>3 DEF SegInv
  <2>5. Pos = 0 BY <2>3 DEF Pos, PosOf
  <2>6. UNCHANGED <<out, handler>> BY DEF Clear
  <2>7. SegInv' /\ TailInv' /\ BodyInv' /\ ErrorInv'
    BY <1>1, <2>1, <2>2, <2>3, <2>4, <2>5, <2>6, DropInv
  <2>8. PhaseInv' BY <2>3, <2>6 DEF PhaseInv
  <2>9. RedirectInv' BY <2>3 DEF RedirectInv
  <2>10. BufferBounded' BY <2>2 DEF BufferBounded
  <2> QED BY <1>1, <2>7, <2>8, <2>9, <2>10
<1> QED BY <1>2, <1>3

\* What a redirect makes of the Response.
LEMMA RedirectedFields ==
    ASSUME IInv, Redirect, ~res.ended
    PROVE  /\ res'.buf = <<>> /\ res'.segs = <<>> /\ res'.status = "302"
           /\ "location" \in res'.headers
<1>1. PICK e \in Responses : e = Emptied(res) BY EmptiedType DEF IInv, TypeOK
<1>2. e.buf = <<>> /\ e.segs = <<>> BY <1>1 DEF Emptied, IInv, TypeOK, Responses
<1>3. res' = [[e EXCEPT !.headers = @ \cup {"location"}, !.status = "302"]
                EXCEPT !.ended = (script.pc = "start")]
  BY <1>1 DEF Redirect, Redirected
<1> QED BY <1>2, <1>3 DEF Responses

\* Response.Redirect
LEMMA RedirectStepInv ==
    ASSUME IInv, Redirect PROVE IInv'
<1> USE DEF IInv
<1>1. TypeOK' BY MethodTypes DEF TailInv, Methods
<1>2. script.pc \in {"start", "page"} /\ UNCHANGED <<out, handler>> BY DEF Redirect, Call
<1>3. CASE res.ended
  <2>1. res' = res /\ script' = script /\ want' = want BY <1>3 DEF Redirect
  <2> QED BY <1>1, <1>2, <2>1, SettersInv DEF Redirect
<1>4. CASE ~res.ended
  <2>1. want' = Forgotten BY <1>4 DEF Redirect
  <2>2. /\ res'.buf = <<>> /\ res'.segs = <<>> /\ res'.status = "302"
        /\ "location" \in res'.headers
    BY <1>4, RedirectedFields
  <2>3. script.seg = 1 BY <1>2 DEF SegInv
  <2>4. Pos = 0 BY <1>2 DEF Pos, PosOf
  <2>5. CASE script.pc = "page" /\ ~res.flushed
    <3>1. /\ script'.pc = "get" /\ script'.then = "end" /\ script'.seg = 1
          /\ script'.todo = {"standard"} \cup res'.headers
          /\ script'.redirected = ~out.wrote
      BY <1>4, <2>5 DEF Redirect, TypeOK, Scripts
    <3>2. SegInv' /\ TailInv' /\ BodyInv' /\ ErrorInv'
      BY <1>1, <1>2, <2>1, <2>2, <2>3, <2>4, <3>1, DropInv
    <3>3. PhaseInv' BY <1>2, <2>5, <3>1 DEF PhaseInv
    <3>4. RedirectInv' BY <1>2, <2>2, <3>1 DEF RedirectInv, PhaseInv
    <3>5. BufferBounded' BY <3>1 DEF BufferBounded
    <3> QED BY <1>1, <3>2, <3>3, <3>4, <3>5
  <2>6. CASE ~(script.pc = "page" /\ ~res.flushed)
    <3>1. Flushing("end") BY <1>4, <2>6 DEF Redirect
    <3>2. /\ script.pc = "start" => script'.pc \in {"start", "started"} /\ script'.seg = script.seg
          /\ script.pc # "start" => script'.pc \in {"body", "get"} /\ script'.seg = 1
          /\ script'.redirected = script.redirected
      BY <3>1, FlushingIs
    <3>3. SegInv' /\ TailInv' /\ BodyInv' /\ ErrorInv'
      BY <1>1, <1>2, <2>1, <2>2, <2>3, <2>4, <3>2, DropInv
    <3>4. PhaseInv' BY <1>2, <3>2 DEF PhaseInv
    <3>5. RedirectInv' BY <1>2, <3>2 DEF RedirectInv
    <3>6. BufferBounded' BY <1>2, <2>2 DEF BufferBounded
    <3> QED BY <1>1, <3>3, <3>4, <3>5, <3>6
  <2> QED BY <2>5, <2>6
<1> QED BY <1>3, <1>4

\* A write keeps the segments in order, and ends with its own unit.
LEMMA AppendedIs ==
    ASSUME NEW r \in Responses, Segmented(r), NEW t \in Texts, NEW b \in BOOLEAN,
           NEW q, q = Appended(r, t, b)
    PROVE  /\ q \in Responses /\ Segmented(q)
           /\ q.buf = Append(r.buf, t)
           /\ Len(q.segs) > 0
           /\ \A i \in 1 .. Len(q.segs) :
                 /\ q.segs[i].start \in Nat /\ q.segs[i].end \in Nat
                 /\ q.segs[i].end = Len(r.buf) + 1 <=> i = Len(q.segs)
                 /\ i # Len(q.segs) => i \in 1 .. Len(r.segs) /\ q.segs[i] = r.segs[i]
                 /\ i = Len(q.segs) =>
                      /\ (IF q.segs[i].binary THEN "bin" ELSE q.segs[i].codePage)
                           = (IF b THEN "bin" ELSE r.codePage)
                      /\ q.segs[i].start # Len(r.buf) =>
                           /\ i \in 1 .. Len(r.segs)
                           /\ q.segs[i].start = r.segs[i].start
                           /\ r.segs[i].end = Len(r.buf)
                           /\ (IF r.segs[i].binary THEN "bin" ELSE r.segs[i].codePage)
                                = (IF b THEN "bin" ELSE r.codePage)
<1> DEFINE L == Len(r.buf)
           N == Len(r.segs)
           new == [start |-> L, end |-> L + 1, codePage |-> r.codePage, binary |-> b]
<1>1. /\ r.segs \in Seq(SegType) /\ r.buf \in Seq(Texts) /\ r.codePage \in CodePages
      /\ L \in Nat /\ N \in Nat
  BY DEF Responses, SegType
<1>2. PICK segs \in Seq(SegType) : segs = AppendSegment(r, L, L + 1, b)
  <2>1. PICK s \in Nat : s = L BY <1>1
  <2>2. PICK e \in Nat : e = L + 1 BY <1>1
  <2>3. AppendSegment(r, s, e, b) \in Seq(SegType) BY AppendSegmentType
  <2> QED BY <2>1, <2>2, <2>3
<1>3. PICK buf \in Seq(Texts) : buf = Append(r.buf, t) BY <1>1, AppendProperties
<1>4. Len(buf) = L + 1 BY <1>1, <1>3
<1>5. /\ q.segs = segs /\ q.buf = buf
      /\ q = [[r EXCEPT !.buf = buf] EXCEPT !.segs = segs]
  BY <1>2, <1>3 DEF Appended, Responses
<1>6. q \in Responses
  <2>1. PICK e \in Responses : e = [r EXCEPT !.buf = buf] BY DEF Responses
  <2> QED BY <1>5, <2>1 DEF Responses, SegType
<1>7. \A i \in 1 .. N : /\ r.segs[i] \in SegType
                        /\ r.segs[i].start \in Nat /\ r.segs[i].end \in Nat
                        /\ r.segs[i].start < r.segs[i].end /\ r.segs[i].end <= L
                        /\ r.segs[i].start = IF i = 1 THEN 0 ELSE r.segs[i - 1].end
                        /\ i = N => r.segs[i].end = L
  <2> SUFFICES ASSUME NEW i \in 1 .. N
               PROVE  /\ r.segs[i] \in SegType
                      /\ r.segs[i].start \in Nat /\ r.segs[i].end \in Nat
                      /\ r.segs[i].start < r.segs[i].end /\ r.segs[i].end <= L
                      /\ r.segs[i].start = IF i = 1 THEN 0 ELSE r.segs[i - 1].end
                      /\ i = N => r.segs[i].end = L
    OBVIOUS
  <2>1. r.segs[i] \in SegType BY <1>1, ElementOfSeq
  <2>2. r.segs[i].start \in Nat /\ r.segs[i].end \in Nat BY <2>1 DEF SegType
  <2> QED BY <2>1, <2>2 DEF Segmented
<1>8. CASE segs = [r.segs EXCEPT ![N].end = L + 1] /\ N > 0
           /\ r.segs[N].end = L /\ r.segs[N].binary = b
           /\ (b \/ r.segs[N].codePage = r.codePage)
  <2>1. Len(segs) = N /\ N \in 1 .. N BY <1>1, <1>8
  <2>2. ASSUME NEW i \in 1 .. N, i # N PROVE segs[i] = r.segs[i]
    BY <1>1, <1>8, <2>2
  <2>3. PICK s \in SegType : s = r.segs[N] BY <1>7, <2>1
  <2>4. segs[N] = [s EXCEPT !.end = L + 1] BY <1>1, <1>8, <2>1, <2>3
  <2>5. /\ segs[N].start = r.segs[N].start /\ segs[N].end = L + 1
        /\ segs[N].binary = b /\ segs[N].codePage = r.segs[N].codePage
    BY <1>8, <2>3, <2>4 DEF SegType
  <2>6. segs # <<>> /\ buf # <<>> BY <1>1, <1>3, <1>4, <1>8, <2>1
  <2>7. Segmented(q)
    <3>1. ASSUME NEW i \in 1 .. N
          PROVE  /\ segs[i].start < segs[i].end
                 /\ segs[i].start = IF i = 1 THEN 0 ELSE segs[i - 1].end
                 /\ segs[i].end <= L + 1
                 /\ i = N => segs[i].end = L + 1
      <4>1. segs[i].start = r.segs[i].start BY <2>2, <2>5
      <4>2. i # 1 => segs[i - 1].end = r.segs[i - 1].end
        <5>1. i # 1 => i - 1 \in 1 .. N /\ i - 1 # N BY <1>1
        <5> QED BY <2>2, <5>1
      <4>3. segs[i].start = IF i = 1 THEN 0 ELSE segs[i - 1].end BY <1>7, <4>1, <4>2
      <4>4. CASE i = N
        <5>1. segs[i].end = L + 1 BY <2>5, <4>4
        <5>2. r.segs[i].start \in Nat /\ r.segs[i].start < L BY <1>7, <4>4
        <5>3. segs[i].start < L + 1 BY <1>1, <4>1, <5>2
        <5>4. L + 1 <= L + 1 BY <1>1
        <5> QED BY <4>3, <5>1, <5>3, <5>4
      <4>5. CASE i # N
        <5>1. segs[i] = r.segs[i] BY <2>2, <4>5
        <5>2. r.segs[i].end \in Nat /\ r.segs[i].start < r.segs[i].end
              /\ r.segs[i].end <= L
          BY <1>7
        <5> QED BY <1>1, <4>3, <4>5, <5>1, <5>2
      <4> QED BY <4>4, <4>5
    <3> QED BY <1>4, <1>5, <2>1, <2>6, <3>1 DEF Segmented
  <2>8. ASSUME NEW i \in 1 .. N PROVE segs[i].end = L + 1 <=> i = N
    <3>1. CASE i = N BY <2>5, <3>1
    <3>2. CASE i # N
      <4>1. segs[i] = r.segs[i] BY <2>2, <3>2
      <4>2. r.segs[i].end \in Nat /\ r.segs[i].end <= L BY <1>7
      <4> QED BY <1>1, <3>2, <4>1, <4>2
    <3> QED BY <3>1, <3>2
  <2>9. \A i \in 1 .. N : segs[i].start \in Nat /\ segs[i].end \in Nat
    BY SMTT(30), <1>1, <1>7, <2>2, <2>5
  <2>10. (IF segs[N].binary THEN "bin" ELSE segs[N].codePage)
           = (IF b THEN "bin" ELSE r.codePage)
         /\ (IF r.segs[N].binary THEN "bin" ELSE r.segs[N].codePage)
           = (IF b THEN "bin" ELSE r.codePage)
    BY <1>8, <2>5
  <2>11. ASSUME NEW i \in 1 .. N
        PROVE  /\ segs[i].start \in Nat /\ segs[i].end \in Nat
               /\ segs[i].end = L + 1 <=> i = N
               /\ i # N => i \in 1 .. N /\ segs[i] = r.segs[i]
               /\ i = N =>
                    /\ (IF segs[i].binary THEN "bin" ELSE segs[i].codePage)
                         = (IF b THEN "bin" ELSE r.codePage)
                    /\ segs[i].start # L =>
                         /\ i \in 1 .. N
                         /\ segs[i].start = r.segs[i].start
                         /\ r.segs[i].end = L
                         /\ (IF r.segs[i].binary THEN "bin" ELSE r.segs[i].codePage)
                              = (IF b THEN "bin" ELSE r.codePage)
    <3>1. segs[i].start \in Nat /\ segs[i].end \in Nat BY <2>9
    <3>2. segs[i].end = L + 1 <=> i = N BY <2>8
    <3>3. CASE i = N BY <1>8, <2>5, <2>10, <3>1, <3>2, <3>3
    <3>4. CASE i # N BY <2>2, <3>1, <3>2, <3>4
    <3> QED BY <3>3, <3>4
  <2>12. Len(q.segs) = N /\ N > 0 BY <1>5, <1>8, <2>1
  <2> QED BY <1>3, <1>5, <1>6, <2>7, <2>11, <2>12
<1>9. CASE segs = Append(r.segs, new)
  <2>1. new \in SegType BY <1>1 DEF SegType
  <2>2. /\ Len(segs) = N + 1 /\ segs[N + 1] = new
        /\ \A i \in 1 .. N : segs[i] = r.segs[i]
    <3> HIDE DEF new
    <3> QED BY <1>1, <1>9, <2>1, AppendProperties
  <2>3. /\ segs[N + 1].start = L /\ segs[N + 1].end = L + 1
        /\ segs[N + 1].binary = b /\ segs[N + 1].codePage = r.codePage
    BY <2>2
  <2>4. segs # <<>> /\ buf # <<>> BY <1>1, <1>3, <1>4, <2>2
  <2>5. N = 0 => L = 0
    <3>1. N = 0 => r.segs = <<>> BY <1>1, EmptySeq
    <3>2. r.segs = <<>> => r.buf = <<>> BY DEF Segmented
    <3> QED BY <3>1, <3>2
  <2> HIDE DEF new
  <2>6. Segmented(q)
    <3>1. ASSUME NEW i \in 1 .. N + 1
          PROVE  /\ segs[i].start < segs[i].end
                 /\ segs[i].start = IF i = 1 THEN 0 ELSE segs[i - 1].end
                 /\ segs[i].end <= L + 1
                 /\ i = N + 1 => segs[i].end = L + 1
      <4>1. i # 1 => i - 1 \in 1 .. N /\ segs[i - 1].end = r.segs[i - 1].end
        <5>1. i # 1 => i - 1 \in 1 .. N BY <1>1
        <5> QED BY <2>2, <5>1
      <4>2. CASE i = N + 1
        <5>1. segs[i].start = IF i = 1 THEN 0 ELSE segs[i - 1].end
          <6>1. CASE i = 1 BY <1>1, <2>3, <2>5, <4>2, <6>1
          <6>2. CASE i # 1
            <7>1. i - 1 = N /\ N \in 1 .. N BY <1>1, <4>2, <6>2
            <7> QED BY <1>7, <2>3, <4>1, <4>2, <6>2, <7>1
          <6> QED BY <6>1, <6>2
        <5> QED BY <1>1, <2>3, <4>2, <5>1
      <4>3. CASE i # N + 1
        <5>1. i \in 1 .. N BY <1>1, <4>3
        <5>2. segs[i] = r.segs[i] BY <2>2, <5>1
        <5> QED BY <1>1, <1>7, <4>1, <4>3, <5>1, <5>2
      <4> QED BY <4>2, <4>3
    <3>2. Len(segs) = N + 1 BY <2>2
    <3>3. \A i \in 1 .. Len(segs) :
             /\ segs[i].start < segs[i].end
             /\ segs[i].start = IF i = 1 THEN 0 ELSE segs[i - 1].end
             /\ segs[i].end <= Len(buf)
             /\ i = Len(segs) => segs[i].end = Len(buf)
      BY <1>4, <3>1, <3>2
    <3> QED BY <1>5, <2>4, <3>3 DEF Segmented
  <2>7. ASSUME NEW i \in 1 .. N + 1
        PROVE  /\ segs[i].start \in Nat /\ segs[i].end \in Nat
               /\ segs[i].end = L + 1 <=> i = N + 1
               /\ i # N + 1 => i \in 1 .. N /\ segs[i] = r.segs[i]
    <3>1. CASE i = N + 1 BY <1>1, <2>3, <3>1
    <3>2. CASE i # N + 1
      <4>1. i \in 1 .. N BY <1>1, <3>2
      <4>2. segs[i] = r.segs[i] BY <2>2, <4>1
      <4> QED BY <1>1, <1>7, <3>2, <4>1, <4>2
    <3> QED BY <3>1, <3>2
  <2>8. (IF segs[N + 1].binary THEN "bin" ELSE segs[N + 1].codePage)
          = (IF b THEN "bin" ELSE r.codePage)
    BY <2>3
  <2>9. ASSUME NEW i \in 1 .. N + 1
        PROVE  /\ segs[i].start \in Nat /\ segs[i].end \in Nat
               /\ segs[i].end = L + 1 <=> i = N + 1
               /\ i # N + 1 => i \in 1 .. N /\ segs[i] = r.segs[i]
               /\ i = N + 1 =>
                    /\ (IF segs[i].binary THEN "bin" ELSE segs[i].codePage)
                         = (IF b THEN "bin" ELSE r.codePage)
                    /\ segs[i].start # L =>
                         /\ i \in 1 .. N
                         /\ segs[i].start = r.segs[i].start
                         /\ r.segs[i].end = L
                         /\ (IF r.segs[i].binary THEN "bin" ELSE r.segs[i].codePage)
                              = (IF b THEN "bin" ELSE r.codePage)
    <3>1. CASE i = N + 1 BY <2>3, <2>7, <2>8, <3>1
    <3>2. CASE i # N + 1 BY <2>7, <3>2
    <3> QED BY <3>1, <3>2
  <2>10. Len(q.segs) = N + 1 /\ N + 1 > 0 BY <1>1, <1>5, <2>2
  <2> QED BY <1>3, <1>5, <1>6, <2>6, <2>9, <2>10
<1> QED BY <1>2, <1>8, <1>9 DEF AppendSegment

\* Response.Write and BinaryWrite: the unit goes to the end of the buffer and of
\* the history, and AppendedIs keeps the segment it lands in right.
LEMMA WriteTextInv ==
    ASSUME IInv, NEW t \in Texts, NEW b \in BOOLEAN, WriteText(t, b) PROVE IInv'
<1> USE DEF IInv
<1>1. TypeOK' BY WriteTextTypes
<1>2. script.pc \in {"start", "page"} /\ UNCHANGED <<out, handler>> BY DEF WriteText, Call
<1>3. script.seg = 1 BY <1>2 DEF SegInv
<1>4. CASE res.ended
  BY <1>1, <1>4, SettersInv DEF WriteText
<1>5. CASE ~res.ended /\ OverLimit(res)
  <2>1. UNCHANGED <<res, want>> /\ script' = [script EXCEPT
               !.pc = IF @ = "start" THEN "started" ELSE "failed"]
    BY <1>5 DEF WriteText
  <2>2. /\ script'.pc = IF script.pc = "start" THEN "started" ELSE "failed"
        /\ script'.seg = script.seg /\ script'.redirected = script.redirected
    BY <2>1 DEF TypeOK, Scripts
  <2>3. SegInv' /\ TailInv' /\ BodyInv' /\ ErrorInv'
    BY <1>1, <1>2, <1>3, <2>1, <2>2, Quiet
  <2>4. PhaseInv' BY <1>2, <2>1, <2>2 DEF PhaseInv
  <2>5. RedirectInv' BY <1>2, <2>2 DEF RedirectInv
  <2>6. BufferBounded' BY <2>2 DEF BufferBounded
  <2> QED BY <1>1, <2>3, <2>4, <2>5, <2>6
<1>6. CASE ~res.ended /\ ~OverLimit(res)
  <2> DEFINE u == <<t, IF b THEN "bin" ELSE res.codePage>>
  <2>1. /\ res' = Appended(res, t, b) /\ want' = Append(want, u)
        /\ IF res.bufferEnabled THEN UNCHANGED script ELSE Flushing("page")
    BY <1>6 DEF WriteText
  <2>2. Segmented(res) /\ res \in Responses BY DEF SegInv, TypeOK
  <2>3. /\ res' \in Responses /\ Segmented(res')
        /\ res'.buf = Append(res.buf, t)
        /\ Len(res'.segs) > 0
    BY <2>1, <2>2, AppendedIs
  <2>4. ASSUME NEW i \in 1 .. Len(res'.segs)
        PROVE
                 /\ res'.segs[i].start \in Nat /\ res'.segs[i].end \in Nat
                 /\ res'.segs[i].end = Len(res.buf) + 1 <=> i = Len(res'.segs)
                 /\ i # Len(res'.segs) => i \in 1 .. Len(res.segs) /\ res'.segs[i] = res.segs[i]
                 /\ i = Len(res'.segs) =>
                      /\ (IF res'.segs[i].binary THEN "bin" ELSE res'.segs[i].codePage)
                           = (IF b THEN "bin" ELSE res.codePage)
                      /\ res'.segs[i].start # Len(res.buf) =>
                           /\ i \in 1 .. Len(res.segs)
                           /\ res'.segs[i].start = res.segs[i].start
                           /\ res.segs[i].end = Len(res.buf)
                           /\ (IF res.segs[i].binary THEN "bin" ELSE res.segs[i].codePage)
                                = (IF b THEN "bin" ELSE res.codePage)
    BY <2>1, <2>2, AppendedIs
  <2>5. /\ script'.seg = 1 /\ script'.redirected = script.redirected
        /\ script'.pc \in {"start", "started"} <=> script.pc = "start"
        /\ script'.pc \in {"start", "started", "page", "body", "get"}
        /\ script'.pc = "page" => res.bufferEnabled
    BY <1>2, <1>3, <2>1, FlushingIs DEF TypeOK
  <2>6. SegInv' BY <2>3, <2>5 DEF SegInv, TypeOK, Responses
  <2>7. /\ res.buf \in Seq(Texts) /\ Len(res.buf) \in Nat /\ Len(want) \in Nat
        /\ Len(res'.buf) = Len(res.buf) + 1
        /\ want \in Seq(Units) /\ u \in Units
    BY <2>3 DEF TypeOK, Responses, Units
  <2>8. /\ Len(want') = Len(want) + 1 /\ want'[Len(want) + 1] = u
        /\ \A i \in 1 .. Len(want) : want'[i] = want[i]
    <3> HIDE DEF u
    <3> QED BY <2>1, <2>7, AppendProperties
  <2>9. Off' = Off /\ Off \in Nat BY <2>7, <2>8 DEF Off, TailInv
  <2>10. TailInv'
    <3>1. ASSUME NEW i \in 1 .. Len(res'.segs),
                 NEW k \in 1 .. res'.segs[i].end - res'.segs[i].start
          PROVE  want'[Off + res'.segs[i].start + k] = Encoded(res', i)[k]
      <4>1. PICK q \in Responses : q = res' BY <2>3
      <4>2. PICK L \in Nat : L = Len(res.buf) BY <2>7
      <4>3. PICK s : s = q.segs[i] OBVIOUS
      <4>4. s.start \in Nat /\ s.end \in Nat /\ s.end <= L + 1
        BY <2>3, <2>4, <2>7, <4>1, <4>2, <4>3 DEF Segmented
      <4>5. PICK p \in Nat : p = s.start + k BY <4>4, <4>1, <4>3
      <4>6. p <= s.end /\ p >= 1 /\ k \in Nat /\ k >= 1 BY <4>1, <4>3, <4>4, <4>5
      <4>7. Encoded(res', i)[k]
              = <<q.buf[p], IF s.binary THEN "bin" ELSE s.codePage>>
        BY <2>3, <4>1, <4>3, <4>5, EncodedType
      <4>8. Off + res'.segs[i].start + k = Off + p BY <2>9, <4>1, <4>3, <4>4, <4>5, <4>6
      <4>9. /\ q.buf[L + 1] = t
            /\ \A j \in 1 .. L : q.buf[j] = res.buf[j]
        BY <2>3, <2>7, <4>1, <4>2, AppendProperties
      <4>10. Off + L = Len(want) BY <2>7, <4>2 DEF Off
      <4>11. CASE p = L + 1
        <5>1. s.end = L + 1 BY <4>4, <4>6, <4>11
        <5>2. i = Len(res'.segs) BY <2>4, <4>1, <4>2, <4>3, <5>1
        <5>3. (IF s.binary THEN "bin" ELSE s.codePage) = (IF b THEN "bin" ELSE res.codePage)
          BY <2>4, <4>1, <4>3, <5>2
        <5>4. Off + p = Len(want) + 1 BY <2>7, <2>9, <4>10, <4>11
        <5> QED BY <2>8, <4>7, <4>8, <4>9, <4>11, <5>3, <5>4
      <4>12. CASE p # L + 1
        <5>1. p \in 1 .. L /\ Off + p \in 1 .. Len(want)
          <6>1. p \in 1 .. L BY <4>4, <4>6, <4>12
          <6>2. PICK o \in Nat : o = Off BY <2>9
          <6>3. o + L = Len(want) BY <4>10, <6>2
          <6>4. o + p \in 1 .. Len(want) BY <6>1, <6>3
          <6> QED BY <6>1, <6>2, <6>4
        <5>2. want'[Off + p] = want[Off + p] /\ q.buf[p] = res.buf[p]
          BY <2>8, <4>9, <5>1
        <5>3. /\ i \in 1 .. Len(res.segs) /\ res.segs[i].start = s.start
              /\ (IF res.segs[i].binary THEN "bin" ELSE res.segs[i].codePage)
                   = (IF s.binary THEN "bin" ELSE s.codePage)
              /\ k \in 1 .. res.segs[i].end - res.segs[i].start
          <6>1. CASE i = Len(res'.segs)
            <7>1. s.start # L BY <4>4, <4>5, <4>6, <5>1
            <7>2. /\ i \in 1 .. Len(res.segs) /\ res.segs[i].start = s.start
                  /\ res.segs[i].end = L
              BY <2>4, <4>1, <4>2, <4>3, <6>1, <7>1
            <7>3. (IF res.segs[i].binary THEN "bin" ELSE res.segs[i].codePage)
                   = (IF s.binary THEN "bin" ELSE s.codePage)
              BY <2>4, <4>1, <4>2, <4>3, <6>1, <7>1
            <7>4. k \in 1 .. L - s.start BY <4>4, <4>5, <4>6, <5>1
            <7> QED BY <7>2, <7>3, <7>4
          <6>2. CASE i # Len(res'.segs) BY <2>4, <4>1, <4>3, <6>2
          <6> QED BY <6>1, <6>2
        <5>4. want[Off + res.segs[i].start + k] = Encoded(res, i)[k]
          BY <5>3 DEF TailInv
        <5>5. Off + res.segs[i].start + k = Off + p
          BY <2>9, <4>4, <4>5, <4>6, <5>3
        <5>6. Encoded(res, i)[k] =
                <<res.buf[res.segs[i].start + k],
                  IF res.segs[i].binary THEN "bin" ELSE res.segs[i].codePage>>
          BY <2>2, <5>3, EncodedType
        <5>7. Encoded(res, i)[k]
                = <<res.buf[p], IF s.binary THEN "bin" ELSE s.codePage>>
          BY <4>5, <5>3, <5>6
        <5> QED BY <4>7, <4>8, <5>2, <5>4, <5>5, <5>7
      <4> QED BY <4>11, <4>12
    <3> QED BY <2>7, <2>8, <2>9, <3>1 DEF TailInv
  <2>11. Pos' = 0 /\ Pos = 0 BY <1>2, <2>2, <2>3, <2>5, <1>3, PosZero DEF Pos
  <2>12. BodyInv'
    <3>1. Sent' = Sent BY <1>2, SentOfBody
    <3>2. Off <= Len(want) BY <2>7, <2>9 DEF Off
    <3>3. Len(Sent) <= Off /\ (~out.canceled => Len(Sent) = Off)
          /\ \A i \in 1 .. Len(Sent) : Sent[i] = want[i]
      BY <2>9, <2>11 DEF BodyInv
    <3>4. Sent \in Seq(Units)
      <4>1. CASE Undisturbed BY <4>1, SentIs, SentOfBody DEF Undisturbed
      <4>2. CASE ~Undisturbed BY <4>2, SentIs, SentOfBody DEF ErrorInv
      <4> QED BY <4>1, <4>2
    <3>5. \A i \in 1 .. Len(Sent) : i \in 1 .. Len(want)
      BY <2>7, <2>9, <3>2, <3>3, <3>4
    <3> QED BY <1>2, <2>8, <2>9, <2>11, <3>1, <3>3, <3>5 DEF BodyInv
  <2>13. ErrorInv' BY <1>2 DEF ErrorInv, Undisturbed
  <2>14. PhaseInv' BY <1>2, <2>5 DEF PhaseInv
  <2>15. RedirectInv' BY <1>2, <2>5 DEF RedirectInv
  <2>16. BufferBounded' BY <1>6, <2>5, <2>7 DEF BufferBounded, OverLimit
  <2> QED BY <1>1, <2>6, <2>10, <2>12, <2>13, <2>14, <2>15, <2>16
<1> QED BY <1>4, <1>5, <1>6 DEF WriteText

\* Every method keeps the invariant.
LEMMA MethodsInv ==
    ASSUME IInv, Methods PROVE IInv'
BY SetCodePageInv, SetBufferInv, SetStatusInv, AddHeaderInv, ClearInv,
   FlushMethodsInv, RedirectStepInv, WriteTextInv DEF Methods

(***************************************************************************)
(* The end of the page and of Session_OnStart.                             *)
(***************************************************************************)
\* An error ends the page.
LEMMA PageFailsInv ==
    ASSUME IInv, PageFails PROVE IInv'
<1> USE DEF IInv
<1>1. /\ script' = [script EXCEPT !.pc = "failed"] /\ script.pc = "page"
      /\ UNCHANGED <<res, out, handler, want, ops>>
  BY DEF PageFails
<1>2. /\ script' \in Scripts /\ script'.pc = "failed" /\ script'.seg = script.seg
      /\ script'.redirected = script.redirected
  BY <1>1 DEF TypeOK, Scripts
<1>3. TypeOK' BY <1>1, <1>2 DEF TypeOK
<1>4. SegInv' /\ TailInv' /\ BodyInv' /\ ErrorInv'
  <2>1. script.seg = 1 BY <1>1 DEF SegInv
  <2> QED BY <1>1, <1>2, <1>3, <2>1, Quiet
<1>5. PhaseInv' BY <1>1, <1>2 DEF PhaseInv
<1>6. RedirectInv' BY <1>1, <1>2 DEF RedirectInv
<1>7. BufferBounded' BY <1>2 DEF BufferBounded
<1> QED BY <1>3, <1>4, <1>5, <1>6, <1>7

\* Session_OnStart is over: nothing of it was sent, and nothing is wanted.
LEMMA OnStartEndsInv ==
    ASSUME IInv, OnStartEnds PROVE IInv'
<1> USE DEF IInv
<1>1. /\ script.pc \in {"start", "started"} /\ res' = StartedOver(res) /\ want' = <<>>
      /\ script' = [script EXCEPT !.pc = "page"] /\ handler' = "watch"
      /\ UNCHANGED <<out, ops>>
  BY DEF OnStartEnds
<1>2. /\ script' \in Scripts /\ script'.pc = "page" /\ script'.seg = script.seg
      /\ script'.redirected = script.redirected
  BY <1>1 DEF TypeOK, Scripts
<1>3. res' \in Responses /\ res'.buf = <<>> /\ res'.segs = <<>>
  <2>1. PICK e \in Responses : e = [res EXCEPT !.ended = FALSE] BY DEF TypeOK, Responses
  <2>2. PICK f \in Responses : f = Emptied(e) BY EmptiedType
  <2>3. f.buf = <<>> /\ f.segs = <<>> BY <2>2 DEF Emptied, Responses
  <2>4. res' = [f EXCEPT !.flushed = FALSE] BY <1>1, <2>1, <2>2 DEF StartedOver, Cleared
  <2> QED BY <2>3, <2>4 DEF Responses
<1>4. <<>> \in Seq(Units) OBVIOUS
<1>5. TypeOK' BY <1>1, <1>2, <1>3, <1>4 DEF TypeOK
<1>6. handler = "host" /\ ~out.canceled /\ ~out.wrote /\ out.body = <<>>
  BY <1>1 DEF PhaseInv
<1>7. Segmented(res)' BY <1>3 DEF Segmented
<1>8. SegInv' BY <1>1, <1>2, <1>3, <1>7 DEF SegInv
<1>9. TailInv' BY <1>1, <1>3 DEF TailInv
<1>10. BodyInv'
  <2>1. Sent' = <<>> BY <1>1, <1>4, <1>6, SentIs, SentOfBody
  <2>2. Off' = 0 BY <1>1, <1>3 DEF Off
  <2>3. Pos' = 0 BY <1>2 DEF Pos, PosOf
  <2> QED BY <2>1, <2>2, <2>3 DEF BodyInv
<1>11. ErrorInv' BY <1>1, <1>4, <1>6 DEF ErrorInv, Undisturbed
<1>12. PhaseInv' BY <1>1, <1>2, <1>6 DEF PhaseInv
<1>13. RedirectInv' BY <1>1, <1>2 DEF RedirectInv
<1>14. BufferBounded' BY <1>3 DEF BufferBounded
<1> QED BY <1>5, <1>8, <1>9, <1>10, <1>11, <1>12, <1>13, <1>14

(***************************************************************************)
(* flushInternal.                                                          *)
(***************************************************************************)
\* flushInternal asks for the header map.
LEMMA GetHeaderInv ==
    ASSUME IInv, GetHeader PROVE IInv'
<1> USE DEF IInv
<1>1. script.pc = "get" /\ UNCHANGED <<res, out, handler, want, ops>> BY DEF GetHeader
<1>2. /\ script' \in Scripts /\ script'.seg = script.seg
      /\ script'.redirected = script.redirected /\ script'.then = script.then
      /\ script'.todo = script.todo
      /\ IF script.todo = {} THEN script'.pc = "status"
         ELSE script'.pc = "put" /\ script'.live = ~out.canceled
  <2>1. CASE script.todo = {}
    BY <2>1 DEF GetHeader, TypeOK, Scripts
  <2>2. CASE script.todo # {}
    <3>1. PICK s \in Scripts : s = [script EXCEPT !.pc = "put"] BY DEF TypeOK, Scripts
    <3>2. script' = [s EXCEPT !.live = ~out.canceled]
      BY <2>2, <3>1 DEF GetHeader, TypeOK, Scripts
    <3> QED BY <2>2, <3>1, <3>2 DEF TypeOK, Scripts
  <2> QED BY <2>1, <2>2
<1>3. TypeOK' BY <1>1, <1>2 DEF TypeOK
<1>4. SegInv' /\ TailInv' /\ BodyInv' /\ ErrorInv'
  <2>1. script.seg = 1 BY <1>1 DEF SegInv
  <2> QED BY <1>1, <1>2, <1>3, <2>1, Quiet
<1>5. PhaseInv' BY <1>1, <1>2 DEF PhaseInv
<1>6. RedirectInv' BY <1>1, <1>2 DEF RedirectInv
<1>7. BufferBounded' BY <1>2 DEF BufferBounded
<1> QED BY <1>3, <1>4, <1>5, <1>6, <1>7

\* A name is put into it; live unless the writer was canceled.
LEMMA PutHeaderInv ==
    ASSUME IInv, PutHeader PROVE IInv'
<1> USE DEF IInv
<1>1. script.pc = "put" /\ UNCHANGED <<res, handler, want, ops>> BY DEF PutHeader
<1>2. PICK h \in script.todo :
        /\ out' = IF script.live THEN [out EXCEPT !.header = @ \cup {h}] ELSE out
        /\ script' = [script EXCEPT !.pc = "get", !.todo = @ \ {h}, !.live = FALSE]
  BY DEF PutHeader
<1>3. /\ script' \in Scripts /\ script'.seg = script.seg /\ script'.pc = "get"
      /\ script'.redirected = script.redirected /\ script'.then = script.then
      /\ script'.todo = script.todo \ {h}
  <2>1. PICK s1 \in Scripts : s1 = [script EXCEPT !.pc = "get"] BY DEF TypeOK, Scripts
  <2>2. PICK s2 \in Scripts : s2 = [s1 EXCEPT !.todo = @ \ {h}] BY DEF Scripts
  <2>3. script' = [s2 EXCEPT !.live = FALSE] BY <1>2, <2>1, <2>2 DEF TypeOK, Scripts
  <2>4. script' \in Scripts BY <2>3 DEF Scripts
  <2>5. /\ script'.seg = script.seg /\ script'.pc = "get"
        /\ script'.redirected = script.redirected /\ script'.then = script.then
        /\ script'.todo = script.todo \ {h}
    BY <1>2 DEF TypeOK, Scripts
  <2> QED BY <2>4, <2>5
<1>4. /\ out' \in Writers /\ out'.body = out.body /\ out'.canceled = out.canceled
      /\ out'.wrote = out.wrote
      /\ out'.header = IF script.live THEN out.header \cup {h} ELSE out.header
  <2>1. h \in HeaderNames BY DEF TypeOK, Scripts
  <2>2. [out EXCEPT !.header = @ \cup {h}] \in Writers BY <2>1 DEF TypeOK, Writers
  <2> QED BY <1>2, <2>2 DEF TypeOK, Writers
<1>5. TypeOK' BY <1>1, <1>3, <1>4 DEF TypeOK
<1>6. SegInv' /\ TailInv' /\ BodyInv' /\ ErrorInv'
  <2>1. script.seg = 1 BY <1>1 DEF SegInv
  <2> QED BY <1>1, <1>3, <1>4, <1>5, <2>1, Quiet
<1>7. PhaseInv' BY <1>1, <1>3, <1>4 DEF PhaseInv
<1>8. RedirectInv' BY <1>1, <1>3, <1>4 DEF RedirectInv
<1>9. BufferBounded' BY <1>3 DEF BufferBounded
<1> QED BY <1>5, <1>6, <1>7, <1>8, <1>9

\* A status other than 200 commits the header.
LEMMA PutStatusInv ==
    ASSUME IInv, PutStatus PROVE IInv'
<1> USE DEF IInv
<1>1. script.pc = "status" /\ UNCHANGED <<handler, want, ops>> BY DEF PutStatus
<1>2. /\ script' \in Scripts /\ script'.seg = script.seg /\ script'.pc = "body"
      /\ script'.redirected = script.redirected /\ script'.then = script.then
  BY DEF PutStatus, TypeOK, Scripts
<1>3. /\ res' \in Responses /\ res'.buf = res.buf /\ res'.segs = res.segs
      /\ res'.status = res.status
  BY DEF PutStatus, TypeOK, Responses
<1>4. /\ out' \in Writers /\ out'.body = out.body /\ out'.canceled = out.canceled
      /\ out.wrote => out'.wrote
      /\ ~out.wrote /\ ~out.canceled /\ res.status # "200" =>
           out'.wrote /\ out'.status = res.status /\ out'.sent = out.header
  <2>1. CASE res.status = "200" \/ out.canceled
    <3>1. out' = out BY <2>1 DEF PutStatus, WriteHeader
    <3> QED BY <2>1, <3>1 DEF TypeOK
  <2>2. CASE res.status # "200" /\ ~out.canceled
    <3>1. out' = Committed(out, res.status) BY <2>2 DEF PutStatus, WriteHeader
    <3>2. PICK st \in {"302", "404"} : st = res.status BY <2>2 DEF TypeOK, Responses
    <3>3. out' = Committed(out, st) BY <3>1, <3>2
    <3> QED BY <2>2, <3>2, <3>3, CommittedType DEF TypeOK
  <2> QED BY <2>1, <2>2
<1>5. TypeOK' BY <1>1, <1>2, <1>3, <1>4 DEF TypeOK
<1>6. SegInv' /\ TailInv' /\ BodyInv' /\ ErrorInv'
  <2>1. script.seg = 1 BY <1>1 DEF SegInv
  <2> QED BY <1>1, <1>2, <1>3, <1>4, <1>5, <2>1, Quiet
<1>7. PhaseInv' BY <1>1, <1>2, <1>3, <1>4 DEF PhaseInv
<1>8. RedirectInv' BY <1>1, <1>2, <1>3, <1>4 DEF RedirectInv
<1>9. BufferBounded' BY <1>2 DEF BufferBounded
<1> QED BY <1>5, <1>6, <1>7, <1>8, <1>9

\* A segment goes out: what it encodes is the next part of what is wanted.
LEMMA PutSegmentInv ==
    ASSUME IInv, PutSegment PROVE IInv'
<1> USE DEF IInv
<1>1. /\ script.pc = "body" /\ script.seg <= Len(res.segs)
      /\ script' = [script EXCEPT !.seg = @ + 1]
      /\ UNCHANGED <<res, handler, want, ops>>
  BY DEF PutSegment
<1>2. PICK n \in 1 .. Len(res.segs) : n = script.seg BY <1>1 DEF SegInv
<1>3. Len(res.segs) \in Nat /\ res \in Responses /\ Segmented(res)
  BY DEF TypeOK, Responses, SegInv
<1>4. /\ script' \in Scripts /\ script'.seg = n + 1 /\ script'.pc = "body"
      /\ script'.redirected = script.redirected /\ script'.then = script.then
  BY <1>1, <1>2 DEF TypeOK, Scripts
<1>5. PICK e \in Seq(Units) : e = Encoded(res, n) BY <1>3, EncodedType
<1>6. /\ Len(e) = res.segs[n].end - res.segs[n].start
      /\ res.segs[n].start \in Nat /\ res.segs[n].end \in Nat
      /\ res.segs[n].start < res.segs[n].end
  BY <1>3, <1>5, EncodedType DEF SegType, Segmented
<1>7. Pos = res.segs[n].start BY <1>1, <1>2 DEF Pos, PosOf
<1>8. Pos' = res.segs[n].end
  <2>1. CASE n = Len(res.segs)
    <3>1. ~(n + 1 <= Len(res.segs)) BY <1>3, <2>1
    <3>2. Pos' = Len(res.buf) BY <1>1, <1>4, <3>1 DEF Pos, PosOf
    <3> QED BY <2>1, <3>2, <1>3 DEF Segmented
  <2>2. CASE n # Len(res.segs)
    <3>1. n + 1 \in 1 .. Len(res.segs) BY <1>3, <2>2
    <3>2. Pos' = res.segs[n + 1].start BY <1>1, <1>4, <3>1 DEF Pos, PosOf
    <3>3. n + 1 # 1 /\ (n + 1) - 1 = n BY <1>3
    <3> QED BY <1>3, <3>1, <3>2, <3>3 DEF Segmented
  <2> QED BY <2>1, <2>2
<1>9. SegInv' BY <1>1, <1>3, <1>4 DEF SegInv
<1>10. TailInv' BY <1>1 DEF TailInv, Off
<1>11. Off' = Off /\ Off \in Nat BY <1>1, <1>3, ForgottenIs DEF Off
<1>12. CASE out.canceled
  <2>1. out' = out BY <1>12 DEF PutSegment, Write
  <2>2. TypeOK' BY <1>1, <1>4, <2>1 DEF TypeOK
  <2>3. Sent' = Sent /\ Len(Sent) <= Off + Pos BY <2>1, SentOfBody DEF BodyInv
  <2>4. Len(Sent) \in Nat
    <3>1. out.body \in Seq(Units) => Sent = out.body BY SentIs, SentOfBody
    <3>2. \A b \in Seq(Units) : out.body = Append(b, <<"error">>) => Sent = b
      BY SentIs, SentOfBody
    <3>3. Sent \in Seq(Units) BY <3>1, <3>2 DEF ErrorInv, Undisturbed
    <3> QED BY <3>3
  <2>5. Len(Sent) <= Off + res.segs[n].end BY <1>6, <1>7, <1>11, <2>3, <2>4
  <2>6. BodyInv' BY <1>1, <1>8, <1>11, <1>12, <2>1, <2>3, <2>5 DEF BodyInv
  <2>7. ErrorInv' BY <1>1, <1>4, <2>1 DEF ErrorInv, Undisturbed
  <2>8. PhaseInv' BY <1>1, <1>4, <2>1 DEF PhaseInv
  <2>9. RedirectInv' BY <1>1, <1>4, <2>1 DEF RedirectInv
  <2>10. BufferBounded' BY <1>4 DEF BufferBounded
  <2> QED BY <1>9, <1>10, <2>2, <2>6, <2>7, <2>8, <2>9, <2>10
<1>13. CASE ~out.canceled
  <2>1. Undisturbed BY <1>1, <1>13 DEF ErrorInv
  <2>2. PICK b \in Seq(Units) : b = out.body BY <2>1 DEF Undisturbed
  <2>3. PICK c \in Seq(Units) : c = b \o e BY ConcatProperties
  <2>4. c \in Seq(Units \cup {<<"error">>}) BY SeqMonotonic
  <2>5. out' = Answered(out, "200", c)
    <3>1. out' = [Committed(out, "200") EXCEPT !.body = @ \o e]
      BY <1>2, <1>5, <1>13 DEF PutSegment, Write
    <3>2. PICK w \in Writers : w = Committed(out, "200") BY CommittedType DEF TypeOK
    <3>3. w.body = b BY <2>2, <3>2, CommittedType DEF TypeOK
    <3>4. out' = [w EXCEPT !.body = w.body \o e] BY <3>1, <3>2
    <3> QED BY <2>3, <3>2, <3>3, <3>4 DEF Answered
  <2>6. out' \in Writers /\ out'.body = c /\ out'.wrote /\ out'.canceled = out.canceled
    BY <2>4, <2>5, AnsweredType DEF TypeOK
  <2>7. TypeOK' BY <1>1, <1>4, <2>6 DEF TypeOK
  <2>8. Sent = b /\ Sent' = c BY <2>2, <2>6, SentIs, SentOfBody
  <2>9. /\ Len(c) = Len(b) + Len(e) /\ Len(b) \in Nat /\ Len(e) \in Nat
        /\ \A i \in 1 .. Len(c) : c[i] = IF i <= Len(b) THEN b[i] ELSE e[i - Len(b)]
    BY <2>3, ConcatProperties
  <2>10. Len(b) = Off + res.segs[n].start BY <1>7, <1>13, <2>8 DEF BodyInv
  <2>11. Len(c) = Off + res.segs[n].end
    <3>1. PICK x \in Nat, y \in Nat, o \in Nat :
            x = res.segs[n].start /\ y = res.segs[n].end /\ o = Off
      BY <1>6, <1>11
    <3>2. Len(e) = y - x /\ Len(b) = o + x BY <1>6, <2>10, <3>1
    <3>3. Len(c) = o + y BY <2>9, <3>2
    <3> QED BY <3>1, <3>3
  <2>12. ASSUME NEW i \in 1 .. Len(c) PROVE c[i] = want[i]
    <3>1. CASE i <= Len(b)
      <4>1. i \in 1 .. Len(b) BY <2>9, <3>1
      <4>2. b[i] = want[i] BY <2>8, <4>1 DEF BodyInv
      <4> QED BY <2>9, <3>1, <4>2
    <3>2. CASE ~(i <= Len(b))
      <4>1. PICK k \in 1 .. Len(e) : k = i - Len(b) BY <2>9, <3>2
      <4>2. want[Off + res.segs[n].start + k] = e[k]
        BY <1>5, <1>6 DEF TailInv
      <4>3. Off + res.segs[n].start + k = i BY SMTT(30), <1>6, <1>11, <2>9, <2>10, <4>1
      <4> QED BY <2>9, <3>2, <4>1, <4>2, <4>3
    <3> QED BY <3>1, <3>2
  <2>13. BodyInv'
    BY <1>1, <1>6, <1>8, <1>11, <2>8, <2>11, <2>12 DEF BodyInv
  <2>14. ErrorInv' BY <2>6 DEF ErrorInv, Undisturbed
  <2>15. PhaseInv' BY <1>1, <1>4, <2>6 DEF PhaseInv
  <2>16. RedirectInv'
    <3>1. res.buf # <<>> BY <1>2, <1>3 DEF Segmented
    <3> QED BY <1>4, <3>1 DEF RedirectInv
  <2>17. BufferBounded' BY <1>4 DEF BufferBounded
  <2> QED BY <1>9, <1>10, <2>7, <2>13, <2>14, <2>15, <2>16, <2>17
<1> QED BY <1>12, <1>13 DEF TypeOK, Writers

\* The whole buffer is out.
LEMMA FlushEndsInv ==
    ASSUME IInv, FlushEnds PROVE IInv'
<1> USE DEF IInv
<1>1. /\ script.pc = "body" /\ script.seg > Len(res.segs)
      /\ res' = [Emptied(res) EXCEPT !.ended = @ \/ script.then = "end"]
      /\ UNCHANGED <<out, handler, want, ops>>
  BY DEF FlushEnds
<1>2. /\ script' \in Scripts /\ script'.seg = 1
      /\ script'.pc = IF script.then = "page" THEN "page" ELSE "over"
      /\ script'.redirected = script.redirected /\ script'.then = script.then
  <2>1. PICK s \in Scripts : s = [script EXCEPT !.seg = 1] BY DEF TypeOK, Scripts
  <2>2. script' = [s EXCEPT !.pc = IF script.then = "page" THEN "page" ELSE "over"]
    BY <2>1 DEF FlushEnds
  <2>3. script' \in Scripts BY <2>2 DEF Scripts
  <2> QED BY <2>1, <2>2, <2>3 DEF TypeOK, Scripts
<1>3. /\ res' \in Responses /\ res'.buf = <<>> /\ res'.segs = <<>>
      /\ res'.status = res.status
  <2>1. PICK e \in Responses : e = Emptied(res) BY EmptiedType DEF TypeOK
  <2>2. e.buf = <<>> /\ e.segs = <<>> /\ e.status = res.status
    BY <2>1 DEF Emptied, TypeOK, Responses
  <2>3. PICK b \in BOOLEAN : b = (e.ended \/ script.then = "end") BY DEF Responses
  <2>4. res' = [e EXCEPT !.ended = b] BY <1>1, <2>1, <2>3
  <2> QED BY <2>2, <2>4 DEF Responses
<1>4. TypeOK' BY <1>1, <1>2, <1>3 DEF TypeOK
<1>5. Segmented(res)' BY <1>3 DEF Segmented
<1>6. SegInv' BY <1>2, <1>3, <1>5 DEF SegInv
<1>7. Len(want) \in Nat /\ Len(res.buf) \in Nat /\ Len(res.segs) \in Nat /\ script.seg \in Nat
  BY DEF TypeOK, Responses, Scripts
<1>8. TailInv' BY <1>1, <1>3, <1>7 DEF TailInv
<1>9. Pos = Len(res.buf) /\ Pos' = 0
  <2>1. ~(script.seg <= Len(res.segs)) BY <1>1, <1>7
  <2> QED BY <1>1, <1>2, <2>1 DEF Pos, PosOf
<1>10. Off' + Pos' = Off + Pos BY <1>1, <1>3, <1>7, <1>9 DEF Off
<1>11. Sent' = Sent BY <1>1, SentOfBody
<1>12. BodyInv' BY <1>1, <1>10, <1>11 DEF BodyInv
<1>13. ErrorInv' BY <1>1 DEF ErrorInv, Undisturbed
<1>14. PhaseInv' BY <1>1, <1>2, <1>3 DEF PhaseInv
<1>15. RedirectInv' BY <1>1, <1>2, <1>3 DEF RedirectInv
<1>16. BufferBounded' BY <1>3 DEF BufferBounded
<1> QED BY <1>4, <1>6, <1>8, <1>12, <1>13, <1>14, <1>15, <1>16

(***************************************************************************)
(* The handler.                                                            *)
(***************************************************************************)
\* The handler finishes a page; its buffer is empty by then.
LEMMA FinishInv ==
    ASSUME IInv, Finish PROVE IInv'
<1> USE DEF IInv
<1> DEFINE late == IF res.flushed THEN {} ELSE {"standard"} \cup res.headers
           status == IF res.flushed THEN "200" ELSE res.status
           headed == [out EXCEPT !.header = @ \cup {"session"} \cup late]
<1>1. /\ handler = "watch" /\ script.pc = "over" /\ handler' = "returned"
      /\ UNCHANGED <<script, want, ops>> /\ res' = Emptied(res)
      /\ out' = [Committed(headed, status) EXCEPT !.body = @ \o RestOfBody]
  BY DEF Finish
<1>2. res.buf = <<>> /\ res.segs = <<>> BY <1>1 DEF PhaseInv, SegInv, Segmented
<1>3. RestOfBody = <<>>
  <2>1. [i \in 1 .. Len(res.segs) |-> Encoded(res, i)] = <<>> BY <1>2
  <2>2. FlattenSeq(<<>>) = <<>> BY DEF FlattenSeq
  <2> QED BY <2>1, <2>2 DEF RestOfBody
<1>4. /\ res' \in Responses /\ res'.buf = res.buf /\ res'.segs = res.segs
      /\ res'.status = res.status
  <2>1. res' \in Responses BY <1>1, EmptiedType DEF TypeOK
  <2> QED BY <1>1, <1>2, <2>1 DEF Emptied, TypeOK, Responses
<1>5. PICK h \in Writers : h = headed
  <2>1. late \in SUBSET HeaderNames BY DEF TypeOK, Responses
  <2> HIDE DEF late
  <2> QED BY <2>1 DEF TypeOK, Writers
<1>6. /\ h.body = out.body /\ h.canceled = out.canceled /\ h.wrote = out.wrote
      /\ h.status = out.status /\ h.sent = out.sent
  BY <1>5 DEF TypeOK, Writers
<1>7. PICK b \in Seq(Units \cup {<<"error">>}) : b = out.body BY DEF TypeOK, Writers
<1>8. PICK st \in {"200", "302", "404"} : st = status BY DEF TypeOK, Responses
<1>9. out' = Answered(h, st, b)
  <2> HIDE DEF status
  <2>1. PICK w \in Writers : w = Committed(h, st) BY CommittedType
  <2>2. w.body = b BY <1>6, <1>7, <2>1, CommittedType
  <2>3. out' = [w EXCEPT !.body = w.body \o <<>>] BY <1>1, <1>3, <1>5, <1>8, <2>1
  <2>4. b \o <<>> = b BY ConcatEmptySeq
  <2> QED BY <2>1, <2>2, <2>3, <2>4 DEF Answered
<1>10. /\ out' \in Writers /\ out'.body = out.body /\ out'.wrote
       /\ out'.canceled = out.canceled
       /\ out.wrote => out'.status = out.status /\ out'.sent = out.sent
  <2>1. st \in {"200", "302", "404", "500", "503"} OBVIOUS
  <2>2. /\ out' \in Writers /\ out'.body = b /\ out'.wrote
        /\ out'.canceled = h.canceled
        /\ h.wrote => out'.status = h.status /\ out'.sent = h.sent
    <3> HIDE DEF headed, late
    <3> QED BY <1>9, <2>1, AnsweredType
  <2> QED BY <1>6, <1>7, <2>2
<1>11. TypeOK' BY <1>1, <1>4, <1>10 DEF TypeOK
<1>12. SegInv' /\ TailInv' /\ BodyInv' /\ ErrorInv'
  <2>1. script.seg = 1 BY <1>1 DEF SegInv
  <2> QED BY <1>1, <1>4, <1>10, <1>11, <2>1, Quiet
<1>13. PhaseInv' BY <1>1, <1>2, <1>4, <1>10 DEF PhaseInv
<1>14. RedirectInv' BY <1>1, <1>4, <1>10 DEF RedirectInv
<1>15. BufferBounded' BY <1>1 DEF BufferBounded
<1> QED BY <1>11, <1>12, <1>13, <1>14, <1>15

\* The answer of the handler ends the body.
LEMMA AnswerInv ==
    ASSUME IInv, NEW st \in {"500", "503"}, handler \in {"watch", "body"},
           out.canceled \/ script.pc = "failed",
           out' = [Committed(out, st) EXCEPT !.body = Append(@, <<"error">>)],
           handler' = "returned", UNCHANGED <<res, script, want, ops>>
    PROVE  IInv'
<1> USE DEF IInv
<1>1. Undisturbed BY DEF ErrorInv
<1>2. PICK b \in Seq(Units) : b = out.body BY <1>1 DEF Undisturbed
<1>3. PICK c \in Seq(Units \cup {<<"error">>}) : c = Append(b, <<"error">>)
  <2>1. b \in Seq(Units \cup {<<"error">>}) BY SeqMonotonic
  <2> QED BY <2>1, AppendProperties
<1>4. out' = Answered(out, st, c)
  <2>1. PICK w \in Writers : w = Committed(out, st) BY CommittedType DEF TypeOK
  <2>2. w.body = b BY <1>2, <2>1, CommittedType DEF TypeOK
  <2> QED BY <1>3, <2>1, <2>2 DEF Answered
<1>5. out' \in Writers /\ out'.body = c /\ out'.wrote /\ out'.canceled = out.canceled
  <2>1. st \in {"200", "302", "404", "500", "503"} /\ out \in Writers BY DEF TypeOK
  <2>2. PICK q : q = out' OBVIOUS
  <2>3. q = Answered(out, st, c) BY <1>4, <2>2
  <2>4. q \in Writers /\ q.body = c /\ q.wrote /\ q.canceled = out.canceled
    BY ONLY <2>1, c \in Seq(Units \cup {<<"error">>}), <2>3, AnsweredType
  <2> QED BY <2>2, <2>4
<1>6. TypeOK' BY <1>5 DEF TypeOK
<1>7. Sent' = Sent
  <2>1. Sent = b BY <1>2, SentIs, SentOfBody
  <2>2. Sent' = b BY <1>3, <1>5, SentIs, SentOfBody
  <2> QED BY <2>1, <2>2
<1>8. SegInv' BY DEF SegInv, Segmented
<1>9. TailInv' BY DEF TailInv, Off
<1>10. BodyInv'
  <2>1. Off' = Off /\ Pos' = Pos BY DEF Off, Pos
  <2> QED BY <1>5, <1>7, <2>1 DEF BodyInv
<1>11. ErrorInv' BY <1>3, <1>5 DEF ErrorInv
<1>12. PhaseInv' BY <1>5 DEF PhaseInv
<1>13. RedirectInv' BY <1>5 DEF RedirectInv
<1>14. BufferBounded' BY DEF BufferBounded
<1> QED BY <1>6, <1>8, <1>9, <1>10, <1>11, <1>12, <1>13, <1>14

\* Every step of the handler keeps the invariant.
LEMMA HandlerInv ==
    ASSUME IInv, Handler PROVE IInv'
<1> USE DEF IInv
<1>1. CASE Finish BY <1>1, FinishInv
<1>2. CASE ErrorPage BY <1>2, AnswerInv DEF ErrorPage
<1>3. CASE ErrorBody
  <2>1. out.canceled BY <1>3 DEF ErrorBody, PhaseInv
  <2> QED BY <1>3, <2>1, AnswerInv DEF ErrorBody
<1>4. CASE Timeout \/ ErrorHeader \/ MapFault
  <2>1. /\ handler \in {"watch", "header"} /\ handler' \in {"header", "body", "crashed"}
        /\ handler = "watch" => handler' = "header"
        /\ UNCHANGED <<res, script, want, ops>>
    BY <1>4 DEF Timeout, ErrorHeader, MapFault, HeaderRace
  <2>2. /\ out' \in Writers /\ out'.body = out.body /\ out'.wrote = out.wrote
        /\ out.canceled => out'.canceled
        /\ handler = "watch" => out'.canceled
    <3>1. CASE Timeout BY <3>1 DEF Timeout, TypeOK, Writers
    <3>2. CASE ErrorHeader BY <3>2 DEF ErrorHeader, TypeOK, Writers
    <3>3. CASE MapFault BY <3>3 DEF MapFault, HeaderRace, TypeOK
    <3> QED BY <1>4, <3>1, <3>2, <3>3
  <2>3. TypeOK' BY <2>1, <2>2 DEF TypeOK
  <2>4. SegInv' /\ TailInv' /\ BodyInv' /\ ErrorInv'
    <3>1. script.pc # "body" => script.seg = 1 BY DEF SegInv
    <3> QED BY <2>1, <2>2, <2>3, <3>1, Quiet
  <2>5. out'.canceled BY <2>1, <2>2 DEF PhaseInv
  <2>6. PhaseInv' BY <2>1, <2>2, <2>5 DEF PhaseInv
  <2>7. RedirectInv' BY <2>1, <2>5 DEF RedirectInv
  <2>8. BufferBounded' BY <2>1 DEF BufferBounded
  <2> QED BY <2>3, <2>4, <2>6, <2>7, <2>8
<1> QED BY <1>1, <1>2, <1>3, <1>4 DEF Handler

-----------------------------------------------------------------------------
(***************************************************************************)
(* Results.                                                                *)
(***************************************************************************)
\* Every step keeps the invariant.
LEMMA NextInv ==
    ASSUME IInv, [Next]_vars PROVE IInv'
<1>1. CASE UNCHANGED vars
  BY <1>1 DEF vars, IInv, TypeOK, PhaseInv, SegInv, TailInv, Off, ErrorInv,
              Undisturbed, BodyInv, Sent, Pos, RedirectInv, BufferBounded
<1>2. CASE Next
  BY <1>2, MethodsInv, FlushMethodsInv, PageFailsInv, OnStartEndsInv, GetHeaderInv,
     PutHeaderInv, PutStatusInv, PutSegmentInv, FlushEndsInv, HandlerInv
  DEF Next, FlushStep
<1> QED BY <1>1, <1>2

\* The invariant holds of every state.
THEOREM Invariance == Spec => []IInv
<1>1. Init => IInv BY InitIInv
<1>2. IInv /\ [Next]_vars => IInv' BY NextInv
<1> QED BY <1>1, <1>2, PTL DEF Spec

(***************************************************************************)
(* The buffer never exceeds maxBufferBytes while the page runs.            *)
(***************************************************************************)
THEOREM BufferIsBounded == Spec => []BufferBounded
<1>1. IInv => BufferBounded BY DEF IInv
<1> QED BY <1>1, Invariance, PTL

(***************************************************************************)
(* The handler's answer to a timeout or an error ends the body: a detached *)
(* script adds nothing to it.                                              *)
(***************************************************************************)
THEOREM AnswerIsLast == Spec => []ErrorLast
<1>1. ASSUME IInv PROVE ErrorLast
  <2>1. CASE Undisturbed
    <3>1. \A i \in 1 .. Len(out.body) : out.body[i] \in Units
      BY <2>1, ElementOfSeq DEF Undisturbed
    <3> QED BY <3>1, UnitsAreNoError DEF ErrorLast
  <2>2. CASE ~Undisturbed
    <3>1. PICK b \in Seq(Units) : out.body = Append(b, <<"error">>)
      BY <1>1, <2>2 DEF IInv, ErrorInv
    <3>2. b \in Seq(Units \cup {<<"error">>}) BY SeqMonotonic
    <3>3. Len(out.body) = Len(b) + 1 /\ Len(b) \in Nat
          /\ \A i \in 1 .. Len(b) : out.body[i] = b[i]
      BY <3>1, <3>2, AppendProperties
    <3>4. \A i \in 1 .. Len(b) : b[i] \in Units BY ElementOfSeq
    <3>5. ASSUME NEW i \in 1 .. Len(out.body), i # Len(out.body)
          PROVE  out.body[i] # <<"error">>
      <4>1. i \in 1 .. Len(b) BY <3>3, <3>5
      <4> QED BY <3>3, <3>4, <4>1, UnitsAreNoError
    <3> QED BY <3>5 DEF ErrorLast
  <2> QED BY <2>1, <2>2
<1> QED BY <1>1, Invariance, PTL

(***************************************************************************)
(* A page that is redirected before it flushed or sent anything is         *)
(* answered with the redirect and nothing else.                            *)
(***************************************************************************)
THEOREM RedirectsStand == Spec => []RedirectStands
<1>1. IInv => RedirectStands BY DEF IInv, RedirectInv, RedirectStands
<1> QED BY <1>1, Invariance, PTL

\* Later segments end further on in the buffer.
LEMMA EndsGrow ==
    ASSUME NEW r \in Responses, Segmented(r), NEW i \in 1 .. Len(r.segs),
           NEW n \in 1 .. Len(r.segs), i <= n
    PROVE  r.segs[i].start < r.segs[n].end
<1> DEFINE N == Len(r.segs)
           T == {d \in Nat : i + d \in 1 .. N => r.segs[i].start < r.segs[i + d].end}
<1>1. N \in Nat BY DEF Responses
<1>2. ASSUME NEW m \in 1 .. N
      PROVE  /\ r.segs[m].start \in Nat /\ r.segs[m].end \in Nat
             /\ r.segs[m].start < r.segs[m].end
             /\ m # 1 => r.segs[m].start = r.segs[m - 1].end
  BY EncodedType DEF Segmented, SegType
<1>3. 0 \in T BY <1>1, <1>2
<1>4. ASSUME NEW d \in T PROVE d + 1 \in T
  <2> SUFFICES ASSUME i + (d + 1) \in 1 .. N
               PROVE  r.segs[i].start < r.segs[i + (d + 1)].end
    OBVIOUS
  <2>1. PICK m \in 1 .. N : m = i + (d + 1) OBVIOUS
  <2>2. m # 1 /\ m - 1 = i + d /\ i + d \in 1 .. N BY <1>1, <2>1
  <2>3. r.segs[i].start < r.segs[m - 1].end BY <2>2
  <2>4. r.segs[m].start = r.segs[m - 1].end /\ r.segs[m].start < r.segs[m].end
        /\ r.segs[m].start \in Nat /\ r.segs[m].end \in Nat /\ r.segs[i].start \in Nat
    BY <1>2, <2>2
  <2> QED BY <2>1, <2>3, <2>4
<1>5. T = Nat
  <2>1. T \in SUBSET Nat OBVIOUS
  <2> HIDE DEF T
  <2> QED BY <1>3, <1>4, <2>1, SetInduction
<1>6. n - i \in T
  <2>1. n - i \in Nat BY <1>1
  <2> HIDE DEF T
  <2> QED BY <1>5, <2>1
<1>7. i + (n - i) = n BY <1>1
<1> QED BY <1>6, <1>7

\* What is still to be sent is the end of what is wanted.
LEMMA PendingIs ==
    ASSUME IInv
    PROVE  /\ Off + Pos \in Nat /\ Off + Pos <= Len(want)
           /\ Pending = [j \in 1 .. Len(want) - (Off + Pos) |-> want[Off + Pos + j]]
<1> USE DEF IInv
<1>1. /\ res \in Responses /\ Segmented(res) /\ want \in Seq(Units)
      /\ Len(res.segs) \in Nat /\ Len(res.buf) \in Nat /\ Len(want) \in Nat
      /\ script.seg \in 1 .. Len(res.segs) + 1
  BY DEF TypeOK, SegInv, Responses
<1> PICK N \in Nat : N = Len(res.segs) BY <1>1
<1> PICK s \in 1 .. N + 1 : s = script.seg BY <1>1
<1>2. N = Len(res.segs) /\ s = script.seg OBVIOUS
<1>3. PICK o \in Nat : o = Off BY ForgottenIs
<1>4. o + Len(res.buf) = Len(want) BY <1>1, <1>3 DEF Off
<1>5. ASSUME NEW i \in 1 .. N
      PROVE  /\ res.segs[i].start \in Nat /\ res.segs[i].end \in Nat
             /\ res.segs[i].start < res.segs[i].end /\ res.segs[i].end <= Len(res.buf)
             /\ i # 1 => res.segs[i].start = res.segs[i - 1].end
             /\ i = N => res.segs[i].end = Len(res.buf)
             /\ Encoded(res, i) \in Seq(Units)
             /\ Len(Encoded(res, i)) = res.segs[i].end - res.segs[i].start
             /\ \A k \in 1 .. res.segs[i].end - res.segs[i].start :
                   want[o + res.segs[i].start + k] = Encoded(res, i)[k]
  BY ZenonT(60), <1>1, <1>2, <1>3, EncodedType DEF Segmented, SegType, TailInv
<1>6. Pos = IF s <= N THEN res.segs[s].start ELSE Len(res.buf)
  <2>1. CASE script.pc = "body" BY <1>2, <2>1 DEF Pos, PosOf
  <2>2. CASE script.pc # "body"
    <3>1. Pos = 0 /\ s = 1 BY <1>2, <2>2 DEF Pos, PosOf, SegInv
    <3>2. CASE N = 0
      <4>1. res.segs = <<>>
        <5>1. res.segs \in Seq(SegType) BY <1>1 DEF Responses, SegType
        <5> QED BY <1>2, <3>2, <5>1, EmptySeq
      <4>2. Len(res.buf) = 0 BY <1>1, <4>1 DEF Segmented
      <4> QED BY <3>1, <3>2, <4>2
    <3>3. CASE N # 0
      <4>1. 1 \in 1 .. Len(res.segs) BY <1>2, <3>3
      <4>2. res.segs[1].start = 0 BY <1>1, <4>1 DEF Segmented
      <4> QED BY <3>1, <3>3, <4>2
    <3> QED BY <3>2, <3>3
  <2> QED BY <2>1, <2>2
<1>7. PICK P \in Nat : P = Pos
  <2>1. s <= N => s \in 1 .. N OBVIOUS
  <2> QED BY <1>1, <1>5, <1>6, <2>1
<1>8. P <= Len(res.buf)
  <2>1. s <= N => s \in 1 .. N OBVIOUS
  <2>2. CASE s <= N
    <3>1. P = res.segs[s].start BY <1>6, <1>7, <2>2
    <3>2. /\ res.segs[s].start \in Nat /\ res.segs[s].end \in Nat
          /\ res.segs[s].start < res.segs[s].end /\ res.segs[s].end <= Len(res.buf)
      BY <1>5, <2>1, <2>2
    <3> QED BY <1>1, <3>1, <3>2
  <2>3. CASE ~(s <= N) BY <1>1, <1>6, <1>7, <2>3
  <2> QED BY <2>2, <2>3
<1>9. ASSUME NEW n \in 1 .. N, s <= n
      PROVE  /\ res.segs[n].end - P \in Nat
             /\ \A j \in 1 .. res.segs[n].end - P : want[o + P + j] \in Units
  <2>1. s \in 1 .. Len(res.segs) /\ n \in 1 .. Len(res.segs) BY <1>2, <1>9
  <2>2. P = res.segs[s].start BY <1>2, <1>6, <1>7, <2>1
  <2>3. P < res.segs[n].end BY <1>1, <1>9, <2>1, <2>2, EndsGrow
  <2>4. PICK e \in Nat : e = res.segs[n].end /\ e <= Len(res.buf) BY <1>5
  <2>5. e - P \in Nat BY <2>3, <2>4
  <2>6. ASSUME NEW j \in 1 .. e - P PROVE want[o + P + j] \in Units
    <3>1. P + j <= Len(res.buf) /\ j >= 1 /\ j \in Nat BY SMTT(30), <1>1, <2>4, <2>5
    <3>2. PICK l \in Nat, v \in Nat : l = Len(res.buf) /\ v = Len(want) BY <1>1
    <3>3. o + P + j \in 1 .. v BY <1>4, <3>1, <3>2
    <3>4. o + P + j \in 1 .. Len(want) BY <3>2, <3>3
    <3> QED BY <1>1, <3>4, ElementOfSeq
  <2> QED BY <2>4, <2>5, <2>6
<1> DEFINE ss == [i \in 1 .. N |-> IF i < s THEN <<>> ELSE Encoded(res, i)]
           w(n) == [j \in 1 .. res.segs[n].end - P |-> want[o + P + j]]
           f == [n \in 0 .. N |-> IF n < s THEN <<>> ELSE w(n)]
<1>10. Pending = FlattenSeq(ss)
  <2>1. ASSUME NEW i \in 1 .. N
        PROVE  (IF script.pc = "body" /\ i < script.seg THEN <<>> ELSE Encoded(res, i))
                 = (IF i < s THEN <<>> ELSE Encoded(res, i))
    <3>1. script.pc # "body" => s = 1 BY <1>2 DEF SegInv
    <3>2. s = 1 => ~(i < s) OBVIOUS
    <3> QED BY <1>2, <3>1, <3>2
  <2>2. [i \in 1 .. Len(res.segs) |-> IF script.pc = "body" /\ i < script.seg
            THEN <<>> ELSE Encoded(res, i)] = ss
    BY <1>2, <2>1
  <2> QED BY <2>2 DEF Pending
<1>11. ss \in Seq(Seq(Units)) /\ Len(ss) = N
  <2>1. \A i \in 1 .. N : (IF i < s THEN <<>> ELSE Encoded(res, i)) \in Seq(Units)
    BY <1>5
  <2>2. ss \in [1 .. N -> Seq(Units)] BY <2>1
  <2> HIDE DEF ss
  <2> QED BY <2>2
<1>12. ASSUME NEW n \in 1 .. N, s <= n
       PROVE  w(n) \in Seq(Units) /\ Len(w(n)) = res.segs[n].end - P
  <2>1. PICK m \in Nat : m = res.segs[n].end - P BY <1>9, <1>12
  <2>2. \A j \in 1 .. m : want[o + P + j] \in Units BY <1>9, <1>12, <2>1
  <2>3. w(n) = [j \in 1 .. m |-> want[o + P + j]] BY <2>1
  <2>4. w(n) \in [1 .. m -> Units] BY <2>2, <2>3
  <2> HIDE DEF w
  <2> QED BY <2>1, <2>4
<1>13. f \in [0 .. N -> Seq(Units)]
  <2> HIDE DEF w
  <2>1. \A n \in 0 .. N : ~(n < s) => n \in 1 .. N /\ s <= n OBVIOUS
  <2>2. \A n \in 0 .. N : (IF n < s THEN <<>> ELSE w(n)) \in Seq(Units) BY <1>12, <2>1
  <2> QED BY <2>2
<1>14. f[0] = <<>> OBVIOUS
<1>15. ASSUME NEW n \in 0 .. N - 1 PROVE f[n + 1] = f[n] \o ss[n + 1]
  <2>1. PICK m \in 1 .. N : m = n + 1 OBVIOUS
  <2>2. CASE m < s
    <3>1. n < s BY <2>1, <2>2
    <3>2. f[n + 1] = <<>> /\ f[n] = <<>> /\ ss[n + 1] = <<>> BY <2>1, <2>2, <3>1
    <3>3. <<>> \in Seq(Units) OBVIOUS
    <3>4. <<>> \o <<>> = <<>> BY <3>3, ConcatEmptySeq
    <3> HIDE DEF f, ss, w
    <3> QED BY <3>2, <3>4
  <2>3. CASE m = s
    <3>1. n < s /\ ~(m < s) /\ m \in 0 .. N BY <2>1, <2>3
    <3>2. f[n] = <<>> BY <3>1
    <3>3. f[m] = w(m) BY <3>1
    <3>4. ss[m] = Encoded(res, m) BY <3>1
    <3>5. P = res.segs[m].start BY <1>6, <1>7, <2>3
    <3>6. \A j \in 1 .. res.segs[m].end - P : want[o + P + j] = Encoded(res, m)[j]
      BY <1>5, <3>5
    <3>7. PICK e \in Seq(Units) : e = Encoded(res, m) BY <1>5
    <3>8. Len(e) = res.segs[m].end - P BY <1>5, <3>5, <3>7
    <3>9. e = [j \in 1 .. Len(e) |-> e[j]] OBVIOUS
    <3>10. w(m) = e BY <3>6, <3>7, <3>8, <3>9
    <3>11. <<>> \o e = e BY ConcatEmptySeq
    <3> HIDE DEF f, ss, w
    <3> QED BY <2>1, <3>2, <3>3, <3>4, <3>7, <3>10, <3>11
  <2>4. CASE m > s
    <3>1. n \in 1 .. N /\ s <= n /\ s <= m /\ ~(n < s) /\ ~(m < s) /\ m \in 0 .. N
      BY <2>1, <2>4
    <3>2. f[n] = w(n) /\ f[m] = w(m) /\ ss[m] = Encoded(res, m) BY <3>1
    <3>3. PICK a \in Seq(Units) : a = w(n) /\ Len(a) = res.segs[n].end - P
      BY <1>12, <3>1
    <3>4. PICK b \in Seq(Units) : b = w(m) /\ Len(b) = res.segs[m].end - P
      BY <1>12, <3>1
    <3>5. PICK e \in Seq(Units) : e = Encoded(res, m)
            /\ Len(e) = res.segs[m].end - res.segs[m].start
      BY <1>5
    <3>6. res.segs[m].start = res.segs[n].end
      <4>1. m # 1 /\ m - 1 = n BY <2>1, <3>1
      <4> QED BY <1>5, <4>1
    <3>7. PICK x \in Nat, y \in Nat : x = res.segs[n].end /\ y = res.segs[m].end
      BY <1>5, <3>1
    <3>8. /\ Len(a) = x - P /\ Len(b) = y - P /\ Len(e) = y - x
          /\ x - P \in Nat /\ y - x \in Nat
      <4>1. x - P \in Nat BY <1>9, <3>1, <3>7
      <4>2. x < y BY <1>5, <3>6, <3>7
      <4>3. y - x \in Nat BY <4>2
      <4>4. Len(a) = x - P /\ Len(b) = y - P BY <3>3, <3>4, <3>7
      <4>5. Len(e) = y - x BY <3>5, <3>6, <3>7
      <4> QED BY <4>1, <4>3, <4>4, <4>5
    <3>9. PICK c \in Seq(Units) : c = a \o e BY ConcatProperties
    <3>10. /\ Len(c) = Len(a) + Len(e)
           /\ \A j \in 1 .. Len(c) : c[j] = IF j <= Len(a) THEN a[j] ELSE e[j - Len(a)]
      BY <3>9, ConcatProperties
    <3>11. Len(c) = Len(b) BY <3>8, <3>10
    <3>12. ASSUME NEW j \in 1 .. Len(b) PROVE c[j] = b[j]
      <4>1. b[j] = want[o + P + j] BY <3>4
      <4>2. CASE j <= Len(a)
        <5>1. j \in 1 .. Len(a) BY <3>8, <4>2
        <5>2. a[j] = want[o + P + j] BY <3>3, <5>1
        <5> QED BY <3>10, <3>11, <4>1, <4>2, <5>2
      <4>3. CASE ~(j <= Len(a))
        <5>1. PICK k \in 1 .. Len(e) : k = j - Len(a) BY <3>8, <4>3
        <5>2. k \in 1 .. res.segs[m].end - res.segs[m].start BY <3>5
        <5>3. want[o + res.segs[m].start + k] = e[k] BY <1>5, <3>5, <5>2
        <5>4. o + res.segs[m].start + k = o + P + j
          <6>1. o + x + k = o + P + j BY <3>8, <5>1
          <6> QED BY <3>6, <3>7, <6>1
        <5> QED BY <3>10, <3>11, <4>1, <4>3, <5>1, <5>3, <5>4
      <4> QED BY <4>2, <4>3
    <3>13. c = b BY <3>11, <3>12, SeqEqual
    <3> HIDE DEF f, ss, w
    <3> QED BY <2>1, <3>2, <3>3, <3>4, <3>5, <3>9, <3>13
  <2>5. m < s \/ m = s \/ m > s OBVIOUS
  <2> HIDE DEF f, ss, w
  <2> QED BY <2>2, <2>3, <2>4, <2>5
<1>16. FlattenSeq(ss) = f[N]
  <2> HIDE DEF f, ss
  <2>1. \A n \in 0 .. Len(ss) - 1 : f[n + 1] = f[n] \o ss[n + 1] BY <1>11, <1>15
  <2>2. FlattenSeq(ss) = f[Len(ss)] BY <1>11, <1>13, <1>14, <2>1, FlattenIs
  <2> QED BY <1>11, <2>2
<1>17. f[N] = [j \in 1 .. Len(want) - (o + P) |-> want[o + P + j]]
  <2>1. CASE s <= N
    <3>1. N \in 1 .. N BY <2>1
    <3>2. res.segs[N].end = Len(res.buf) BY <1>5, <3>1
    <3>3. Len(res.buf) - P = Len(want) - (o + P) BY <1>1, <1>4
    <3>4. f[N] = w(N) BY <2>1
    <3> QED BY <3>2, <3>3, <3>4
  <2>2. CASE ~(s <= N)
    <3>1. P = Len(res.buf) BY <1>6, <1>7, <2>2
    <3>2. Len(want) - (o + P) = 0 BY <1>1, <1>4, <3>1
    <3>3. f[N] = <<>> BY <2>2
    <3>4. [j \in 1 .. 0 |-> want[o + P + j]] = <<>> OBVIOUS
    <3> QED BY <3>2, <3>3, <3>4
  <2> QED BY <2>1, <2>2
<1>18. o + P \in Nat /\ o + P <= Len(want) BY <1>1, <1>4, <1>8
<1> QED BY <1>3, <1>7, <1>10, <1>16, <1>17, <1>18

(***************************************************************************)
(* The client gets what the page wrote and did not clear, in order, each   *)
(* piece in the code page of the moment it was written; a page that was    *)
(* detached has sent a beginning of it.                                    *)
(***************************************************************************)
THEOREM BodyIsFaithful == Spec => []BodyFaithful
<1>1. ASSUME IInv PROVE BodyFaithful
  <2>1. Sent \in Seq(Units)
    <3>1. out.body \in Seq(Units) => Sent = out.body BY SentIs, SentOfBody
    <3>2. \A b \in Seq(Units) : out.body = Append(b, <<"error">>) => Sent = b
      BY SentIs, SentOfBody
    <3> QED BY <1>1, <3>1, <3>2 DEF IInv, ErrorInv, Undisturbed
  <2>2. want \in Seq(Units) /\ Len(want) \in Nat /\ Len(Sent) \in Nat
    BY <1>1, <2>1 DEF IInv, TypeOK
  <2>3. PICK n \in Nat : n = Off + Pos BY <1>1, PendingIs
  <2>4. /\ n <= Len(want)
        /\ Pending = [j \in 1 .. Len(want) - n |-> want[n + j]]
    BY <1>1, <2>3, PendingIs
  <2>5. /\ Len(Sent) <= n /\ (~out.canceled => Len(Sent) = n)
        /\ \A i \in 1 .. Len(Sent) : Sent[i] = want[i]
    BY <1>1, <2>3 DEF IInv, BodyInv
  <2>6. CASE out.canceled
    <3>1. Len(Sent) <= Len(want) BY <2>2, <2>4, <2>5
    <3>2. SubSeq(want, 1, Len(Sent)) = Sent BY <2>1, <2>2, <2>5, <3>1
    <3>3. SubSeq(Sent, 1, Len(Sent)) = Sent BY <2>1, <2>2
    <3>4. IsPrefix(Sent, want) BY <3>1, <3>2, <3>3 DEF IsPrefix
    <3> QED BY <2>6, <3>4 DEF BodyFaithful
  <2>7. CASE ~out.canceled
    <3>1. Len(Sent) = n BY <2>5, <2>7
    <3>2. PICK m \in Nat : m = Len(want) - n
      <4>1. Len(want) - n \in Nat BY <2>2, <2>4
      <4> QED BY <4>1
    <3>3. \A j \in 1 .. m : want[n + j] \in Units
      <4>1. \A j \in 1 .. m : n + j \in 1 .. Len(want) BY <2>2, <3>2
      <4> QED BY <2>2, <4>1, ElementOfSeq
    <3>4. Pending \in [1 .. m -> Units] BY <2>4, <3>2, <3>3
    <3>5. Pending \in Seq(Units) /\ Len(Pending) = m BY <3>4
    <3>6. PICK c \in Seq(Units) : c = Sent \o Pending BY <2>1, <3>5, ConcatProperties
    <3>7. /\ Len(c) = n + m
          /\ \A i \in 1 .. Len(c) : c[i] = IF i <= n THEN Sent[i] ELSE Pending[i - n]
      <4>1. PICK a \in Seq(Units), d \in Seq(Units) : a = Sent /\ d = Pending
        BY <2>1, <3>5
      <4>2. Len(a) = n /\ Len(d) = m /\ c = a \o d BY <3>1, <3>5, <3>6, <4>1
      <4>3. /\ Len(c) = Len(a) + Len(d)
            /\ \A i \in 1 .. Len(c) : c[i] = IF i <= Len(a) THEN a[i] ELSE d[i - Len(a)]
        BY ZenonT(60), <4>2, ConcatProperties
      <4> QED BY <4>1, <4>2, <4>3
    <3>8. Len(c) = Len(want) BY <2>2, <3>2, <3>7
    <3>9. ASSUME NEW i \in 1 .. Len(want) PROVE c[i] = want[i]
      <4>1. CASE i <= n BY <2>5, <3>1, <3>7, <3>8, <4>1
      <4>2. CASE ~(i <= n)
        <5>1. PICK j \in 1 .. m : j = i - n BY <2>2, <3>2, <4>2
        <5>2. n + j = i BY <5>1
        <5>3. Pending[j] = want[n + j] BY <2>4, <3>2
        <5> QED BY <3>7, <3>8, <4>2, <5>1, <5>2, <5>3
      <4> QED BY <4>1, <4>2
    <3>10. c = want BY <2>2, <3>8, <3>9, SeqEqual
    <3> QED BY <2>7, <3>6, <3>10 DEF BodyFaithful
  <2> QED BY <2>6, <2>7
<1> QED BY <1>1, Invariance, PTL
=============================================================================
