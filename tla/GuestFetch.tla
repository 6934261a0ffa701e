----------------------------- MODULE GuestFetch -----------------------------
(***************************************************************************)
(* A fetch that is answered by a server in the guest: guestFetchHandler of *)
(* packages/linux-guest/src/guest-fetch-handler.ts, with the ByteReader    *)
(* and the message bodies of http.ts.                                      *)
(*                                                                         *)
(* The request is sent while the response is being parsed, and the server  *)
(* may answer, hang up or stall before it has read the request.  What the  *)
(* server sends arrives in pieces that know nothing of lines and chunks.   *)
(*                                                                         *)
(* The wire is a sequence of units: the text of a line or of a head, Eol,  *)
(* its end, and the bytes of the body, which are numbered.  External are   *)
(* the server, the request's body, the consumer of the response, and the   *)
(* connection, whose writes may end, fail or stall.                        *)
(***************************************************************************)
EXTENDS Naturals, Sequences, FiniteSets

CONSTANTS
  Body,        (* bytes of the response's body                              *)
  Upload       (* bytes of the request's body                               *)

VARIABLES
  response,    (* how the server answers: framing, units, and how it ends   *)
  arrived,     (* units the reader was given                                *)
  buffer,      (* #buffer of the ByteReader                                 *)
  handler,     (* where it is, `responded', history: on a live connection   *)
  body,        (* the response's body: stage, bytes left of a chunk, got    *)
  upload,      (* send_request: stage, source, bytes written, its reader    *)
  connection

vars == <<response, arrived, buffer, handler, body, upload, connection>>

Unit(kind, n) == [kind |-> kind, n |-> n]
Eol == Unit("eol", 0)
Bad == Unit("bad", 0)
Status(n) == Unit("status", n)
Size(n) == Unit("size", n)
Unlimited == Body + 1
None == Upload + 1   (* no content-length                                   *)

-----------------------------------------------------------------------------
(***************************************************************************)
(* What the server sends, whole or cut off, with perhaps one line garbled. *)
(***************************************************************************)
Bytes(from, n) == [i \in 1 .. n |-> Unit("byte", from + i)]
Chunk(from, n) == <<Size(n), Eol>> \o Bytes(from, n) \o <<Eol>>
LastChunk == <<Size(0), Eol, Unit("trailer", 0), Eol, Eol>>

Encodings(framing) ==
  IF framing = "chunked"
  THEN {Chunk(0, Body) \o LastChunk, Chunk(0, 1) \o Chunk(1, Body - 1) \o LastChunk}
  ELSE {Bytes(0, Body)}

Heads(framing) ==
  {<<Status(200), Eol>>} \cup
  IF framing = "fixed" THEN {<<Status(100), Eol, Status(200), Eol>>, <<Status(101), Eol>>, <<Status(204), Eol>>}
  ELSE {}

Whole(framing) == {h \o e : h \in Heads(framing), e \in Encodings(framing)}
CutOff(units) == {SubSeq(units, 1, n) : n \in 0 .. Len(units) - 1}
Garbled(units) ==
  {[units EXCEPT ![i] = Bad] : i \in {j \in 1 .. Len(units) : units[j].kind # "byte"}}

Init ==
  /\ \E framing \in {"chunked", "fixed", "eof"}, end \in {"fin", "reset"} :
       /\ end = "reset" => framing = "eof"
       /\ \E units \in Whole(framing) : \E sent \in {units} \cup CutOff(units) \cup Garbled(units) :
            response = [framing |-> framing, units |-> sent, end |-> end, whole |-> sent = units]
  /\ arrived = 0 /\ buffer = <<>>
  /\ handler = [at |-> "head", responded |-> FALSE, alive |-> FALSE]
  /\ body = [at |-> "none", remaining |-> 0, got |-> <<>>]
  /\ \E left \in {0, Upload}, declared \in {0, Upload, None} :
       upload = [at |-> "head", declared |-> declared, left |-> left, written |-> 0, cancelled |-> FALSE]
  /\ connection = "open"

-----------------------------------------------------------------------------
(***************************************************************************)
(* The ByteReader: head(), line() and take().                              *)
(***************************************************************************)
HasLine == \E i \in 1 .. Len(buffer) : buffer[i] = Eol
LineEnd == CHOOSE i \in 1 .. Len(buffer) : buffer[i] = Eol /\ \A j \in 1 .. i - 1 : buffer[j] # Eol
Line == SubSeq(buffer, 1, LineEnd - 1)
Consume(n) == buffer' = SubSeq(buffer, n + 1, Len(buffer))

WantsLine == handler.at = "head" \/ body.at \in {"boundary", "size", "trailers"}
WantsBytes == body.at = "data" /\ body.remaining > 0
Starved == (WantsLine /\ ~HasLine) \/ (WantsBytes /\ buffer = <<>>)

(* #fill: whatever has arrived is added.                                   *)
Fill(n) ==
  /\ Starved /\ connection = "open" /\ arrived + n <= Len(response.units)
  /\ buffer' = buffer \o SubSeq(response.units, arrived + 1, arrived + n)
  /\ arrived' = arrived + n
  /\ UNCHANGED <<response, handler, body, upload, connection>>

-----------------------------------------------------------------------------
(***************************************************************************)
(* send_request, which runs beside the parsing of the response.            *)
(***************************************************************************)
SentOrFailed == upload.at \in {"done", "failed"}
HasReader == upload.at \in {"read", "write"}
CancelReader == [upload EXCEPT !.cancelled = @ \/ HasReader]

SendFailsAlways ==   \* fault: an upload that fails ends the response too
  /\ upload' = [upload EXCEPT !.at = "failed"]
  /\ connection' = "closed"

SendFails ==
  /\ upload' = [upload EXCEPT !.at = "failed"]
  /\ connection' = IF handler.responded THEN connection ELSE "closed"

(* All is written: it must be what was declared.                           *)
AllWritten ==
  IF upload.declared # None /\ upload.written # upload.declared THEN SendFails
  ELSE upload' = [upload EXCEPT !.at = "close"] /\ UNCHANGED connection

set_reader_only == upload' = [upload EXCEPT !.at = "read"]   \* fault: it may be too late

set_reader == upload' = [upload EXCEPT !.at = "read", !.cancelled = handler.responded]

HeadWritten ==
  /\ upload.at = "head"
  /\ IF upload.left = 0 THEN AllWritten ELSE set_reader /\ UNCHANGED connection
  /\ UNCHANGED <<response, arrived, buffer, handler, body>>

(* The request's body gives a piece, ends or was cancelled, or fails.      *)
SourceGives(n) ==
  /\ upload.at = "read" /\ ~upload.cancelled /\ n <= upload.left
  /\ IF upload.declared # None /\ upload.written + n > upload.declared THEN SendFails
     ELSE /\ upload' = [upload EXCEPT !.at = "write", !.left = @ - n, !.written = @ + n]
          /\ UNCHANGED connection
  /\ UNCHANGED <<response, arrived, buffer, handler, body>>

SourceEnds ==
  /\ upload.at = "read" /\ (upload.cancelled \/ upload.left = 0)
  /\ AllWritten
  /\ UNCHANGED <<response, arrived, buffer, handler, body>>

SourceFails ==
  /\ upload.at = "read" /\ ~upload.cancelled
  /\ SendFails
  /\ UNCHANGED <<response, arrived, buffer, handler, body>>

(* A write or the half-close ends, also just before the connection does.   *)
Written ==
  /\ upload.at \in {"write", "close"}
  /\ upload' = [upload EXCEPT !.at = IF @ = "write" THEN "read" ELSE "done"]
  /\ UNCHANGED <<response, arrived, buffer, handler, body, connection>>

WriteFails ==
  /\ upload.at \in {"head", "write", "close"}
  /\ SendFails
  /\ UNCHANGED <<response, arrived, buffer, handler, body>>

-----------------------------------------------------------------------------
(***************************************************************************)
(* The handler.                                                            *)
(***************************************************************************)
(* Its catch block, up to where it waits for send_request.                 *)
Throws ==
  /\ handler' = [handler EXCEPT !.at = "catch"]
  /\ connection' = "closed" /\ upload' = CancelReader
  /\ UNCHANGED body

Caught ==
  /\ handler.at = "catch" /\ SentOrFailed
  /\ handler' = [handler EXCEPT !.at = "rejected"]
  /\ UNCHANGED <<response, arrived, buffer, body, upload, connection>>

(* response_body: without one the connection is closed at once.            *)
FirstStage == IF response.framing = "chunked" THEN "size" ELSE "data"
Length == CASE response.framing = "chunked" -> 0 [] response.framing = "fixed" -> Body
            [] OTHER -> Unlimited

Responds(status) ==
  /\ handler' = [at |-> "responded", responded |-> TRUE, alive |-> connection = "open"]
  /\ upload' = CancelReader
  /\ IF status = 204 THEN body' = [body EXCEPT !.at = "null"] /\ connection' = "closed"
     ELSE /\ body' = [body EXCEPT !.at = FirstStage, !.remaining = Length]
          /\ UNCHANGED connection

ParseHead ==
  /\ handler.at = "head" /\ HasLine
  /\ Consume(LineEnd)
  /\ CASE Line = <<Status(100)>> -> UNCHANGED <<handler, body, upload, connection>>
       [] Line \in {<<Status(200)>>, <<Status(204)>>} -> Responds(Line[1].n)
       [] OTHER -> Throws
  /\ UNCHANGED <<response, arrived>>

-----------------------------------------------------------------------------
(***************************************************************************)
(* The response's body, which closing() wraps.                             *)
(***************************************************************************)
Closes(at) ==
  /\ body' = [body EXCEPT !.at = at] /\ connection' = "closed"

Becomes(at, n) ==
  /\ body' = [body EXCEPT !.at = at, !.remaining = n] /\ UNCHANGED connection

(* chunked_body between the data: the end of a chunk, a size, the trailers. *)
ChunkLine ==
  /\ body.at \in {"boundary", "size", "trailers"} /\ HasLine
  /\ Consume(LineEnd)
  /\ CASE body.at = "boundary" -> IF Line = <<>> THEN Becomes("size", 0) ELSE Closes("errored")
       [] body.at = "size" /\ Len(Line) = 1 /\ Line[1].kind = "size" ->
            Becomes(IF Line[1].n = 0 THEN "trailers" ELSE "data", Line[1].n)
       [] body.at = "size" /\ ~(Len(Line) = 1 /\ Line[1].kind = "size") -> Closes("errored")
       [] body.at = "trailers" -> IF Line = <<>> THEN Closes("closed") ELSE Becomes("trailers", 0)
  /\ UNCHANGED <<response, arrived, handler, upload>>

Take == IF body.remaining < Len(buffer) THEN body.remaining ELSE Len(buffer)

(* take(remaining) has bytes, which go to the consumer.                    *)
Data ==
  LET left == IF body.remaining = Unlimited THEN Unlimited ELSE body.remaining - Take
      b == [body EXCEPT !.got = @ \o SubSeq(buffer, 1, Take), !.remaining = left]
  IN
  /\ WantsBytes /\ buffer # <<>>
  /\ Consume(Take)
  /\ \/ left > 0 /\ body' = b /\ UNCHANGED connection
     \/ left = 0 /\ response.framing = "chunked" /\ body' = [b EXCEPT !.at = "boundary"] /\ UNCHANGED connection
     \/ left = 0 /\ response.framing = "fixed" /\ body' = [b EXCEPT !.at = "closed"] /\ connection' = "closed"
  /\ UNCHANGED <<response, arrived, handler, upload>>

(* The connection has ended, or was closed here: only a body without a     *)
(* length may end so.                                                      *)
ReadEnds ==
  /\ Starved /\ (arrived = Len(response.units) \/ connection = "closed")
  /\ IF handler.at = "head" THEN Throws
     ELSE /\ Closes(IF response.framing = "eof" /\ response.end = "fin" /\ connection = "open"
                    THEN "closed" ELSE "errored")
          /\ UNCHANGED <<handler, upload>>
  /\ UNCHANGED <<response, arrived, buffer>>

Cancel ==
  /\ body.at \in {"boundary", "size", "trailers", "data"}
  /\ Closes("cancelled")
  /\ UNCHANGED <<response, arrived, buffer, handler, upload>>

Next ==
  \/ (\E n \in 1 .. Len(response.units) : Fill(n)) \/ ReadEnds
  \/ HeadWritten \/ SourceEnds \/ SourceFails \/ Written \/ WriteFails
  \/ \E n \in 1 .. Upload : SourceGives(n)
  \/ ParseHead \/ Caught \/ ChunkLine \/ Data \/ Cancel

Spec == Init /\ [][Next]_vars

-----------------------------------------------------------------------------
Sent == Cardinality({i \in 1 .. Len(response.units) : response.units[i].kind = "byte"})

(* The consumer gets the body's bytes in order, and its normal end only    *)
(* after all of them, however the wire was cut into pieces and wherever it *)
(* broke off.  A whole response is never broken off, also when the upload  *)
(* fails because the server did not wait for it: once its head is parsed.  *)
ResponseWhole ==
  /\ body.got = Bytes(0, Len(body.got))
  /\ body.at = "closed" => Len(body.got) = IF response.framing = "eof" THEN Sent ELSE Body
  /\ body.at = "errored" /\ handler.alive =>
       ~response.whole \/ (response.framing = "eof" /\ response.end = "reset")

(* Nothing is held for longer than the exchange: when the handler has      *)
(* rejected or the response's body is over, the connection is closed; a    *)
(* rejected handler has ended its upload; and once the server has answered *)
(* the request's body is not read any more, in whichever order the answer  *)
(* and the upload's first read come.                                       *)
FetchReleases ==
  /\ handler.at = "rejected" => connection = "closed" /\ SentOrFailed
  /\ body.at \in {"closed", "errored", "cancelled", "null"} => connection = "closed"
  /\ handler.responded /\ upload.at = "read" => upload.cancelled
=============================================================================
