----------------------------- MODULE HostFetch -----------------------------
(***************************************************************************)
(* A guest's HTTP request that a fetch of the host answers: exchange() of  *)
(* packages/linux-guest/src/host-fetch-network.ts.                         *)
(*                                                                         *)
(* The answer may come while the request's body is still being read, and   *)
(* the request, the fetch, the response's body, a write or the session may *)
(* fail at any await.  Whatever it is, the guest must not find two answers *)
(* on one connection, nor one inside another.                              *)
(*                                                                         *)
(* External: the guest, the fetch with its response, and the session.      *)
(***************************************************************************)
EXTENDS Naturals, Sequences

CONSTANT Pieces   (* pieces of the response's body                          *)

VARIABLES
  at,                    (* where exchange() is                             *)
  pending,               (* what it is writing                              *)
  final_output_started,
  out,                   (* what was written to the guest                   *)
  request,               (* the request's body: none, open, ended or broken *)
  fetch,                 (* the fetch: none, running, answered or failed    *)
  response,              (* pieces its body has left, and its reader        *)
  aborted                (* the session was aborted                         *)

vars == <<at, pending, final_output_started, out, request, fetch, response, aborted>>

Errors == {"400", "417", "501", "502"}

Init ==
  /\ at = "head" /\ pending = "none" /\ final_output_started = FALSE /\ out = <<>>
  /\ request = "none" /\ fetch = "none" /\ aborted \in BOOLEAN
  /\ response = [left |-> Pieces, reader |-> FALSE]

-----------------------------------------------------------------------------
Writes(what, next) == pending' = what /\ at' = next

error_response(code) == final_output_started' = TRUE /\ Writes(code, "error")

(* The outer catch; its finally is End.                                    *)
CatchAnswers == error_response("400")   \* fault: whatever was written already

Catch ==
  IF final_output_started
  THEN at' = "finally" /\ pending' = "none" /\ UNCHANGED final_output_started
  ELSE error_response("400")

(* The request is parsed, and its body is there to be read.                *)
Fetches == at' = "fetch" /\ pending' = "none" /\ fetch' = "running"

NoHead ==
  /\ at = "head" /\ at' = "finally"
  /\ UNCHANGED <<pending, final_output_started, out, request, fetch, response, aborted>>

(* A head, lines, hosts, a framing or a URL that is wrong.                 *)
BadRequest ==
  /\ at \in {"head", "continued"} /\ Catch
  /\ UNCHANGED <<out, request, fetch, response, aborted>>

Unsupported(code) ==
  /\ at = "head" /\ error_response(code)
  /\ UNCHANGED <<out, request, fetch, response, aborted>>

Continues ==
  /\ at = "head" /\ Writes("100", "continue")
  /\ UNCHANGED <<final_output_started, out, request, fetch, response, aborted>>

Requests(body) ==
  /\ at \in {"head", "continued"} /\ Fetches /\ request' = body
  /\ UNCHANGED <<final_output_started, out, response, aborted>>

(* The fetch reads the body, at any time until the exchange ends.          *)
BodyRead(end) ==
  /\ request = "open" /\ at # "over" /\ request' = end
  /\ UNCHANGED <<at, pending, final_output_started, out, fetch, response, aborted>>

(* The session is aborted, and with it the fetch.                          *)
SessionAborts ==
  /\ ~aborted /\ at # "over" /\ aborted' = TRUE
  /\ UNCHANGED <<at, pending, final_output_started, out, request, fetch, response>>

FetchFails ==
  /\ at = "fetch" /\ fetch' = "failed"
  /\ IF aborted THEN Catch ELSE error_response("502")
  /\ UNCHANGED <<out, request, response, aborted>>

BadStatus ==
  /\ at = "fetch" /\ fetch' = "answered" /\ error_response("502")
  /\ UNCHANGED <<out, request, response, aborted>>

Answers ==
  /\ at = "fetch" /\ fetch' = "answered"
  /\ final_output_started' = TRUE /\ Writes("200", "answer")
  /\ UNCHANGED <<out, request, response, aborted>>

-----------------------------------------------------------------------------
(* What is being written has been taken, and what follows it is known: a   *)
(* response has a body, or it has none.                                    *)
After(body) ==
  CASE at = "continue" -> "continued"
    [] at \in {"answer", "piece"} -> IF body THEN "stream" ELSE "close"
    [] at = "error" -> "close"
    [] at = "close" -> "finally"

Written(body) ==
  /\ at \in {"continue", "answer", "piece", "error", "close"}
  /\ (at = "piece" => body) /\ (at \notin {"answer", "piece"} => ~body)
  /\ at' = After(body) /\ pending' = IF After(body) = "close" THEN "end" ELSE "none"
  /\ out' = Append(out, pending)
  /\ response' = [response EXCEPT !.reader = @ \/ (at = "answer" /\ body)]
  /\ UNCHANGED <<final_output_started, request, fetch, aborted>>

WriteFails ==
  /\ at \in {"continue", "answer", "piece", "error", "close"} /\ Catch
  /\ UNCHANGED <<out, request, fetch, response, aborted>>

(* The reader of the response's body has a piece, ends, or fails.          *)
StreamGives ==
  /\ at = "stream" /\ response.left > 0
  /\ Writes("piece", "piece") /\ response' = [response EXCEPT !.left = @ - 1]
  /\ UNCHANGED <<final_output_started, out, request, fetch, aborted>>

StreamEnds ==
  /\ at = "stream" /\ response.left = 0 /\ Writes("end", "close")
  /\ UNCHANGED <<final_output_started, out, request, fetch, response, aborted>>

StreamFails ==
  /\ at = "stream" /\ Catch
  /\ UNCHANGED <<out, request, fetch, response, aborted>>

(* The finally block: the fetch is aborted, both readers are cancelled.    *)
End ==
  /\ at = "finally" /\ at' = "over"
  /\ fetch' = IF fetch = "running" THEN "failed" ELSE fetch
  /\ request' = IF request = "open" THEN "broken" ELSE request
  /\ response' = [response EXCEPT !.reader = FALSE]
  /\ UNCHANGED <<pending, final_output_started, out, aborted>>

Next ==
  \/ NoHead \/ BadRequest \/ Continues \/ SessionAborts
  \/ \E code \in {"417", "501"} : Unsupported(code)
  \/ \E body \in {"none", "open"} : Requests(body)
  \/ \E end \in {"ended", "broken"} : BodyRead(end)
  \/ FetchFails \/ BadStatus \/ Answers \/ StreamGives \/ StreamEnds \/ StreamFails
  \/ \E body \in BOOLEAN : Written(body)
  \/ WriteFails \/ End

Spec == Init /\ [][Next]_vars

-----------------------------------------------------------------------------
Places(what) == {i \in 1 .. Len(out) : out[i] \in what}
Said(what) == Places(what) # {}

(* The guest gets one answer at most, with nothing but a 100 Continue      *)
(* before it: an error response never follows a response that has begun,   *)
(* and a connection that ends in order holds one whole answer.             *)
OneAnswer ==
  /\ \A i, j \in Places(Errors \cup {"200"}) : i = j
  /\ \A i \in Places({"100"}) : i = 1
  /\ \A i \in Places(Errors) : Places({"piece"}) = {}
  /\ Said({"end"}) => Said(Errors \cup {"200"}) /\ (Said({"piece"}) => response.left = 0)
=============================================================================
