------------------------------ MODULE OdasGet ------------------------------
(***************************************************************************)
(* What odas.get makes of one complete reply of ODAS.  A reply is a status *)
(* class, what the payload of its envelope is to the decoder, and whether  *)
(* the envelope carries a traceId.                                         *)
(***************************************************************************)

\* "2xx" also stands for the statuses get does not look at (1xx, 6xx and up).
Statuses == {"2xx", "3xx", "401", "4xx", "5xx"}

\* "valid": an object the schema accepts.  "invalid": an object it refuses (a
\* required field missing, an unknown enum value, a null that may not be).
\* "absent": no JSON, no object, no payload in it, or a payload that is not an
\* object; the decoder then gets {}.
Payloads == {"valid", "invalid", "absent"}

Replies == [status: Statuses, payload: Payloads, traced: BOOLEAN]

\* The two reads of Node.  The record has required fields; every field of the
\* ancestors' payload is optional, so {} decodes to an empty path.
Reads == {"record", "ancestors"}
NoRequiredFields(r) == FALSE
HasRequiredFields(r) == r = "record"

\* The result of decoding the payload, when the status is no failure.
Decoded(payload, required) ==
  CASE payload = "valid"   -> "ok"
    [] payload = "invalid" -> "malformed"
    [] payload = "absent"  -> IF required THEN "malformed" ELSE "empty"

Outcome(reply, required) ==
  CASE reply.status \in {"401", "4xx"} -> "rejected"
    [] reply.status = "5xx"            -> "unavailable"
    [] OTHER                           -> Decoded(reply.payload, required)

\* A rejected request is logged only when ODAS gave a traceId; every other
\* failure of the reply is.
LogsNothing(reply, required) == FALSE
LogsReply(reply, required) ==
  CASE Outcome(reply, required) = "rejected"       -> reply.traced
    [] Outcome(reply, required) \in {"ok", "empty"} -> FALSE
    [] OTHER                                        -> TRUE

Succeeds(outcome) == outcome \in {"ok", "empty"}

=============================================================================
