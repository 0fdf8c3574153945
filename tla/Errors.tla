------------------------------- MODULE Errors -------------------------------
(* The status each kind of error is answered with on both sockets          *)
(* (src/error.rs): BadRequest, NotFound, Conflict, Io, Json, Http, Remote  *)
(* and Fanotify.                                                           *)
EXTENDS Naturals

(* The statuses an answer may have: those render_response has words for.   *)
Statuses == {200, 204, 400, 404, 409, 500}

(* Faulty variant: what goes wrong upstream has a status of its own.       *)
GatewayCode(kind) ==
    CASE kind = "BadRequest" -> 400
      [] kind = "NotFound" -> 404
      [] kind = "Conflict" -> 409
      [] kind \in {"Http", "Remote"} -> 502
      [] OTHER -> 500

StatusCode(kind) ==
    CASE kind = "BadRequest" -> 400
      [] kind = "NotFound" -> 404
      [] kind = "Conflict" -> 409
      [] OTHER -> 500
=============================================================================
