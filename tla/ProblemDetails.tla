--------------------------- MODULE ProblemDetails ---------------------------
(***************************************************************************)
(* The HTTP status a caller sees for each outcome of a request: the maps   *)
(* of service/src/problem-details.ts, the one place where a domain code    *)
(* becomes a status.  "bad-request" stands for what a schema or a route    *)
(* refuses, "signing-error" for every code of vc-signer's SigningError,    *)
(* and "unknown" for an error no map names, such as one of the database.   *)
(***************************************************************************)
EXTENDS Naturals

(* Codes the caller can do something about.                                *)
BadRequest ==
  {"bad-request", "list-too-short", "unsupported-characteristics",
   "list-purpose-mismatch", "index-out-of-range"}

NotFound == {"list-not-found", "credential-not-allocated"}

Conflict ==
  {"list-exhausted", "duplicate-list", "index-taken",
   "credential-already-allocated"}

(* Codes that are the service's own trouble.                               *)
ServerError ==
  {"issuer-instance-unavailable", "signing-misconfigured", "signing-error",
   "unknown"}

(* A signer that does not answer, or the health check's database.          *)
Unavailable == {"signing-unavailable", "storage-unreachable"}

Success == {"changed", "unchanged", "allocated"}

Codes ==
  BadRequest \cup NotFound \cup Conflict \cup ServerError \cup Success
    \cup Unavailable \cup {"created", "signing-rejected"}

HttpStatus(code) ==
  CASE code \in Success             -> 200
    [] code = "created"             -> 201
    [] code \in BadRequest          -> 400
    [] code \in NotFound            -> 404
    [] code \in Conflict            -> 409
    [] code = "signing-rejected"    -> 502
    [] code \in Unavailable         -> 503
    [] OTHER                        -> 500

Statuses == {HttpStatus(code) : code \in Codes}
=============================================================================
