----------------------------- MODULE VertexErrors -----------------------------
(***************************************************************************)
(* The errors of the Vertex client: vertex/client.rs (ApiError,            *)
(* extract_error_details) and what gateway/common makes of them.           *)
(***************************************************************************)
EXTENDS Integers

\* ApiError::Http, or with status 0 an error without a status (transport,
\* JSON, a stream that breaks off).
ApiError(status, disable_token, capacity) ==
    [status |-> status, disable_token |-> disable_token, capacity |-> capacity]
NoStatus == ApiError(0, FALSE, FALSE)

NamedStatus == [RESOURCE_EXHAUSTED |-> 429, INTERNAL |-> 500, UNAUTHENTICATED |-> 401]

\* The code in the body, a name or a number, overrides the HTTP status.  A
\* body that is no JSON names nothing: name "", number 0.
extract_error_details(http, body) ==
    LET status == IF body.name \in DOMAIN NamedStatus THEN NamedStatus[body.name]
                  ELSE IF body.number \in 1..65535 THEN body.number
                  ELSE http
        capacity == /\ status = 503 /\ body.status = "UNAVAILABLE" /\ body.no_capacity
                    /\ body.reason = "MODEL_CAPACITY_EXHAUSTED"
    IN  ApiError(status, body.name = "UNAUTHENTICATED", capacity)

is_auth_failure(e) == e.status = 401
should_retry_with_next_token(e) == e.capacity \/ e.status \in {429, 401, 403}
=============================================================================
