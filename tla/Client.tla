------------------------------- MODULE Client -------------------------------
(***************************************************************************)
(* The load generator's protocol clients (client.go, h2client.go,          *)
(* grpcclient.go): what a request comes to.  A reply is an HTTP response,  *)
(* the end of a gRPC health check, or a broken transport, of which only    *)
(* the traits that classify looks for are kept.                            *)
(***************************************************************************)
EXTENDS Integers, FiniteSetsExt

ErrorCategories == {"Timeout", "Dial", "ConnReset", "TLS", "Server5xx",
                    "Client4xx", "StreamReset", "Other"}

ErrorTraits == {"deadline", "GOAWAY", "stream error", "connection reset",
                "tls", "dial"}

\* codes.Code of a gRPC status; the default of the switch is for unknown ones.
grpcStatusToHTTP ==
    [OK |-> 200, InvalidArgument |-> 400, OutOfRange |-> 400,
     Unauthenticated |-> 401, PermissionDenied |-> 403, NotFound |-> 404,
     AlreadyExists |-> 409, Aborted |-> 409, FailedPrecondition |-> 412,
     ResourceExhausted |-> 429, Canceled |-> 499, Internal |-> 500,
     DataLoss |-> 500, Unknown |-> 500, Unimplemented |-> 501,
     Unavailable |-> 503, DeadlineExceeded |-> 504, Unheard |-> 500]

HTTP(code) == [kind |-> "http", code |-> code]
Check(status, serving) == [kind |-> "check", status |-> status, serving |-> serving]
Broken(traits) == [kind |-> "broken", traits |-> traits]

Replies ==
    {HTTP(code) : code \in 100..599}
    \cup {Check(s, b) : s \in DOMAIN grpcStatusToHTTP, b \in BOOLEAN}
    \cup {Broken(t) : t \in SUBSET ErrorTraits}

\* Mutant: the health of the service is not looked at.
DoUnlooked(reply) ==
    IF reply.kind = "http" THEN reply.code ELSE grpcStatusToHTTP[reply.status]

\* The status that Do returns for a reply that is not a broken transport.
Do(reply) ==
    IF reply.kind = "http" THEN reply.code
    ELSE IF reply.status # "OK" THEN grpcStatusToHTTP[reply.status]
    ELSE IF reply.serving THEN 200 ELSE 503

\* The first of these that the error shows decides.
precedence ==
    <<[trait |-> "deadline",         category |-> "Timeout"],
      [trait |-> "GOAWAY",           category |-> "Server5xx"],
      [trait |-> "stream error",     category |-> "StreamReset"],
      [trait |-> "connection reset", category |-> "ConnReset"],
      [trait |-> "tls",              category |-> "TLS"],
      [trait |-> "dial",             category |-> "Dial"]>>

classify(traits) ==
    LET shown == {i \in DOMAIN precedence : precedence[i].trait \in traits}
    IN  IF shown = {} THEN "Other" ELSE precedence[Min(shown)].category

\* The category under which a failed request is counted.
Category(reply) ==
    IF reply.kind = "broken" THEN classify(reply.traits)
    ELSE IF Do(reply) >= 500 THEN "Server5xx" ELSE "Client4xx"

\* What the user of the target would call an answer.
Served(reply) ==
    \/ reply.kind = "http" /\ reply.code < 400
    \/ reply.kind = "check" /\ reply.status = "OK" /\ reply.serving
=============================================================================
