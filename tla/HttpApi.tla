------------------------------ MODULE HttpApi ------------------------------
(***************************************************************************)
(* What travels between pkg/http's Client and its Server: requests, the    *)
(* way from a request to a handler, the answers, and what a client makes   *)
(* of them.  The services behind the handlers are modelled elsewhere; here *)
(* a service ends with one of the outcomes the handlers tell apart.        *)
(***************************************************************************)
EXTENDS Naturals

\* Paths as the router's templates; "item" is a path with an {id}.
Resource == {"healthz", "users", "user", "characters", "character", "nowhere"}

Method == {"GET", "POST", "PUT", "PATCH", "DELETE", "HEAD"}

Extension == {"", ".json", ".csv"}

\* A form is the body of an HTML form; its _method is named in the request.
Body == {"none", "json", "malformed", "form"}

NoMethod == "unset"

\* A caller "reads" an answer as the Client's methods do, or is a "raw" HTTP
\* client, as curl and a browser are, which looks at the status alone.
Request == [method : Method, resource : Resource, extension : Extension,
            body : Body, override : Method \cup {NoMethod}, reader : {"client", "raw"}]

\* A request of the Client: JSON, no tricks.
ClientCall(method, resource) ==
    [method |-> method, resource |-> resource, extension |-> "",
     body |-> IF method = "GET" THEN "none" ELSE "json",
     override |-> NoMethod, reader |-> "client"]

HealthProbe == ClientCall("GET", "healthz")

Registered ==
    [resource \in Resource |->
        CASE resource = "healthz" -> {"GET"}
          [] resource = "users" -> {"POST", "GET"}
          [] resource = "user" -> {"PATCH", "GET"}
          [] resource = "characters" -> {"POST"}
          [] resource = "character" -> {"PUT", "PATCH", "GET"}
          [] OTHER -> {}]

Overriding == {"GET", "POST", "PUT", "PATCH", "DELETE"}

\* serveHTTP: the method a form asks for.
EffectiveMethod(r) ==
    IF r.method = "POST" /\ r.body = "form" /\ r.override \in Overriding
    THEN r.override ELSE r.method

\* What is left of the body for the handler: looking for _method reads a form.
RemainingBody(r) == IF r.method = "POST" /\ r.body = "form" THEN "none" ELSE r.body

\* A stripped ".json" does not count; any other extension belongs to the path,
\* and so to the id of an item.
EffectiveResource(r) ==
    IF r.extension \in {"", ".json"} \/ r.resource \in {"user", "character"}
    THEN r.resource ELSE "nowhere"

Routed(r) ==
    LET resource == EffectiveResource(r)
    IN  IF Registered[resource] = {} THEN "not_found"
        ELSE IF EffectiveMethod(r) \notin Registered[resource] THEN "not_allowed"
        ELSE "handler"

\* The handlers that decode a body, which are those that write.
Writes(r) == EffectiveMethod(r) \in {"POST", "PUT", "PATCH"}

-----------------------------------------------------------------------------
(* Answers.                                                                *)

\* How a service call ends: the sentinels of pkg/domain/common, or another error.
Outcome == {"ok", "not_found", "conflict", "invalid", "exists", "failed"}

\* ErrExists wraps ErrInvalid, so a rule for the latter matches both.
Matches(outcome, sentinel) ==
    \/ outcome = sentinel
    \/ outcome = "exists" /\ sentinel = "invalid"

\* What the handlers of a resource answer ErrInvalid with.
InvalidStatus(resource) == IF resource \in {"characters", "character"} THEN 400 ELSE 422

ErrorStatus(resource, outcome) ==
    CASE Matches(outcome, "not_found") -> 404
      [] Matches(outcome, "conflict") -> 409
      [] Matches(outcome, "invalid") -> InvalidStatus(resource)
      [] OTHER -> 500

\* Answers are kept to the status and the kind of document in the body.
Answer(status, content) == [status |-> status, content |-> content]

\* The health handler's answer.
HealthAnswer == Answer(200, "healthz")

\* What another program may answer: a page, an error page, a JSON object of its
\* own, and the very words of the health handler, which are no secret.
ForeignAnswers ==
    [status : {200, 404}, content : {"page", "document"}] \cup {HealthAnswer}

Problem(status) == Answer(status, "problem")

NoAnswer == Answer(0, "nothing")

AnyAnswer == [status : {0, 200, 201, 400, 404, 405, 409, 422, 500},
              content : Resource \cup {"problem", "nothing", "page", "document"}]

SuccessStatus(r) == IF EffectiveMethod(r) = "POST" THEN 201 ELSE 200

\* A handler's answer to a request whose service call ended with outcome.
ServiceAnswer(r, outcome) ==
    IF outcome = "ok" THEN Answer(SuccessStatus(r), r.resource)
    ELSE Problem(ErrorStatus(r.resource, outcome))

\* The answers that need no service: the router's own, a body that does not
\* decode, and the health check.
ImmediateAnswer(r) ==
    CASE Routed(r) = "not_found" -> Problem(404)
      [] Routed(r) = "not_allowed" -> Answer(405, "nothing")
      [] Writes(r) -> Problem(400)
      [] OTHER -> HealthAnswer

\* Whether a request gets as far as its service.
CallsService(r, body) ==
    /\ Routed(r) = "handler"
    /\ r.resource # "healthz"
    /\ Writes(r) => body = "json"

\* Services a request can meet end so.  A list and a health check cannot fail;
\* a lookup knows no conflict; only a collection of users has taken names.
OutcomesOf(r) ==
    CASE r.resource = "users" /\ ~Writes(r) -> {"ok"}
      [] r.resource = "users" -> {"ok", "invalid", "exists"}
      [] r.resource = "characters" -> {"ok", "invalid"}
      [] ~Writes(r) /\ r.extension = ".csv" -> {"invalid"}
      [] ~Writes(r) -> {"ok", "invalid", "not_found"}
      [] r.extension = ".csv" -> {"not_found"}
      [] r.resource = "user" -> {"ok", "not_found", "conflict", "invalid", "exists"}
      [] OTHER -> {"ok", "not_found", "conflict", "invalid"}

-----------------------------------------------------------------------------
(* The client's reading of an answer: "done" with the resource, "refused"  *)
(* with the server's problem, or "unknown", an error that does not tell.   *)

\* Faulty variant: an answer that decodes is taken for a success.
AcceptedStatusAny(r) == {200, 201, 400, 404, 409, 422, 500}

\* The one status a method of the Client takes for success.
AcceptedStatus(r) == {SuccessStatus(r)}

\* Faulty variant: any 200 will do.
HealthyStatusOnly(answer) == answer.status = 200

\* Client.Health: the status, and a body that says "ok".
Healthy(answer) == answer.status = 200 /\ answer.content = "healthz"

\* A refusal's body is decoded into a problem, which takes any JSON object; but
\* not by Users, whose target is nil.
DecodesProblem(r, answer) ==
    answer.content \notin {"nothing", "page"} /\ ~(r.resource = "users" /\ r.method = "GET")

ClientReads(r, answer) ==
    IF r.resource = "healthz" THEN IF Healthy(answer) THEN "done" ELSE "unknown"
    ELSE IF answer.status \in AcceptedStatus(r)
         THEN IF answer.content \in {"nothing", "page"} THEN "unknown" ELSE "done"
    ELSE IF DecodesProblem(r, answer) THEN "refused" ELSE "unknown"

Reads(r, answer) ==
    IF r.reader = "client" THEN ClientReads(r, answer)
    ELSE IF answer.status \in 200 .. 299 THEN "done" ELSE "refused"
=============================================================================
