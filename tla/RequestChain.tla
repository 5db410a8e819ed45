---------------------------- MODULE RequestChain ----------------------------
(***************************************************************************)
(* One HTTP request on its way through the server: recovery, access log    *)
(* and request timeout around the OpenAPI validation (internal/apiserver), *)
(* the routes and the generated wrapper that binds parameters, the strict  *)
(* handler that decodes the body, calls the operation and visits its       *)
(* response (internal/api/server), and the error handlers.                 *)
(*                                                                         *)
(* Requests share nothing, so one is enough.  What surrounds it is         *)
(* external: the client, which may be slow or go away; the clock; the      *)
(* store, which may fail or hang; net/http, which keeps the first status   *)
(* line, buffers what is written and flushes it when the chain returns.    *)
(***************************************************************************)
EXTENDS Naturals

CONSTANTS
    RequestTimeouts,    \* values of config SP_SERVER_REQUEST_TIMEOUT
    ReadTimeouts,       \* values of config SP_SERVER_READ_TIMEOUT
    WriteTimeouts,      \* values of config SP_SERVER_WRITE_TIMEOUT
    MaxTime             \* bound: the clock of a request stops here

\* Zero disables a timeout.  The bound on the clock lets every timeout come.
ASSUME TimeoutsAssumption ==
    /\ MaxTime \in Nat
    /\ \A t \in RequestTimeouts \cup ReadTimeouts \cup WriteTimeouts :
         t \in Nat /\ t <= MaxTime

VARIABLES
    cfg,            \* what New found: the timeouts, and how much of the OpenAPI
                    \* document it could load
    route,          \* what the request's method and path match
    stage,          \* where the request's goroutine is
    answer,         \* the status of the response object to visit
    recorded,       \* statusCode of the access log's recorder
    wroteHeader,    \* wroteHeader of recovery's recorder
    head,           \* the status line given to net/http, 0 before
    body,           \* what was written after it
    logged,         \* the status in the access log, 0 if there is no line
    panicked,       \* whether and when the chain panicked
    told,           \* what the client has received when the request is over
    conn,           \* the client's connection
    sentBody,       \* the client has sent all of its body
    ctxDone,        \* the request's context is cancelled
    now             \* the time since net/http has read the header

response == <<recorded, wroteHeader, head, body>>
world == <<conn, sentBody, ctxDone, now>>
vars == <<cfg, route, stage, answer, response, logged, panicked, told, world>>

-----------------------------------------------------------------------------
(* The operations, the responses that each may be visited with, and how    *)
(* the handlers turn an error of the store into one of them.               *)

Operations == {"list", "create", "health", "delete", "get"}
Routes == Operations \cup {"emptyId", "noRoute", "noMethod"}

ListContainersResponses == {200, 400, 401, 403, 500}
CreateContainerResponses == {201, 400, 401, 403, 409, 500}
GetHealthResponses == {200}
DeleteContainerResponses == {204, 401, 403, 404, 500}
GetContainerResponses == {200, 401, 403, 404, 500}

Responses ==
    [list |-> ListContainersResponses, create |-> CreateContainerResponses,
     health |-> GetHealthResponses, delete |-> DeleteContainerResponses,
     get |-> GetContainerResponses]

StoreErrors == {"notFound", "conflict", "invalid", "other"}

mapCreateError(e) ==
    IF e = "conflict" THEN 409 ELSE IF e = "invalid" THEN 400 ELSE 500
\* Mutant of mapGetError: a conflict is answered as it is for a Create.
mapGetConflict(e) ==
    IF e = "notFound" THEN 404 ELSE IF e = "conflict" THEN 409 ELSE 500

mapGetError(e) == IF e = "notFound" THEN 404 ELSE 500
mapDeleteError(e) == IF e = "notFound" THEN 404 ELSE 500
mapListError(e) == IF e = "invalid" THEN 400 ELSE 500

\* The handlers' answers: to a call of the store that succeeds, to one that
\* fails with e (an unhealthy cluster is a healthy answer), and to a Create whose
\* spec or id the handler refuses.
Succeeded(op) ==
    CASE op = "create" -> 201 [] op = "delete" -> 204 [] OTHER -> 200
Failed(op, e) ==
    CASE op = "create" -> mapCreateError(e)
      [] op = "get" -> mapGetError(e)
      [] op = "delete" -> mapDeleteError(e)
      [] op = "list" -> mapListError(e)
      [] op = "health" -> 200
Refused == 400

-----------------------------------------------------------------------------
(* What is written.  A body is the JSON of a success, an RFC 9457 problem  *)
(* with a detail of its own ("detail") or with a constant one ("fixed"),   *)
(* or plain text; "two" is one body after another.                         *)

Bodies == {"none", "json", "detail", "fixed", "plain", "two"}
Problems == {"detail", "fixed"}
Statuses == {200, 201, 204, 400, 401, 403, 404, 405, 409, 500}

\* Only a constraint or the name of a parameter becomes the detail.
scrubValidationError(e) ==
    IF e \in {"schema", "reason", "param"} THEN "detail" ELSE "fixed"

\* net/http keeps the first status line and sends every body that is written.
Raw(code, b) ==
    /\ head' = IF head = 0 THEN code ELSE head
    /\ body' = IF body = "none" THEN b ELSE IF b = "none" THEN body ELSE "two"

\* The same through the recorders of the access log and of recovery.
Write(code, b) ==
    /\ recorded' = code
    /\ wroteHeader' = TRUE
    /\ Raw(code, b)

\* The chain has its response (or an error handler has written one) and returns.
Reply(code, b) ==
    /\ Write(code, b)
    /\ stage' = "return"

badReq(e) == Reply(400, scrubValidationError(e))
ResponseErrorHandler == Reply(500, "fixed")

Broken == conn = "gone" \/ (cfg.write > 0 /\ now >= cfg.write)

-----------------------------------------------------------------------------
Nothing == [status |-> 0, body |-> "none"]
Told == [status: Statuses \cup {0}, body: Bodies \cup {"cut"}]

Inside == {"validate", "route", "bind", "decode", "store", "detached", "visit",
           "body", "return"}

TypeOK ==
    /\ cfg \in [spec: {"ok", "noRouter", "none"}, request: RequestTimeouts,
                read: ReadTimeouts, write: WriteTimeouts]
    /\ route \in Routes
    /\ stage \in Inside \cup {"flush", "done"}
    /\ answer \in Statuses \cup {0}
    /\ stage \in {"visit", "body"} => route \in Operations /\ answer \in Responses[route]
    /\ recorded \in Statuses
    /\ wroteHeader \in BOOLEAN
    /\ head \in Statuses \cup {0}
    /\ body \in Bodies
    /\ logged \in Statuses \cup {0}
    /\ panicked \in {"no", "early", "late", "abort"}
    /\ told \in Told
    /\ conn \in {"open", "gone"}
    /\ sentBody \in BOOLEAN
    /\ ctxDone \in BOOLEAN
    /\ now \in 0..MaxTime

\* New: without the document neither the validation nor the guard against empty
\* ids is installed; without a router from it only the validation is missing.
Init ==
    /\ cfg \in [spec: {"ok", "noRouter", "none"}, request: RequestTimeouts,
                read: ReadTimeouts, write: WriteTimeouts]
    /\ route \in Routes
    /\ stage = "validate"
    /\ answer = 0
    /\ recorded = 200
    /\ wroteHeader = FALSE
    /\ head = 0
    /\ body = "none"
    /\ logged = 0
    /\ panicked = "no"
    /\ told = Nothing
    /\ conn = "open"
    /\ sentBody \in BOOLEAN
    /\ ctxDone = FALSE
    /\ now = 0

-----------------------------------------------------------------------------
(* Before the handler.                                                     *)

\* Reading the body does not look at the context: it ends when all of it has
\* come, and fails when the connection does or the read timeout has passed.
BodyRead == route # "create" \/ sentBody
BodyFails ==
    /\ route = "create"
    /\ conn = "gone" \/ (cfg.read > 0 /\ now >= cfg.read)

Quiet == UNCHANGED <<cfg, route, logged, panicked, told, world>>

Pass(s) == stage' = s /\ UNCHANGED response

\* openAPIValidationMiddleware; a request that the document does not know is
\* passed on, as every request is when there is no router of the document.  The
\* document's router may take the path with an empty id for the collection.
Validate ==
    /\ stage = "validate"
    /\ \/ /\ cfg.spec # "ok" \/ route \notin Operations \/ BodyRead
          /\ Pass("route")
       \/ /\ cfg.spec = "ok" /\ route \in Operations \cup {"emptyId"}
          /\ BodyRead \/ BodyFails
          /\ \E e \in {"schema", "reason", "bare", "unknown"} : badReq(e)
    /\ UNCHANGED answer /\ Quiet

\* chi's own answers to what no route matches are plain text.
Route ==
    /\ stage = "route"
    /\ CASE route = "emptyId" /\ cfg.spec # "none" -> Reply(400, "detail")
         [] route = "noMethod" -> Reply(405, "plain")
         [] route \in Operations -> Pass("bind")
         [] OTHER -> Reply(404, "plain")
    /\ UNCHANGED answer /\ Quiet

\* ServerInterfaceWrapper: every operation but the health check has parameters.
Bind ==
    /\ stage = "bind"
    /\ \/ route # "health" /\ badReq("param")
       \/ Pass("decode")
    /\ UNCHANGED answer /\ Quiet

-----------------------------------------------------------------------------
(* The strict handler.                                                     *)

\* The body of a Create is decoded; a validator has read it before.  Then the
\* handler is called, which may refuse a Create without a call of the store.
Decode ==
    /\ stage = "decode"
    /\ \/ BodyRead /\ Pass("store") /\ UNCHANGED answer
       \/ /\ route = "create" /\ (BodyRead \/ BodyFails)
          /\ badReq("unknown") /\ UNCHANGED answer
       \/ /\ route = "create" /\ BodyRead
          /\ Pass("visit") /\ answer' = Refused
    /\ Quiet

\* The handler's calls of the store are over.  A Create that has rolled back has
\* failed.
StoreReturns ==
    /\ stage \in {"store", "detached"}
    /\ Pass("visit")
    /\ \/ /\ ~(stage = "detached" /\ route = "create")
          /\ answer' = Succeeded(route)
       \/ \E e \in StoreErrors : answer' = Failed(route, e)
    /\ Quiet

\* Mutant of StoreCancelled: the calls do not look at the context.
StoreNotCancelled == FALSE /\ UNCHANGED vars

\* A cancelled context ends the call with an error.  CheckHealth has no context,
\* and its client has no timeout.
StoreCancelled ==
    /\ stage = "store" /\ ctxDone /\ route # "health"
    /\ Pass("visit")
    /\ answer' = Failed(route, "other")
    /\ Quiet

\* Create's rollback and Delete's last call run under context.WithoutCancel, with
\* a limit of their own.
Detach ==
    /\ stage = "store" /\ route \in {"create", "delete"}
    /\ Pass("detached")
    /\ UNCHANGED answer /\ Quiet

\* Visit...Response: the JSON is encoded before anything is written, and an
\* error of the encoder is answered.
Visit ==
    /\ stage = "visit"
    /\ \/ /\ answer \in Responses[route]
          /\ Write(answer, "none")
          /\ stage' = IF answer = 204 THEN "return" ELSE "body"
       \/ answer # 204 /\ ResponseErrorHandler
    /\ UNCHANGED answer /\ Quiet

\* What the operations' own error responses carry as their detail.
Payload(code) ==
    CASE code \in {200, 201} -> "json" [] code = 500 -> "fixed" [] OTHER -> "detail"

\* The body follows.  When it cannot be written, the error handler writes a
\* status line that net/http drops and the recorders keep.
Body ==
    /\ stage = "body"
    /\ \/ Raw(answer, Payload(answer)) /\ stage' = "return"
          /\ UNCHANGED <<recorded, wroteHeader>>
       \/ Broken /\ ResponseErrorHandler
    /\ UNCHANGED answer /\ Quiet

-----------------------------------------------------------------------------
(* The way out.                                                            *)

\* Mutant of Return: the recorder does not see the status.
ReturnUnrecorded ==
    /\ stage = "return"
    /\ stage' = "flush"
    /\ logged' = 200
    /\ UNCHANGED <<cfg, route, answer, response, panicked, told, world>>

\* requestLoggingMiddleware, when the handler has returned.
Return ==
    /\ stage = "return"
    /\ stage' = "flush"
    /\ logged' = recorded
    /\ UNCHANGED <<cfg, route, answer, response, panicked, told, world>>

\* Mutants of Panic: whatever was sent, a problem is written; every panic is
\* passed on to net/http.
PanicWritesTwice ==
    /\ stage \in Inside
    /\ stage' = "flush"
    /\ panicked' = "early" /\ Raw(500, "fixed")
    /\ UNCHANGED <<cfg, route, answer, recorded, wroteHeader, logged, told, world>>

PanicAborts ==
    /\ stage \in Inside
    /\ stage' = "flush"
    /\ panicked' \in {"early", "abort"}
    /\ UNCHANGED <<cfg, route, answer, response, logged, told, world>>

\* A panic in the chain unwinds the access log, which has no deferred call, up to
\* recovery.  http.ErrAbortHandler is passed on to net/http; otherwise a problem
\* is written, unless a status line was sent before.
Panic ==
    /\ stage \in Inside
    /\ stage' = "flush"
    /\ \/ panicked' = "abort" /\ UNCHANGED <<head, body>>
       \/ wroteHeader /\ panicked' = "late" /\ UNCHANGED <<head, body>>
       \/ ~wroteHeader /\ panicked' = "early" /\ Raw(500, "fixed")
    /\ UNCHANGED <<cfg, route, answer, recorded, wroteHeader, logged, told, world>>

\* net/http flushes what was written.  A broken or aborted connection takes
\* nothing, or what had been flushed when the buffer was full.
Flush ==
    /\ stage = "flush"
    /\ stage' = "done"
    /\ told' \in IF panicked = "abort" \/ Broken
                 THEN {Nothing} \cup {[status |-> c, body |-> "cut"] : c \in {head} \ {0}}
                 ELSE {[status |-> head, body |-> body]}
    /\ UNCHANGED <<cfg, route, answer, response, logged, panicked, world>>

-----------------------------------------------------------------------------
(* The world of the request.                                               *)

Still == UNCHANGED <<cfg, route, stage, answer, response, logged, panicked, told>>

Tick ==
    /\ stage # "done" /\ now < MaxTime
    /\ now' = now + 1
    /\ UNCHANGED <<conn, sentBody, ctxDone>> /\ Still

\* requestTimeoutMiddleware's timer.
Expire ==
    /\ stage # "done" /\ ~ctxDone
    /\ cfg.request > 0 /\ now >= cfg.request
    /\ ctxDone' = TRUE
    /\ UNCHANGED <<conn, sentBody, now>> /\ Still

SendBody ==
    /\ stage # "done" /\ conn = "open" /\ ~sentBody
    /\ sentBody' = TRUE
    /\ UNCHANGED <<conn, ctxDone, now>> /\ Still

\* net/http cancels the context of a client that is gone, if it notices.
HangUp ==
    /\ stage # "done" /\ conn = "open"
    /\ conn' = "gone"
    /\ ctxDone' \in {ctxDone, TRUE}
    /\ UNCHANGED <<sentBody, now>> /\ Still

Done == stage = "done" /\ UNCHANGED vars

Chain ==
    Validate \/ Route \/ Bind \/ Decode \/ StoreCancelled \/ Visit \/ Return

Next ==
    \/ Chain \/ Body \/ Flush \/ StoreReturns \/ Detach \/ Panic
    \/ Tick \/ Expire \/ SendBody \/ HangUp
    \/ Done

Spec == Init /\ [][Next]_vars

\* The request's goroutine runs when it can and time passes; client-go returns
\* from a call whose context is cancelled, and from a detached call within its
\* limit; a write to a broken connection returns.  Otherwise neither the client,
\* which need not read, nor the store owes anything.
FairSpec ==
    /\ Spec
    /\ WF_vars(Chain) /\ WF_vars(Tick) /\ WF_vars(Expire)
    /\ WF_vars(Broken /\ (Body \/ Flush))
    /\ WF_vars(stage = "detached" /\ StoreReturns)

-----------------------------------------------------------------------------
\* The body is the one that the status announces.
WellFormed(status, content) ==
    \/ status = 204 /\ content = "none"
    \/ status \in {200, 201} /\ content = "json"
    \/ status = 500 /\ content = "fixed"
    \/ status \in {400, 401, 403, 404, 409} /\ content \in Problems
    \/ status \in {404, 405} /\ content = "plain" /\ route \notin Operations

\* What a client receives whole is one answer: every error is a problem document
\* (REQ-XC-ERR-010, REQ-HTTP-091), an internal one says nothing of its cause
\* (REQ-XC-ERR-040), and recovery adds nothing to an answer that was begun
\* (REQ-HTTP-070).  Two exceptions: chi's plain answers to what no route matches,
\* and a panic between the status line and the body, which leaves an answer
\* without one.
AnswerWellFormed ==
    told.status # 0 /\ told.body # "cut" =>
        \/ WellFormed(told.status, told.body)
        \/ panicked = "late" /\ told.body = "none"

\* What the access log says of a request is what the client was sent, unless the
\* body could not be written after the status line; and a request that ends
\* without a panic has its line.  (REQ-HTTP-060 asks for a line of every request;
\* one that panics unwinds past server.go:254.)
AccessLog ==
    /\ logged # 0 => logged = head \/ (logged = 500 /\ Broken)
    /\ stage = "done" /\ panicked = "no" => logged # 0

\* A client that waits is answered, whatever fails or panics behind recovery,
\* unless the write timeout has passed or the handler aborts on purpose.
SilenceExcused ==
    stage = "done" /\ (told.status = 0 \/ told.body = "cut") =>
        Broken \/ panicked = "abort"

\* With a request timeout and a write timeout every request ends, however slow the
\* client and the store are (REQ-HTTP-110).  Two exceptions: a Create whose body
\* no read timeout bounds, as the request timeout alone does not end it
\* (server.go:241, 374), and the health check, whose call of the API server has no
\* context (store.go:36-37) and may outlive every timeout.
TimeoutBounds ==
    cfg.request > 0 /\ cfg.write > 0 /\ (route = "create" => cfg.read > 0)
    /\ route # "health" ~> stage = "done"
=============================================================================
