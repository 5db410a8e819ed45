------------------------- MODULE RequestChainProofs -------------------------
(***************************************************************************)
(* Theorems about RequestChain, for all timeouts and any bound on time.    *)
(***************************************************************************)
EXTENDS RequestChain, TLAPS

\* Nothing has been written, logged or told.
Silent ==
    stage \in Inside \ {"body", "return"} =>
        head = 0 /\ body = "none" /\ ~wroteHeader

\* The request has matched an operation where its handler runs.
Routed ==
    /\ stage \in {"bind", "decode", "store", "detached"} => route \in Operations
    /\ stage = "detached" => route \in {"create", "delete"}

\* Between the status line and the body the recorders know what was sent.
HalfWritten ==
    stage = "body" =>
        /\ head = answer /\ recorded = answer /\ answer # 204
        /\ body = "none" /\ wroteHeader

\* What leaves the chain is an answer, and the recorders know it, unless its body
\* met a broken connection.
Written ==
    stage = "return" =>
        /\ wroteHeader /\ head # 0
        /\ recorded = head \/ (recorded = 500 /\ Broken)
        /\ WellFormed(head, body) \/ Broken

\* As long as the chain runs there is no panic and no line in the log.
Undecided == stage \in Inside => panicked = "no" /\ logged = 0

\* What each way out of the chain leaves for net/http to flush.
Left ==
    stage \in {"flush", "done"} =>
        \/ /\ panicked = "no" /\ logged # 0 /\ head # 0
           /\ logged = head \/ (logged = 500 /\ Broken)
           /\ WellFormed(head, body) \/ Broken
        \/ panicked = "early" /\ logged = 0 /\ head = 500 /\ body = "fixed"
        \/ /\ panicked = "late" /\ logged = 0 /\ head # 0
           /\ body = "none" \/ WellFormed(head, body) \/ Broken
        \/ panicked = "abort" /\ logged = 0

Unheard == told.status = 0 \/ told.body = "cut"

\* What the client has in the end.
Heard ==
    /\ stage # "done" => told = Nothing
    /\ stage = "done" =>
         IF Unheard THEN Broken \/ panicked = "abort"
         ELSE \/ WellFormed(told.status, told.body)
              \/ panicked = "late" /\ told.body = "none"

IInv ==
    /\ TypeOK
    /\ Silent /\ Routed /\ HalfWritten /\ Written /\ Undecided /\ Left /\ Heard

-----------------------------------------------------------------------------
\* Every answer of a handler is one that its operation may be visited with.
LEMMA AnswersVisitable ==
    ASSUME NEW op \in Operations, NEW e \in StoreErrors
    PROVE  /\ Succeeded(op) \in Responses[op]
           /\ Failed(op, e) \in Responses[op]
  BY SMT DEF Operations, StoreErrors, Succeeded, Failed, Responses, mapCreateError,
    mapGetError, mapDeleteError, mapListError, ListContainersResponses,
    CreateContainerResponses, GetHealthResponses, DeleteContainerResponses,
    GetContainerResponses

\* Every one of them is a status, and has the body that belongs to it.
LEMMA ResponsesWellFormed ==
    ASSUME NEW op \in Operations, NEW code \in Responses[op]
    PROVE  /\ code \in Statuses
           /\ code # 0
           /\ Payload(code) \in Bodies \ {"none"}
           /\ code # 204 => WellFormed(code, Payload(code))
           /\ WellFormed(204, "none")
  <1>1. code \in {200, 201, 204, 400, 401, 403, 404, 409, 500}
    BY SMT DEF Operations, Responses, ListContainersResponses,
      CreateContainerResponses, GetHealthResponses, DeleteContainerResponses,
      GetContainerResponses
  <1>. QED
    BY <1>1, SMT DEF Statuses, Payload, Bodies, WellFormed, Problems

\* A detail of the validator is one of the two problems.
LEMMA ScrubbedIsProblem ==
    ASSUME NEW e
    PROVE  scrubValidationError(e) \in Problems
  BY DEF scrubValidationError, Problems

LEMMA ConfigNumbers ==
    ASSUME TypeOK
    PROVE  cfg.write \in Nat /\ now \in Nat /\ MaxTime \in Nat
  BY TimeoutsAssumption DEF TypeOK

\* A broken connection stays broken as long as the request lasts.
LEMMA BrokenStays == TypeOK /\ Broken /\ [Next]_vars => Broken'
  <1>. SUFFICES ASSUME TypeOK, Broken, [Next]_vars PROVE Broken'
    OBVIOUS
  <1>1. cfg' = cfg /\ (conn' = conn \/ conn' = "gone")
          /\ (now' = now \/ now' = now + 1)
    BY DEF Next, Chain, Validate, Route, Bind, Decode, StoreReturns, StoreCancelled,
      Detach, Visit, Body, Return, Panic, Flush, Tick, Expire, SendBody, HangUp, Done,
      Quiet, Still, world, vars
  <1>. QED
    BY <1>1, ConfigNumbers DEF Broken

\* The initial states of the chain.
LEMMA InitIInv == Init => IInv
  <1>. SUFFICES ASSUME Init PROVE IInv
    OBVIOUS
  <1>1. TypeOK
    <2>1. cfg \in [spec: {"ok", "noRouter", "none"}, request: RequestTimeouts,
                   read: ReadTimeouts, write: WriteTimeouts]
      BY Zenon DEF Init
    <2>2. now \in 0..MaxTime
      BY TimeoutsAssumption DEF Init
    <2>3. told \in Told
      BY DEF Init, Told, Nothing, Statuses, Bodies
    <2>4. sentBody \in BOOLEAN
      BY Zenon DEF Init
    <2>5. /\ stage \in Inside \cup {"flush", "done"}
          /\ stage \notin {"visit", "body"}
          /\ recorded \in Statuses /\ body \in Bodies
      BY DEF Init, Inside, Statuses, Bodies
    <2>. QED
      BY <2>1, <2>2, <2>3, <2>4, <2>5, Zenon DEF Init, TypeOK
  <1>2. Silent /\ Routed /\ HalfWritten /\ Written /\ Undecided /\ Left /\ Heard
    BY DEF Init, Silent, Routed, HalfWritten, Written, Undecided, Left, Heard, Inside
  <1>. QED  BY <1>1, <1>2 DEF IInv

-----------------------------------------------------------------------------
(* Steps of the chain itself leave what surrounds it alone.                *)

Early == Inside \ {"body", "return"}

LEMMA QuietTypeOK ==
    ASSUME TypeOK, Quiet,
           stage' \in Inside, answer' \in Statuses \cup {0},
           stage' \in {"visit", "body"} =>
               route \in Operations /\ answer' \in Responses[route],
           recorded' \in Statuses, wroteHeader' \in BOOLEAN,
           head' \in Statuses \cup {0}, body' \in Bodies
    PROVE  TypeOK'
  BY Zenon DEF TypeOK, Quiet, world

LEMMA QuietRest ==
    ASSUME IInv, Quiet, stage \in Inside, stage' \in Inside
    PROVE  /\ Undecided' /\ Left' /\ Heard'
           /\ Broken' = Broken
  <1>1. stage \notin {"flush", "done"} /\ stage' \notin {"flush", "done"}
    BY DEF Inside
  <1>2. Undecided'
    BY DEF IInv, Undecided, Quiet
  <1>3. Left'
    BY <1>1 DEF Left
  <1>4. Heard'
    BY <1>1 DEF IInv, Heard, Quiet, Nothing
  <1>5. Broken' = Broken
    BY DEF Broken, Quiet, world
  <1>. QED  BY <1>2, <1>3, <1>4, <1>5

\* The request goes on to stage s, and nothing is written.
LEMMA PassIInv ==
    ASSUME IInv, Quiet, stage \in Early, NEW s \in Early, Pass(s),
           answer' \in Statuses \cup {0},
           s = "visit" => route \in Operations /\ answer' \in Responses[route],
           s \in {"bind", "decode", "store", "detached"} => route \in Operations,
           s = "detached" => route \in {"create", "delete"}
    PROVE  IInv'
  <1>1. stage' = s /\ UNCHANGED <<recorded, wroteHeader, head, body>>
    BY DEF Pass, response
  <1>2. stage' \in Inside /\ stage' \notin {"body", "return"} /\ stage \in Inside
    BY <1>1 DEF Early
  <1>3. TypeOK'
    BY <1>1, <1>2, QuietTypeOK DEF IInv, TypeOK
  <1>4. Undecided' /\ Left' /\ Heard'
    BY <1>2, QuietRest
  <1>5. Silent' /\ HalfWritten' /\ Written'
    BY <1>1, <1>2 DEF IInv, Silent, HalfWritten, Written, Early
  <1>6. Routed'
    BY <1>1 DEF Routed, Quiet
  <1>. QED  BY <1>3, <1>4, <1>5, <1>6 DEF IInv

\* The first thing that is written is a whole answer.
LEMMA ReplyIInv ==
    ASSUME IInv, Quiet, UNCHANGED answer, stage \in Early,
           NEW code \in Statuses, NEW b \in Bodies \ {"none"},
           WellFormed(code, b), Reply(code, b)
    PROVE  IInv'
  <1>1. head = 0 /\ body = "none" /\ stage \in Inside
    BY DEF IInv, Silent, Early
  <1>2. /\ stage' = "return" /\ recorded' = code /\ wroteHeader' = TRUE
        /\ head' = code /\ body' = b
    BY <1>1 DEF Reply, Write, Raw
  <1>3. stage' \in Inside
    BY <1>2 DEF Inside
  <1>4. TypeOK'
    BY <1>2, <1>3, QuietTypeOK DEF IInv, TypeOK
  <1>5. Undecided' /\ Left' /\ Heard'
    BY <1>1, <1>3, QuietRest
  <1>6. WellFormed(code, b)' /\ code # 0
    BY DEF WellFormed, Quiet, Statuses
  <1>7. Written'
    BY <1>2, <1>6 DEF Written, WellFormed
  <1>8. Silent' /\ HalfWritten' /\ Routed'
    BY <1>2 DEF Silent, HalfWritten, Routed
  <1>. QED  BY <1>4, <1>5, <1>7, <1>8 DEF IInv

\* So is a problem of the request error handler.
LEMMA BadReqIInv ==
    ASSUME IInv, Quiet, UNCHANGED answer, stage \in Early, NEW e, badReq(e)
    PROVE  IInv'
  <1>1. scrubValidationError(e) \in Problems
    BY ScrubbedIsProblem
  <1>2. /\ WellFormed(400, scrubValidationError(e)) /\ 400 \in Statuses
        /\ scrubValidationError(e) \in Bodies \ {"none"}
    BY <1>1 DEF WellFormed, Problems, Bodies, Statuses
  <1>. QED  BY <1>2, ReplyIInv DEF badReq

-----------------------------------------------------------------------------
(* One lemma for each step of the chain.                                   *)

LEMMA ValidateIInv == IInv /\ Validate => IInv'
  <1>. SUFFICES ASSUME IInv, Validate PROVE IInv'
    OBVIOUS
  <1>1. Quiet /\ UNCHANGED answer /\ stage \in Early
    BY DEF Validate, Early, Inside
  <1>2. CASE Pass("route")
    <2>1. "route" \in Early /\ answer' \in Statuses \cup {0}
      BY <1>1 DEF Early, Inside, IInv, TypeOK
    <2>. QED  BY <1>1, <1>2, <2>1, PassIInv
  <1>3. CASE \E e \in {"schema", "reason", "bare", "unknown"} : badReq(e)
    BY <1>1, <1>3, BadReqIInv
  <1>. QED  BY <1>2, <1>3 DEF Validate

LEMMA RouteIInv == IInv /\ Route => IInv'
  <1>. SUFFICES ASSUME IInv, Route PROVE IInv'
    OBVIOUS
  <1>1. Quiet /\ UNCHANGED answer /\ stage \in Early
    BY DEF Route, Early, Inside
  <1>2. CASE route = "emptyId" /\ Reply(400, "detail")
    <2>1. WellFormed(400, "detail") /\ 400 \in Statuses /\ "detail" \in Bodies \ {"none"}
      BY DEF WellFormed, Problems, Statuses, Bodies
    <2>. QED  BY <1>1, <1>2, <2>1, ReplyIInv
  <1>3. CASE route \notin Operations /\ \E c \in {404, 405} : Reply(c, "plain")
    <2>1. PICK c \in {404, 405} : Reply(c, "plain")
      BY <1>3
    <2>2. WellFormed(c, "plain") /\ c \in Statuses /\ "plain" \in Bodies \ {"none"}
      BY <1>3 DEF WellFormed, Statuses, Bodies
    <2>. QED  BY <1>1, <2>1, <2>2, ReplyIInv
  <1>4. CASE route \in Operations /\ Pass("bind")
    <2>1. "bind" \in Early /\ answer' \in Statuses \cup {0}
      BY <1>1 DEF Early, Inside, IInv, TypeOK
    <2>. QED  BY <1>1, <1>4, <2>1, PassIInv
  <1>. QED
    BY <1>2, <1>3, <1>4 DEF Route, Operations

LEMMA BindIInv == IInv /\ Bind => IInv'
  <1>. SUFFICES ASSUME IInv, Bind PROVE IInv'
    OBVIOUS
  <1>1. Quiet /\ UNCHANGED answer /\ stage \in Early
    BY DEF Bind, Early, Inside
  <1>2. CASE badReq("param")
    BY <1>1, <1>2, BadReqIInv
  <1>3. CASE Pass("decode")
    <2>1. "decode" \in Early /\ answer' \in Statuses \cup {0} /\ route \in Operations
      BY <1>1 DEF Early, Inside, IInv, TypeOK, Routed, Bind
    <2>. QED  BY <1>1, <1>3, <2>1, PassIInv
  <1>. QED  BY <1>2, <1>3 DEF Bind

LEMMA DecodeIInv == IInv /\ Decode => IInv'
  <1>. SUFFICES ASSUME IInv, Decode PROVE IInv'
    OBVIOUS
  <1>1. Quiet /\ stage \in Early /\ route \in Operations
    BY DEF Decode, Early, Inside, IInv, Routed
  <1>2. answer \in Statuses \cup {0}
    BY DEF IInv, TypeOK
  <1>3. CASE Pass("store") /\ UNCHANGED answer
    <2>1. "store" \in Early
      BY DEF Early, Inside
    <2>. QED  BY <1>1, <1>2, <1>3, <2>1, PassIInv
  <1>4. CASE badReq("unknown") /\ UNCHANGED answer
    BY <1>1, <1>4, BadReqIInv
  <1>5. CASE route = "create" /\ Pass("visit") /\ answer' = Refused
    <2>1. "visit" \in Early /\ answer' \in Responses[route] /\ answer' \in Statuses
      BY <1>5 DEF Early, Inside, Refused, Responses, CreateContainerResponses, Statuses
    <2>. QED  BY <1>1, <1>5, <2>1, PassIInv
  <1>. QED  BY <1>3, <1>4, <1>5 DEF Decode

\* The handler has its answer, and goes on to visit it.
LEMMA AnsweredIInv ==
    ASSUME IInv, Quiet, stage \in {"store", "detached"}, Pass("visit"),
           answer' \in Responses[route]
    PROVE  IInv'
  <1>1. stage \in Early /\ "visit" \in Early /\ route \in Operations
    BY DEF Early, Inside, IInv, Routed
  <1>2. answer' \in Statuses
    BY <1>1, ResponsesWellFormed
  <1>. QED  BY <1>1, <1>2, PassIInv

LEMMA StoreReturnsIInv == IInv /\ StoreReturns => IInv'
  <1>. SUFFICES ASSUME IInv, StoreReturns PROVE IInv'
    OBVIOUS
  <1>1. route \in Operations
    BY DEF StoreReturns, IInv, Routed
  <1>2. answer' \in Responses[route]
    BY <1>1, AnswersVisitable DEF StoreReturns, StoreErrors
  <1>. QED  BY <1>2, AnsweredIInv DEF StoreReturns

LEMMA StoreCancelledIInv == IInv /\ StoreCancelled => IInv'
  <1>. SUFFICES ASSUME IInv, StoreCancelled PROVE IInv'
    OBVIOUS
  <1>1. route \in Operations /\ "other" \in StoreErrors
    BY DEF StoreCancelled, IInv, Routed, StoreErrors
  <1>2. answer' \in Responses[route]
    BY <1>1, AnswersVisitable DEF StoreCancelled
  <1>. QED  BY <1>2, AnsweredIInv DEF StoreCancelled

LEMMA DetachIInv == IInv /\ Detach => IInv'
  <1>. SUFFICES ASSUME IInv, Detach PROVE IInv'
    OBVIOUS
  <1>1. /\ stage \in Early /\ "detached" \in Early
        /\ route \in Operations /\ answer' \in Statuses \cup {0}
    BY DEF Detach, Early, Inside, IInv, TypeOK, Routed
  <1>. QED  BY <1>1, PassIInv DEF Detach

\* The status line goes out: whole for a 204, ahead of its body otherwise.
LEMMA VisitIInv == IInv /\ Visit => IInv'
  <1>. SUFFICES ASSUME IInv, Visit PROVE IInv'
    OBVIOUS
  <1>1. Quiet /\ UNCHANGED answer /\ stage \in Early /\ stage \in Inside
    BY DEF Visit, Early, Inside
  <1>2. route \in Operations /\ answer \in Responses[route] /\ answer \in Statuses
    BY ResponsesWellFormed DEF Visit, IInv, TypeOK
  <1>3. CASE ResponseErrorHandler
    <2>1. WellFormed(500, "fixed") /\ 500 \in Statuses /\ "fixed" \in Bodies \ {"none"}
      BY DEF WellFormed, Statuses, Bodies
    <2>. QED  BY <1>1, <1>3, <2>1, ReplyIInv DEF ResponseErrorHandler
  <1>4. CASE /\ Write(answer, "none")
             /\ stage' = IF answer = 204 THEN "return" ELSE "body"
    <2>1. /\ recorded' = answer /\ wroteHeader' = TRUE
          /\ head' = answer /\ body' = "none"
      BY <1>1, <1>4 DEF Write, Raw, IInv, Silent, Early
    <2>2. stage' \in Inside /\ stage' \in {"body", "return"}
      BY <1>4 DEF Inside
    <2>3. answer' = answer
      BY <1>1
    <2>4. TypeOK'
      <3>1. "none" \in Bodies
        BY DEF Bodies
      <3>. QED  BY <1>1, <1>2, <2>1, <2>2, <2>3, <3>1, QuietTypeOK DEF IInv
    <2>5. Undecided' /\ Left' /\ Heard'
      BY <1>1, <2>2, QuietRest
    <2>6. HalfWritten'
      BY <1>4, <2>1, <2>3 DEF HalfWritten
    <2>7. Written'
      BY <1>4, <2>1 DEF Written, WellFormed
    <2>8. Silent' /\ Routed'
      BY <2>2 DEF Silent, Routed
    <2>. QED  BY <2>4, <2>5, <2>6, <2>7, <2>8 DEF IInv
  <1>. QED  BY <1>3, <1>4 DEF Visit

\* The body follows its status line, or the connection is broken.
LEMMA BodyIInv == IInv /\ Body => IInv'
  <1>. SUFFICES ASSUME IInv, Body PROVE IInv'
    OBVIOUS
  <1>1. Quiet /\ UNCHANGED answer /\ stage \in Inside /\ stage = "body"
    BY DEF Body, Inside
  <1>2. route \in Operations /\ answer \in Responses[route]
    BY <1>1 DEF IInv, TypeOK
  <1>3. /\ answer \in Statuses /\ answer # 0
        /\ Payload(answer) \in Bodies \ {"none"} /\ WellFormed(answer, Payload(answer))
        /\ head = answer /\ recorded = answer /\ body = "none" /\ wroteHeader
    BY <1>1, <1>2, ResponsesWellFormed DEF IInv, HalfWritten
  <1>4. stage' = "return" /\ stage' \in Inside
    BY DEF Body, ResponseErrorHandler, Reply, Inside
  <1>5. /\ wroteHeader' = TRUE /\ head' = answer
        /\ body' \in {Payload(answer), "fixed"}
        /\ \/ body' = Payload(answer) /\ recorded' = answer
           \/ recorded' = 500 /\ Broken
    BY <1>3 DEF Body, ResponseErrorHandler, Reply, Write, Raw, Problems
  <1>6. TypeOK'
    <2>1. "fixed" \in Bodies /\ 500 \in Statuses
      BY DEF Bodies, Statuses
    <2>. QED  BY <1>1, <1>3, <1>4, <1>5, <2>1, QuietTypeOK DEF IInv
  <1>7. Undecided' /\ Left' /\ Heard' /\ Broken' = Broken
    BY <1>1, <1>4, QuietRest
  <1>8. WellFormed(answer, Payload(answer))'
    BY <1>1, <1>3 DEF WellFormed, Payload, Quiet
  <1>9. Written'
    <2>1. WellFormed(head, body)' \/ Broken
      <3>1. CASE body' = Payload(answer)
        BY <1>1, <1>5, <1>8, <3>1 DEF WellFormed, Payload
      <3>. QED  BY <1>5, <3>1
    <2>. QED  BY <1>3, <1>5, <1>7, <2>1 DEF Written
  <1>10. Silent' /\ HalfWritten' /\ Routed'
    BY <1>4 DEF Silent, HalfWritten, Routed
  <1>. QED  BY <1>6, <1>7, <1>9, <1>10 DEF IInv

\* The way out: nothing is said of the stages inside the chain any more.
LEMMA OutsideIInv ==
    ASSUME TypeOK', stage' \in {"flush", "done"}, Left', Heard'
    PROVE  IInv'
  <1>1. stage' \notin Inside /\ stage' \notin {"body", "return"}
    BY DEF Inside
  <1>2. Silent' /\ Routed' /\ HalfWritten' /\ Written' /\ Undecided'
    BY <1>1 DEF Silent, Routed, HalfWritten, Written, Undecided
  <1>. QED  BY <1>2 DEF IInv

LEMMA ReturnIInv == IInv /\ Return => IInv'
  <1>. SUFFICES ASSUME IInv, Return PROVE IInv'
    OBVIOUS
  <1>1. /\ stage = "return" /\ stage' = "flush" /\ logged' = recorded
        /\ UNCHANGED <<cfg, route, answer, recorded, wroteHeader, head, body, panicked,
                       told, conn, sentBody, ctxDone, now>>
    BY DEF Return, response, world
  <1>2. TypeOK'
    BY <1>1, Zenon DEF IInv, TypeOK
  <1>3. Broken' = Broken /\ WellFormed(head, body)' = WellFormed(head, body)
    BY <1>1 DEF Broken, WellFormed
  <1>4. panicked = "no" /\ recorded # 0
    BY <1>1 DEF IInv, Undecided, Inside, TypeOK, Statuses
  <1>5. Left'
    BY <1>1, <1>3, <1>4 DEF IInv, Written, Left
  <1>6. Heard'
    BY <1>1 DEF IInv, Heard, Nothing
  <1>. QED  BY <1>1, <1>2, <1>5, <1>6, OutsideIInv

LEMMA PanicIInv == IInv /\ Panic => IInv'
  <1>. SUFFICES ASSUME IInv, Panic PROVE IInv'
    OBVIOUS
  <1>1. /\ stage \in Inside /\ stage' = "flush"
        /\ UNCHANGED <<cfg, route, answer, recorded, wroteHeader, logged, told, conn,
                       sentBody, ctxDone, now>>
    BY DEF Panic, world
  <1>2. Broken' = Broken /\ logged = 0 /\ logged' = 0
    BY <1>1 DEF Broken, IInv, Undecided
  <1>3. Heard'
    BY <1>1 DEF IInv, Heard, Nothing, Inside
  <1>4. CASE panicked' \in {"abort", "late"} /\ UNCHANGED <<head, body>>
             /\ (panicked' = "late" => wroteHeader)
    <2>1. TypeOK'
      <3>1. panicked' \in {"no", "early", "late", "abort"}
        BY <1>4
      <3>2. stage' \in Inside \cup {"flush", "done"} /\ stage' \notin {"visit", "body"}
        BY <1>1
      <3>. QED  BY <1>1, <1>4, <3>1, <3>2, Zenon DEF IInv, TypeOK
    <2>2. WellFormed(head, body)' = WellFormed(head, body)
      BY <1>1, <1>4 DEF WellFormed
    <2>3. CASE panicked' = "late"
      <3>1. stage \in {"body", "return"}
        BY <1>1, <1>4, <2>3 DEF IInv, Silent
      <3>2. head # 0 /\ (body = "none" \/ WellFormed(head, body) \/ Broken)
        <4>1. CASE stage = "body"
          <5>1. route \in Operations /\ answer \in Responses[route]
            BY <4>1 DEF IInv, TypeOK
          <5>. QED  BY <4>1, <5>1, ResponsesWellFormed DEF IInv, HalfWritten
        <4>2. CASE stage = "return"
          BY <4>2 DEF IInv, Written
        <4>. QED  BY <3>1, <4>1, <4>2
      <3>3. Left'
        BY <1>2, <1>4, <2>2, <2>3, <3>2 DEF Left
      <3>. QED  BY <1>1, <1>3, <2>1, <3>3, OutsideIInv
    <2>4. CASE panicked' = "abort"
      <3>1. Left'
        BY <1>2, <2>4 DEF Left
      <3>. QED  BY <1>1, <1>3, <2>1, <3>1, OutsideIInv
    <2>. QED  BY <1>4, <2>3, <2>4
  <1>5. CASE ~wroteHeader /\ panicked' = "early" /\ Raw(500, "fixed")
    <2>1. stage \in Inside \ {"body", "return"}
      BY <1>1, <1>5 DEF IInv, HalfWritten, Written
    <2>2. head' = 500 /\ body' = "fixed"
      BY <1>5, <2>1 DEF IInv, Silent, Raw
    <2>3. TypeOK'
      <3>1. head' \in Statuses \cup {0} /\ body' \in Bodies
        BY <2>2 DEF Statuses, Bodies
      <3>2. stage' \in Inside \cup {"flush", "done"} /\ stage' \notin {"visit", "body"}
        BY <1>1
      <3>3. panicked' \in {"no", "early", "late", "abort"}
        BY <1>5
      <3>. QED  BY <1>1, <3>1, <3>2, <3>3, Zenon DEF IInv, TypeOK
    <2>4. Left'
      BY <1>2, <1>5, <2>2 DEF Left
    <2>. QED  BY <1>1, <1>3, <2>3, <2>4, OutsideIInv
  <1>. QED  BY <1>4, <1>5 DEF Panic

\* What net/http flushes is what was left, unless the connection is broken or the
\* handler has aborted.
LEMMA FlushIInv == IInv /\ Flush => IInv'
  <1>. SUFFICES ASSUME IInv, Flush PROVE IInv'
    OBVIOUS
  <1>1. /\ stage = "flush" /\ stage' = "done"
        /\ UNCHANGED <<cfg, route, answer, recorded, wroteHeader, head, body, logged,
                       panicked, conn, sentBody, ctxDone, now>>
    BY DEF Flush, response, world
  <1>2. Broken' = Broken /\ WellFormed(head, body)' = WellFormed(head, body)
    BY <1>1 DEF Broken, WellFormed
  <1>3. head \in Statuses \cup {0} /\ body \in Bodies
    BY DEF IInv, TypeOK
  <1>4. Left'
    BY <1>1, <1>2 DEF IInv, Left
  <1>5. CASE /\ panicked = "abort" \/ Broken
             /\ told' \in {Nothing} \cup {[status |-> c, body |-> "cut"] : c \in {head} \ {0}}
    <2>1. told' \in Told /\ Unheard'
      BY <1>3, <1>5 DEF Told, Nothing, Bodies, Unheard
    <2>2. TypeOK'
      BY <1>1, <2>1, Zenon DEF IInv, TypeOK
    <2>3. Heard'
      BY <1>1, <1>2, <1>5, <2>1 DEF Heard
    <2>. QED  BY <1>1, <1>4, <2>2, <2>3, OutsideIInv
  <1>6. CASE ~(panicked = "abort" \/ Broken) /\ told' = [status |-> head, body |-> body]
    <2>1. told' \in Told
      BY <1>3, <1>6 DEF Told
    <2>2. TypeOK'
      BY <1>1, <2>1, Zenon DEF IInv, TypeOK
    <2>3. /\ head # 0 /\ body # "cut"
          /\ WellFormed(head, body) \/ (panicked = "late" /\ body = "none")
      BY <1>1, <1>3, <1>6 DEF IInv, Left, WellFormed, Bodies
    <2>4. Heard'
      <3>1. WellFormed(told.status, told.body)' = WellFormed(head, body)
        BY <1>1, <1>6 DEF WellFormed
      <3>. QED  BY <1>1, <1>6, <2>3, <3>1 DEF Heard, Unheard
    <2>. QED  BY <1>1, <1>4, <2>2, <2>4, OutsideIInv
  <1>. QED  BY <1>5, <1>6 DEF Flush

\* The world changes, and the chain stands still: a connection may break, and
\* nothing that was written is undone.
LEMMA StillIInv ==
    ASSUME IInv, Still, Broken => Broken',
           conn' \in {"open", "gone"}, sentBody' \in BOOLEAN,
           ctxDone' \in BOOLEAN, now' \in 0..MaxTime
    PROVE  IInv'
  <1>1. UNCHANGED <<cfg, route, stage, answer, recorded, wroteHeader, head, body, logged,
                    panicked, told>>
    BY DEF Still, response
  <1>2. TypeOK'
    BY <1>1, Zenon DEF IInv, TypeOK
  <1>3. /\ WellFormed(head, body)' = WellFormed(head, body)
        /\ WellFormed(told.status, told.body)' = WellFormed(told.status, told.body)
    BY <1>1 DEF WellFormed
  <1>4. Silent' /\ Routed' /\ HalfWritten' /\ Undecided'
    BY <1>1 DEF IInv, Silent, Routed, HalfWritten, Undecided
  <1>5. Written' /\ Left'
    BY <1>1, <1>3 DEF IInv, Written, Left
  <1>6. Heard'
    BY <1>1, <1>3 DEF IInv, Heard, Unheard, Nothing
  <1>. QED  BY <1>2, <1>4, <1>5, <1>6 DEF IInv

LEMMA WorldIInv == IInv /\ (Tick \/ Expire \/ SendBody \/ HangUp) => IInv'
  <1>. SUFFICES ASSUME IInv, Tick \/ Expire \/ SendBody \/ HangUp PROVE IInv'
    OBVIOUS
  <1>1. Still
    BY DEF Tick, Expire, SendBody, HangUp
  <1>2. Broken => Broken'
    BY BrokenStays DEF IInv, Next
  <1>3. /\ conn \in {"open", "gone"} /\ sentBody \in BOOLEAN
        /\ ctxDone \in BOOLEAN /\ now \in 0..MaxTime
    BY DEF IInv, TypeOK
  <1>4. CASE Tick
    <2>1. now' \in 0..MaxTime
      BY <1>4, TimeoutsAssumption, <1>3 DEF Tick
    <2>. QED  BY <1>1, <1>2, <1>3, <1>4, <2>1, StillIInv DEF Tick
  <1>5. CASE Expire
    BY <1>1, <1>2, <1>3, <1>5, StillIInv DEF Expire
  <1>6. CASE SendBody
    BY <1>1, <1>2, <1>3, <1>6, StillIInv DEF SendBody
  <1>7. CASE HangUp
    <2>1. ctxDone' \in BOOLEAN
      BY <1>3, <1>7, Zenon DEF HangUp
    <2>. QED  BY <1>1, <1>2, <1>3, <1>7, <2>1, StillIInv DEF HangUp
  <1>. QED  BY <1>4, <1>5, <1>6, <1>7

LEMMA NextIInv == IInv /\ [Next]_vars => IInv'
  <1>. SUFFICES ASSUME IInv, [Next]_vars PROVE IInv'
    OBVIOUS
  <1>1. CASE UNCHANGED vars
    <2>1. Still /\ UNCHANGED <<conn, sentBody, ctxDone, now>>
      BY <1>1 DEF vars, Still, world
    <2>2. Broken => Broken'
      BY BrokenStays DEF IInv
    <2>. QED  BY <2>1, <2>2, StillIInv DEF IInv, TypeOK
  <1>. QED
    BY <1>1, ValidateIInv, RouteIInv, BindIInv, DecodeIInv, StoreCancelledIInv, VisitIInv,
       BodyIInv, ReturnIInv, FlushIInv, StoreReturnsIInv, DetachIInv, PanicIInv, WorldIInv
    DEF Next, Chain, Done

THEOREM Invariance == Spec => []IInv
  BY InitIInv, NextIInv, PTL DEF Spec

\* The variables keep their types; in particular a handler's answer is always one
\* that the generated code can write for its operation (server.gen.go:339-679).
THEOREM TypeCorrect == Spec => []TypeOK
  BY Invariance, PTL DEF IInv

\* Whatever fails, hangs or panics at whatever moment, what a client receives whole
\* is one answer with the body that belongs to its status (server.go:198-231).
THEOREM AnswersWellFormed == Spec => []AnswerWellFormed
  <1>1. IInv => AnswerWellFormed
    BY DEF IInv, TypeOK, Heard, Unheard, AnswerWellFormed, Nothing
  <1>. QED  BY <1>1, Invariance, PTL

\* A line of the access log tells the status line that was sent, and a request
\* that ends without a panic has one (server.go:248-264).
THEOREM AccessLogTrue == Spec => []AccessLog
  <1>1. IInv => AccessLog
    <2>. SUFFICES ASSUME IInv PROVE AccessLog
      OBVIOUS
    <2>1. CASE stage \in Inside
      BY <2>1 DEF IInv, Undecided, AccessLog, Inside
    <2>2. CASE stage \in {"flush", "done"}
      BY <2>2 DEF IInv, Left, AccessLog
    <2>. QED  BY <2>1, <2>2 DEF IInv, TypeOK
  <1>. QED  BY <1>1, Invariance, PTL

\* A client is left without an answer only by a broken connection, which includes
\* a write timeout that has passed, or by a handler that aborts on purpose.
THEOREM SilenceIsExcused == Spec => []SilenceExcused
  <1>1. IInv => SilenceExcused
    BY DEF IInv, Heard, Unheard, SilenceExcused
  <1>. QED  BY <1>1, Invariance, PTL
=============================================================================
