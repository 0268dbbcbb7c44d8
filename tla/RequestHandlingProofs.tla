------------------------ MODULE RequestHandlingProofs ------------------------
(***************************************************************************)
(* Proofs about mcpRequestHandler: about one call, for every request body   *)
(* and all captured headers, and about the session that a client builds     *)
(* from its calls.                                                          *)
(***************************************************************************)
EXTENDS RequestHandling, ClientSession, TLAPS

-----------------------------------------------------------------------------
(* The kinds of results, by the era in which the request is served.         *)

\* The codes that both eras answer with; a legacy request may also be none at all.
servedCodes == {UnsupportedProtocolVersion, HeaderMismatch, InvalidParams, MethodNotFound}
\* The codes a request of an era can be answered with.
codesOf(gen) == servedCodes \cup (IF gen = Legacy THEN {ParseError, InvalidRequest} ELSE {})

\* An error of that era.
isError(r, gen) == \E id, code : code \in codesOf(gen) /\ r = errorResponse(gen, id, code)

\* A result in the envelope of the era.
isResultOf(r, gen) ==
    \E id, env :
      /\ env.stamped = (gen = Modern)
      /\ r = Answer(id, newImmediateBodyResponse(JsonRpcResult(id, env)))

\* The 202 that acknowledges a notification.
isAccepted(r, gen) == gen = Legacy /\ \E id : r = Answer(id, httpStatusResponse(202))

\* A request that goes upstream.
isReroute(r, gen) == r.Immediate = <<>> /\ r.Era = gen

\* Every outcome of the handler, in terms of the era.
Follows(r, gen) == isError(r, gen) \/ isResultOf(r, gen) \/ isAccepted(r, gen) \/ isReroute(r, gen)

\* The results that a served method of the era produces have an envelope in it.
Encodable(gen, payload) ==
    payload.of \in {"tools", "discover", "toolCall"} \/ (gen = Legacy /\ payload.of = "initialize")

\* A result is one of its own era.
LEMMA ResultFollows ==
    ASSUME NEW gen \in Eras, NEW id, NEW payload, Encodable(gen, payload)
    PROVE  Follows(resultResponse(gen, id, payload), gen)
  <1> DEFINE e == encodeResult(gen, payload)
  <1>1. e.ok /\ e.stamped = (gen = Modern)
    BY DEF encodeResult, Encodable, Cacheables, Eras, Legacy, Modern
  <1> HIDE DEF e
  <1>2. resultResponse(gen, id, payload) = Answer(id, newImmediateBodyResponse(JsonRpcResult(id, e)))
    BY <1>1 DEF resultResponse, e
  <1> QED
    BY <1>1, <1>2 DEF Follows, isResultOf

\* An error is one of its own era, with the status that era gives it.
LEMMA ErrorFollows ==
    ASSUME NEW gen, NEW id, NEW code \in codesOf(gen)
    PROVE  Follows(errorResponse(gen, id, code), gen)
  BY DEF Follows, isError

\* A tool call is refused for its parameters, answered about an argument, or
\* rerouted in its own era.
LEMMA ToolCallFollows ==
    ASSUME NEW gen \in Eras, NEW req, NEW strip
    PROVE  Follows(handleToolCall(gen, req, strip), gen)
  <1> DEFINE h == handleToolCall(gen, req, strip)
  <1>1. InvalidParams \in codesOf(gen)
    BY DEF codesOf, servedCodes
  <1>2. Encodable(gen, CallToolResult(InvalidArgumentText, FALSE, TRUE))
    BY DEF Encodable, CallToolResult
  <1>3. \/ h = errorResponse(gen, req.id, InvalidParams)
        \/ h = toolExecutionErrorResponse(gen, req.id)
        \/ h.Immediate = <<>> /\ h.Era = gen
    BY DEF handleToolCall
  <1> HIDE DEF h
  <1>4. Follows(toolExecutionErrorResponse(gen, req.id), gen)
    BY <1>2, ResultFollows DEF toolExecutionErrorResponse
  <1>5. Follows(errorResponse(gen, req.id, InvalidParams), gen)
    BY <1>1, ErrorFollows
  <1> QED
    BY <1>3, <1>4, <1>5 DEF Follows, isReroute, h

\* The switch takes the branch of its method.
LEMMA DispatchSelects ==
    ASSUME NEW gen, NEW req, NEW h
    PROVE  /\ req.method = methodInitialize => dispatch(gen, req, h) = handleInitialize(gen, req)
           /\ req.method = methodNotificationsInitialized =>
                dispatch(gen, req, h) = Answer(req.id, httpStatusResponse(202))
           /\ req.method = methodDiscover =>
                dispatch(gen, req, h) = resultResponse(gen, req.id, DiscoverResult)
           /\ req.method = methodToolsList =>
                dispatch(gen, req, h) = resultResponse(gen, req.id, ListToolsResult)
           /\ req.method = methodToolsCall =>
                dispatch(gen, req, h) = handleToolCall(gen, req, h.paramHeaderNames)
  BY DEF dispatch, methodInitialize, methodNotificationsInitialized, methodDiscover,
         methodToolsList, methodToolsCall

\* The switch on the method, for the methods that the era serves.
LEMMA DispatchFollows ==
    ASSUME NEW gen \in Eras, NEW req, NEW h, serves(gen, req.method)
    PROVE  Follows(dispatch(gen, req, h), gen)
  <1>1. CASE req.method = methodInitialize
    <2>1. gen = Legacy
      BY <1>1 DEF serves, modernMethods, Eras, methodInitialize, methodDiscover, methodToolsList,
                  methodToolsCall
    <2>2. \/ dispatch(gen, req, h) = errorResponse(gen, req.id, InvalidParams)
          \/ dispatch(gen, req, h) =
               resultResponse(gen, req.id, InitializeResult(negotiateLegacyVersion(req.params.version)))
      BY <1>1, DispatchSelects DEF handleInitialize
    <2>3. Encodable(gen, InitializeResult(negotiateLegacyVersion(req.params.version)))
      BY <2>1 DEF Encodable, InitializeResult
    <2>4. InvalidParams \in codesOf(gen)
      BY DEF codesOf, servedCodes
    <2> QED
      BY <2>2, <2>3, <2>4, ResultFollows, ErrorFollows
  <1>2. CASE req.method = methodNotificationsInitialized
    <2>1. gen = Legacy
      BY <1>2 DEF serves, modernMethods, Eras, methodNotificationsInitialized, methodDiscover,
                  methodToolsList, methodToolsCall
    <2> QED
      BY <1>2, <2>1, DispatchSelects DEF Follows, isAccepted
  <1>3. CASE req.method = methodDiscover
    <2>1. Encodable(gen, DiscoverResult)
      BY DEF Encodable, DiscoverResult
    <2> QED
      BY <1>3, <2>1, DispatchSelects, ResultFollows
  <1>4. CASE req.method = methodToolsList
    <2>1. Encodable(gen, ListToolsResult)
      BY DEF Encodable, ListToolsResult
    <2> QED
      BY <1>4, <2>1, DispatchSelects, ResultFollows
  <1>5. CASE req.method = methodToolsCall
    BY <1>5, DispatchSelects, ToolCallFollows
  <1>6. req.method \in {methodInitialize, methodNotificationsInitialized, methodDiscover,
                        methodToolsList, methodToolsCall}
    BY DEF serves, modernMethods, legacyMethods
  <1> QED
    BY <1>1, <1>2, <1>3, <1>4, <1>5, <1>6

-----------------------------------------------------------------------------
(* The handler on the body of this call.                                    *)

\* Bytes that encode a body encode no other.
LEMMA WholeInjective == \A a, b : Whole(a) = Whole(b) => a = b
  <1> SUFFICES ASSUME NEW a, NEW b, Whole(a) = Whole(b) PROVE a = b
    OBVIOUS
  <1>1. BodyParts \in Nat \ {0}
    BY Zenon, HandlerAssumption
  <1>2. 1 \in 1 .. BodyParts
    BY <1>1
  <1>3. Whole(a)[1] = [of |-> a, part |-> 1] /\ Whole(b)[1] = [of |-> b, part |-> 1]
    BY <1>2 DEF Whole
  <1>4. [of |-> a, part |-> 1].of = [of |-> b, part |-> 1].of
    BY <1>3
  <1> QED
    BY <1>4

\* A body is decoded from its own bytes; one that is no request is refused before any
\* era is resolved.
LEMMA HandlerDecodes ==
    ASSUME NEW b \in RequestBodies, NEW h
    PROVE  /\ b.kind = "request" => mcpRequestHandler(Whole(b), h) = handleRequest(b, h)
           /\ b.kind # "request" =>
                \E code \in {ParseError, InvalidRequest} :
                   mcpRequestHandler(Whole(b), h) = errorResponse(Legacy, NoId, code)
  <1>1. CASE b.kind = "garbage"
    <2>1. ~ \E m \in RequestBodies : decodesTo(Whole(b), m)
      BY <1>1, WholeInjective DEF decodesTo
    <2> QED
      BY <1>1, <2>1 DEF mcpRequestHandler
  <1>2. CASE b.kind # "garbage"
    <2>1. \A m \in RequestBodies : decodesTo(Whole(b), m) <=> m = b
      BY <1>2, WholeInjective DEF decodesTo
    <2>2. (CHOOSE m \in RequestBodies : decodesTo(Whole(b), m)) = b
      BY <2>1
    <2>3. \E m \in RequestBodies : decodesTo(Whole(b), m)
      BY <2>1
    <2>4. mcpRequestHandler(Whole(b), h) =
             (IF b.kind # "request" THEN errorResponse(Legacy, NoId, InvalidRequest)
              ELSE handleRequest(b, h))
      BY <2>2, <2>3 DEF mcpRequestHandler
    <2> QED
      BY <2>4
  <1> QED
    BY <1>1, <1>2

\* The era a client's requests speak.
eraOf == IF speaksModern THEN Modern ELSE Legacy
\* What the handler makes of the request,
handled == mcpRequestHandler(Whole(body), hdrs)
\* and the era that resolveEra gives it.
resolved == resolveEra(body.method, metaProtocolVersion(body.params), hdrs.protocolVersion)

\* A body that is no request is refused before any era is resolved.
LEMMA HandledByKind ==
    ASSUME body \in RequestBodies
    PROVE  /\ body.kind = "request" => handled = handleRequest(body, hdrs)
           /\ body.kind # "request" =>
                \E code \in {ParseError, InvalidRequest} : handled = errorResponse(Legacy, NoId, code)
  BY HandlerDecodes DEF handled

\* The era the processor resolves is the one the client can tell.
LEMMA ResolvedEra == body.kind = "request" => resolved.era = eraOf
  BY DEF resolved, eraOf, resolveEra, speaksModern

\* The handler answers in the era of the request.
LEMMA HandledFollows ==
    ASSUME body \in RequestBodies
    PROVE  Follows(handled, eraOf)
  <1>1. CASE body.kind # "request"
    <2>1. PICK code \in {ParseError, InvalidRequest} : handled = errorResponse(Legacy, NoId, code)
      BY <1>1, HandledByKind
    <2>2. eraOf = Legacy
      BY <1>1 DEF eraOf, speaksModern
    <2>3. code \in codesOf(Legacy)
      BY DEF codesOf
    <2> QED
      BY <2>1, <2>2, <2>3, ErrorFollows
  <1>2. CASE body.kind = "request"
    <2>1. handled = handleRequest(body, hdrs) /\ resolved.era = eraOf
      BY <1>2, HandledByKind, ResolvedEra
    <2>2. eraOf \in Eras /\ servedCodes \subseteq codesOf(eraOf)
      BY DEF eraOf, Eras, codesOf
    <2>3. \/ \E code \in servedCodes : handled = errorResponse(eraOf, body.id, code)
          \/ serves(eraOf, body.method) /\ handled = dispatch(eraOf, body, hdrs)
      BY <2>1 DEF handleRequest, resolved, servedCodes
    <2> QED
      BY <2>2, <2>3, ErrorFollows, DispatchFollows
  <1> QED
    BY <1>1, <1>2

\* A request that speaks modern gets past the checks only with the one modern
\* version in its header and its body.
LEMMA ModernAgrees ==
    ASSUME body \in RequestBodies, speaksModern
    PROVE  \/ hdrs.protocolVersion = v20260728 /\ body.params.meta = v20260728
           \/ \E id, code : /\ code \in {UnsupportedProtocolVersion, HeaderMismatch, MethodNotFound}
                            /\ handled = errorResponse(Modern, id, code)
  <1> DEFINE declared == metaProtocolVersion(body.params)
  <1>1. body.kind = "request" /\ handled = handleRequest(body, hdrs) /\ resolved.era = Modern
    BY HandledByKind, ResolvedEra DEF speaksModern, eraOf
  <1>2. \/ \E code \in {UnsupportedProtocolVersion, HeaderMismatch, MethodNotFound} :
              handled = errorResponse(Modern, body.id, code)
        \/ resolved.ok /\ validateHeaders(Modern, body, declared, hdrs)
    BY <1>1 DEF handleRequest, resolved
  <1>3. ASSUME resolved.ok, validateHeaders(Modern, body, declared, hdrs)
        PROVE  hdrs.protocolVersion = v20260728 /\ body.params.meta = v20260728
    <2>1. hdrs.protocolVersion = declared /\ declared # EmptyVersion
      BY <1>3 DEF validateHeaders, validateModernHeaders
    <2>2. declared = body.params.meta
      BY <2>1 DEF metaProtocolVersion
    <2>3. isSupportedVersion(declared) /\ isModernVersion(declared)
      BY <1>1, <1>3, <2>1 DEF resolved, resolveEra, speaksModern
    <2>4. declared \in {v20260728, v20251125, v20250618}
      BY <2>3 DEF isSupportedVersion, supportedProtocolVersions
    <2>5. declared = v20260728
      BY <2>3, <2>4 DEF isModernVersion, firstModernVersion, v20260728, v20251125, v20250618
    <2> QED
      BY <2>1, <2>2, <2>5
  <1> QED
    BY <1>2, <1>3

-----------------------------------------------------------------------------
(* The one call.                                                            *)

\* The inductive invariant: the result is what the handler makes of this body.
RInv == body \in RequestBodies /\ (result = NotCalled \/ result = handled)

\* Before the call there is no result.
LEMMA InitRInv == HandlingInit => RInv
  BY DEF HandlingInit, RInv

\* The call stores what the handler returns.
LEMMA NextRInv == RInv /\ [Handle]_handlingVars => RInv'
  BY DEF RInv, Handle, handlingVars, handled

\* The result is the initial one or what the handler returns for the body.
LEMMA HandlingInvariance == HandlingSpec => []RInv
  <1> QED
    BY InitRInv, NextRInv, PTL DEF HandlingSpec

\* An immediate response is the message before which the headers are answered.
LEMMA ImmediatesOf ==
    ASSUME NEW status, NEW content, NEW form,
           result.Immediate = immediateResponse(ImmediateResponse(status, content))
    PROVE  immediates(form) =
             {r \in {ImmediateResponse(status, content)} : content.form = form}
  <1> DEFINE x == ImmediateResponse(status, content)
             y == HeadersResponse("request", EmptyMutation, NoBody)
  <1>1. x.type = "immediate" /\ x.body = content /\ y.type = "headers"
    BY DEF ImmediateResponse, HeadersResponse
  <1>2. result.Immediate = <<y, x>>
    BY DEF immediateResponse
  <1> HIDE DEF x, y
  <1>3. {result.Immediate[i] : i \in DOMAIN result.Immediate} = {y, x}
    BY <1>2
  <1>4. immediates(form) = {r \in {y, x} : r.type = "immediate" /\ r.body.form = form}
    BY <1>3 DEF immediates
  <1>5. immediates(form) = {r \in {x} : content.form = form}
    BY <1>1, <1>4
  <1> QED
    BY <1>5 DEF x

\* A rerouted request has no immediate response.
LEMMA NoImmediates ==
    ASSUME NEW form, result.Immediate = <<>>
    PROVE  immediates(form) = {}
  BY DEF immediates

\* What immediate responses a call in each form leaves.
LEMMA ErrorImmediates ==
    ASSUME NEW gen, NEW id, NEW code, result = errorResponse(gen, id, code)
    PROVE  /\ immediates("error") = {ImmediateResponse(errorStatus(gen, code), JsonRpcError(id, code))}
           /\ immediates("result") = {}
           /\ result.Reroute = NoReroute
  <1>1. result.Immediate =
          immediateResponse(ImmediateResponse(errorStatus(gen, code), JsonRpcError(id, code)))
    BY DEF errorResponse, Answer, newImmediateBodyResponseWithStatus
  <1>2. JsonRpcError(id, code).form = "error"
    BY DEF JsonRpcError
  <1>3. result.Reroute = NoReroute
    BY DEF errorResponse, Answer
  <1> QED
    BY <1>1, <1>2, <1>3, ImmediatesOf

\* The immediate response of a result carries that result, with status 200.
LEMMA ResultImmediates ==
    ASSUME NEW id, NEW env, result = Answer(id, newImmediateBodyResponse(JsonRpcResult(id, env)))
    PROVE  /\ immediates("error") = {}
           /\ immediates("result") = {ImmediateResponse(200, JsonRpcResult(id, env))}
           /\ result.Reroute = NoReroute
  <1>1. result.Immediate = immediateResponse(ImmediateResponse(200, JsonRpcResult(id, env)))
    BY DEF Answer, newImmediateBodyResponse, newImmediateBodyResponseWithStatus
  <1>2. JsonRpcResult(id, env).form = "result"
    BY DEF JsonRpcResult
  <1>3. result.Reroute = NoReroute
    BY DEF Answer
  <1> QED
    BY <1>1, <1>2, <1>3, ImmediatesOf

\* An accepted notification leaves no response with a body in either form.
LEMMA AcceptedImmediates ==
    ASSUME NEW id, result = Answer(id, httpStatusResponse(202))
    PROVE  /\ immediates("error") = {}
           /\ immediates("result") = {}
           /\ result.Reroute = NoReroute
  <1>1. result.Immediate = immediateResponse(ImmediateResponse(202, NoBody))
    BY DEF Answer, httpStatusResponse
  <1>2. NoBody.form = "none"
    BY DEF NoBody
  <1>3. result.Reroute = NoReroute
    BY DEF Answer
  <1> QED
    BY <1>1, <1>2, <1>3, ImmediatesOf

\* Every state, by the kind of its result.
LEMMA ResultKinds ==
    ASSUME RInv
    PROVE  \/ result = NotCalled /\ \A form : immediates(form) = {}
           \/ \E id, code : code \in codesOf(eraOf) /\ result = errorResponse(eraOf, id, code)
           \/ \E id, env : /\ env.stamped = (eraOf = Modern)
                           /\ result = Answer(id, newImmediateBodyResponse(JsonRpcResult(id, env)))
           \/ \E id : eraOf = Legacy /\ result = Answer(id, httpStatusResponse(202))
           \/ result.Era = eraOf /\ \A form : immediates(form) = {}
  <1>1. CASE result = NotCalled
    <2>1. result.Immediate = <<>>
      BY <1>1 DEF NotCalled, Answer
    <2> QED
      BY <1>1, <2>1, NoImmediates
  <1>2. CASE result = handled
    <2>1. Follows(result, eraOf)
      BY <1>2, HandledFollows DEF RInv
    <2> QED
      BY <2>1, NoImmediates DEF Follows, isError, isResultOf, isAccepted, isReroute
  <1> QED
    BY <1>1, <1>2 DEF RInv

\* Nothing is rerouted before the call.
LEMMA NotCalledReroute == NotCalled.Reroute = NoReroute
  BY DEF NotCalled, Answer

-----------------------------------------------------------------------------
(* The theorems.                                                            *)

\* No request that a client can send makes the handler answer with an internal
\* error (encodeResult's refusal in mcp.go is never reached).
THEOREM NoInternalError == HandlingSpec => []NeverInternalError
  <1>1. ASSUME RInv PROVE NeverInternalError
    <2>1. \A code \in codesOf(eraOf) : code # InternalError
      BY DEF codesOf, servedCodes, UnsupportedProtocolVersion, HeaderMismatch, InvalidParams,
             MethodNotFound, ParseError, InvalidRequest, InternalError
    <2>2. ASSUME NEW id, NEW code \in codesOf(eraOf), result = errorResponse(eraOf, id, code)
          PROVE  NeverInternalError
      <3>1. ImmediateResponse(errorStatus(eraOf, code), JsonRpcError(id, code)).body.code = code
        BY DEF ImmediateResponse, JsonRpcError
      <3> QED
        BY <2>1, <2>2, <3>1, ErrorImmediates DEF NeverInternalError
    <2> QED
      BY <1>1, <2>2, ResultKinds, ResultImmediates, AcceptedImmediates DEF NeverInternalError
  <1> QED
    BY <1>1, HandlingInvariance, PTL

\* A client is served in the era it speaks, and a modern one only with a header
\* and a body that agree on the version (resolveEra and validateHeaders).
THEOREM ErasApart == HandlingSpec => []ErasNeverMix
  <1>1. ASSUME RInv PROVE ErasNeverMix
    <2>1. (eraOf = Modern) = speaksModern
      <3>1. speaksModern \in BOOLEAN
        BY DEF speaksModern
      <3>2. eraOf = Modern <=> speaksModern
        BY DEF eraOf, Modern, Legacy
      <3> QED
        BY <3>1, <3>2
    <2>2. result.Reroute # NoReroute => result.Era = eraOf
      BY <1>1, ResultKinds, ErrorImmediates, ResultImmediates, AcceptedImmediates, NotCalledReroute
    <2>3. \A r \in immediates("result") : r.body.envelope.stamped = speaksModern
      <3>1. ASSUME NEW id, NEW env, env.stamped = (eraOf = Modern),
                   result = Answer(id, newImmediateBodyResponse(JsonRpcResult(id, env)))
            PROVE  \A r \in immediates("result") : r.body.envelope.stamped = speaksModern
        <4>1. ImmediateResponse(200, JsonRpcResult(id, env)).body.envelope = env
          BY DEF ImmediateResponse, JsonRpcResult
        <4> QED
          BY <2>1, <3>1, <4>1, ResultImmediates
      <3> QED
        BY <1>1, <3>1, ResultKinds, ErrorImmediates, AcceptedImmediates
    <2>4. ASSUME Done, speaksModern
          PROVE  \/ hdrs.protocolVersion = v20260728 /\ body.params.meta = v20260728
                 \/ \E r \in immediates("error") : r.status \in {400, 404}
      <3>1. result = handled /\ body \in RequestBodies
        BY <1>1, <2>4 DEF RInv, Done
      <3>2. ASSUME NEW id,
                   NEW code \in {UnsupportedProtocolVersion, HeaderMismatch, MethodNotFound},
                   result = errorResponse(Modern, id, code)
            PROVE  \E r \in immediates("error") : r.status \in {400, 404}
        <4>1. errorStatus(Modern, code) \in {400, 404}
          BY DEF errorStatus
        <4>2. ImmediateResponse(errorStatus(Modern, code), JsonRpcError(id, code)).status
                = errorStatus(Modern, code)
          BY DEF ImmediateResponse
        <4> QED
          BY <3>2, <4>1, <4>2, ErrorImmediates
      <3> QED
        BY <2>4, <3>1, <3>2, ModernAgrees
    <2> QED
      BY <2>2, <2>3, <2>4 DEF ErasNeverMix, eraOf
  <1> QED
    BY <1>1, HandlingInvariance, PTL

\* A protocol error travels in a 200 exactly when the client speaks legacy
\* (errorStatus).
THEOREM ErrorStatuses == HandlingSpec => []ErrorStatusFollowsEra
  <1>1. ASSUME RInv PROVE ErrorStatusFollowsEra
    <2>1. (eraOf = Legacy) = ~speaksModern /\ eraOf \in Eras
      BY DEF eraOf, Modern, Legacy, Eras
    <2>2. ASSUME NEW id, NEW code \in codesOf(eraOf), result = errorResponse(eraOf, id, code)
          PROVE  ErrorStatusFollowsEra
      <3>1. (errorStatus(eraOf, code) = 200) = (eraOf = Legacy)
        <4>1. CASE eraOf = Legacy
          BY <4>1 DEF errorStatus, Legacy, Modern
        <4>2. CASE eraOf = Modern
          <5>1. code \in servedCodes
            BY <4>2 DEF codesOf, Legacy, Modern
          <5>2. errorStatus(Modern, code) \in {400, 404}
            BY <5>1 DEF errorStatus, servedCodes
          <5>3. Modern # Legacy
            BY DEF Modern, Legacy
          <5> QED
            BY <4>2, <5>2, <5>3
        <4> QED
          BY <2>1, <4>1, <4>2 DEF Eras
      <3>2. ImmediateResponse(errorStatus(eraOf, code), JsonRpcError(id, code)).status
              = errorStatus(eraOf, code)
        BY DEF ImmediateResponse
      <3> QED
        BY <2>1, <2>2, <3>1, <3>2, ErrorImmediates DEF ErrorStatusFollowsEra
    <2> QED
      BY <1>1, <2>2, ResultKinds, ResultImmediates, AcceptedImmediates DEF ErrorStatusFollowsEra
  <1> QED
    BY <1>1, HandlingInvariance, PTL

-----------------------------------------------------------------------------
(* Sessions: what a client was told in one answer holds for its next request. *)

\* The answer to a request of a session.
answerTo(p, v, e) == mcpRequestHandler(Whole(SessionRequest(p, v, e)), SessionHeaders(p, v, e))

\* The versions that a session can agree on.
LEMMA Agreeable ==
    agreeable(Modern) = {v20260728} /\ agreeable(Legacy) = {v20250618, v20251125}
  <1>1. Range(supportedProtocolVersions) = {v20260728, v20251125, v20250618}
    BY DEF supportedProtocolVersions, Range
  <1>2. /\ v20260728 >= v20260728 /\ ~(v20251125 >= v20260728) /\ ~(v20250618 >= v20260728)
    BY SMT DEF v20260728, v20251125, v20250618
  <1>3. isModernVersion(v20260728) /\ ~isModernVersion(v20251125) /\ ~isModernVersion(v20250618)
    BY <1>2 DEF isModernVersion, firstModernVersion
  <1>4. Modern # Legacy
    BY DEF Modern, Legacy
  <1> QED
    BY <1>1, <1>3, <1>4 DEF agreeable

\* A session's request that is served gets to the switch on the method.
LEMMA SessionServed ==
    ASSUME NEW p, NEW v, NEW e \in Eras, SessionRequest(p, v, e) \in RequestBodies,
           serves(e, methodOf(p)),
           \/ p \in {"initialize", "initialized"} /\ e = Legacy
           \/ p \in {"list", "call"} /\ v \in agreeable(e)
    PROVE  answerTo(p, v, e) = dispatch(e, SessionRequest(p, v, e), SessionHeaders(p, v, e))
  <1> DEFINE req  == SessionRequest(p, v, e)
             h    == SessionHeaders(p, v, e)
             meta == metaProtocolVersion(req.params)
             r    == resolveEra(req.method, meta, h.protocolVersion)
  <1>1. req.kind = "request" /\ req.method = methodOf(p) /\ req.params.shape = "object"
        /\ req.params.meta = (IF e = Modern THEN v ELSE EmptyVersion)
        /\ req.params.name = (IF p = "call" THEN "tool" ELSE "")
    BY DEF SessionRequest
  <1>2. h.protocolVersion = (IF p = "initialize" THEN EmptyVersion ELSE v)
        /\ h.method = (IF e = Modern THEN methodOf(p) ELSE "")
        /\ h.name = (IF e = Modern /\ p = "call" THEN "tool" ELSE "")
        /\ h.enc = "plain"
    BY DEF SessionHeaders
  <1>3. meta = (IF e = Modern THEN v ELSE EmptyVersion)
    BY <1>1 DEF metaProtocolVersion
  <1>4. answerTo(p, v, e) = handleRequest(req, h)
    BY <1>1, HandlerDecodes DEF answerTo
  <1> HIDE DEF req, h, meta
  <1>5. r.era = e /\ r.ok
    <2>1. CASE p \in {"initialize", "initialized"}
      <3>1. req.method \in {methodInitialize, methodNotificationsInitialized} /\ e = Legacy
        BY <1>1, <2>1 DEF methodOf
      <3> QED
        BY <3>1 DEF resolveEra
    <2>2. CASE p \in {"list", "call"} /\ e = Legacy
      <3>1. v \in {v20250618, v20251125} /\ ~isModernVersion(v)
        BY SMT, <2>2, Agreeable DEF isModernVersion, firstModernVersion, v20250618, v20251125, v20260728
      <3>2. ~isModernVersion(EmptyVersion)
        BY SMT DEF isModernVersion, firstModernVersion, v20260728, EmptyVersion
      <3>3. meta = EmptyVersion /\ h.protocolVersion = v
        BY <1>2, <1>3, <2>2 DEF Legacy, Modern
      <3> QED
        BY <2>2, <3>1, <3>2, <3>3 DEF resolveEra
    <2>3. CASE p \in {"list", "call"} /\ e = Modern
      <3>1. v = v20260728 /\ isModernVersion(v) /\ isSupportedVersion(v)
        <4>1. v = v20260728
          BY <2>3, Agreeable
        <4>2. v20260728 >= v20260728
          BY SMT DEF v20260728
        <4>3. 1 \in DOMAIN supportedProtocolVersions /\ supportedProtocolVersions[1] = v20260728
          BY DEF supportedProtocolVersions
        <4> QED
          BY <4>1, <4>2, <4>3 DEF isModernVersion, firstModernVersion, isSupportedVersion
      <3>2. req.method \notin {methodInitialize, methodNotificationsInitialized}
        BY <1>1, <2>3 DEF methodOf, methodInitialize, methodNotificationsInitialized, methodToolsList, methodToolsCall
      <3>3. meta = v
        BY <1>3, <2>3
      <3> QED
        BY <2>3, <3>1, <3>2, <3>3 DEF resolveEra
    <2> QED
      BY <2>1, <2>2, <2>3 DEF Eras
  <1>6. validateHeaders(e, req, meta, h)
    <2>1. SUFFICES ASSUME e = Modern PROVE validateModernHeaders(req, meta, h)
      BY DEF validateHeaders
    <2>2. p \in {"list", "call"} /\ v = v20260728
      BY <2>1, Agreeable DEF Legacy, Modern
    <2>3. h.protocolVersion = v /\ meta = v /\ v # EmptyVersion
      <3>1. v20260728 # EmptyVersion
        BY SMT DEF v20260728, EmptyVersion
      <3> QED
        BY <1>2, <1>3, <2>1, <2>2, <3>1
    <2>4. h.method = req.method /\ h.method # ""
      BY <1>1, <1>2, <2>1, <2>2 DEF methodOf, methodToolsList, methodToolsCall
    <2>5. req.method = methodToolsCall => p = "call"
      BY <1>1, <2>2 DEF methodOf, methodToolsList, methodToolsCall
    <2>6. p = "call" =>
            /\ ~nameMissing(h) /\ decodeHeaderValue(h).ok /\ decodesName(req.params)
            /\ req.params.name # "" /\ decodeHeaderValue(h).value = req.params.name
      BY <1>1, <1>2, <2>1 DEF nameMissing, decodeHeaderValue, decodesName
    <2> QED
      BY <2>3, <2>4, <2>5, <2>6 DEF validateModernHeaders
  <1>7. handleRequest(req, h) = dispatch(e, req, h)
    <2>1. serves(r.era, req.method)
      BY <1>1, <1>5
    <2> HIDE DEF r
    <2>2. r = resolveEra(req.method, metaProtocolVersion(req.params), h.protocolVersion)
      BY DEF r, meta
    <2> QED
      BY <1>5, <1>6, <2>1, <2>2 DEF handleRequest, meta
  <1> QED
    BY <1>4, <1>7 DEF req, h

\* Each method is served in the eras that sessions use it in.
LEMMA SessionMethods ==
    /\ methodOf("initialize") = methodInitialize /\ methodOf("initialized") = methodNotificationsInitialized
    /\ methodOf("list") = methodToolsList /\ methodOf("call") = methodToolsCall
    /\ serves(Legacy, methodInitialize) /\ serves(Legacy, methodNotificationsInitialized)
    /\ \A e \in Eras : serves(e, methodToolsList) /\ serves(e, methodToolsCall)
  <1>1. /\ methodOf("initialize") = methodInitialize
        /\ methodOf("initialized") = methodNotificationsInitialized
        /\ methodOf("list") = methodToolsList /\ methodOf("call") = methodToolsCall
    BY DEF methodOf
  <1>2. serves(Legacy, methodInitialize) /\ serves(Legacy, methodNotificationsInitialized)
    BY DEF serves, legacyMethods, Legacy, Modern
  <1>3. \A e \in Eras : serves(e, methodToolsList) /\ serves(e, methodToolsCall)
    BY DEF serves, legacyMethods, modernMethods
  <1> QED
    BY <1>1, <1>2, <1>3

\* The answers that a session counts on.
LEMMA SessionAnswers ==
    ASSUME NEW e \in Eras, NEW v
    PROVE  /\ SessionRequest("initialize", v, Legacy) \in RequestBodies =>
                answerTo("initialize", v, Legacy) =
                   resultResponse(Legacy, "1", InitializeResult(negotiateLegacyVersion(v)))
           /\ v \in agreeable(Legacy) =>
                answerTo("initialized", v, Legacy) = Answer(NoId, httpStatusResponse(202))
           /\ v \in agreeable(e) => answerTo("list", v, e) = resultResponse(e, "1", ListToolsResult)
           /\ v \in agreeable(e) => answerTo("call", v, e).Reroute # NoReroute /\ answerTo("call", v, e).Era = e
  <1>1. Legacy \in Eras
    BY DEF Eras
  <1>2. \A p, x : LET req == SessionRequest(p, v, x)
                 IN  /\ req.method = methodOf(p)
                     /\ req.id = (IF p = "initialized" THEN NoId ELSE "1")
                     /\ req.params.shape = "object" /\ req.params.version = v
                     /\ req.params.args = "valid"
                     /\ req.params.name = (IF p = "call" THEN "tool" ELSE "")
    BY DEF SessionRequest
  <1>3. ASSUME SessionRequest("initialize", v, Legacy) \in RequestBodies
        PROVE  answerTo("initialize", v, Legacy) =
                   resultResponse(Legacy, "1", InitializeResult(negotiateLegacyVersion(v)))
    <2>1. PICK req, h : req = SessionRequest("initialize", v, Legacy) /\ h = SessionHeaders("initialize", v, Legacy)
      OBVIOUS
    <2>2. answerTo("initialize", v, Legacy) = dispatch(Legacy, req, h)
      BY <1>1, <1>3, <2>1, SessionMethods, SessionServed
    <2>3. req.method = methodInitialize /\ req.id = "1" /\ req.params.version = v
          /\ decodesInitialize(req.params)
      BY <1>2, <2>1, SessionMethods DEF decodesInitialize
    <2>4. dispatch(Legacy, req, h) = handleInitialize(Legacy, req)
      BY <2>3, DispatchSelects
    <2> QED
      BY <2>2, <2>3, <2>4 DEF handleInitialize
  <1>4. ASSUME v \in agreeable(Legacy)
        PROVE  answerTo("initialized", v, Legacy) = Answer(NoId, httpStatusResponse(202))
    <2>1. PICK req, h : req = SessionRequest("initialized", v, Legacy) /\ h = SessionHeaders("initialized", v, Legacy)
      OBVIOUS
    <2>2. answerTo("initialized", v, Legacy) = dispatch(Legacy, req, h)
      BY <1>1, <1>4, <2>1, SessionMethods, SessionServed, SessionAssumption
    <2>3. req.method = methodNotificationsInitialized /\ req.id = NoId
      BY <1>2, <2>1, SessionMethods
    <2> QED
      BY <2>2, <2>3, DispatchSelects
  <1>5. ASSUME v \in agreeable(e)
        PROVE  answerTo("list", v, e) = resultResponse(e, "1", ListToolsResult)
    <2>1. PICK req, h : req = SessionRequest("list", v, e) /\ h = SessionHeaders("list", v, e)
      OBVIOUS
    <2>2. answerTo("list", v, e) = dispatch(e, req, h)
      BY <1>5, <2>1, SessionMethods, SessionServed, SessionAssumption
    <2>3. req.method = methodToolsList /\ req.id = "1"
      BY <1>2, <2>1, SessionMethods
    <2> QED
      BY <2>2, <2>3, DispatchSelects
  <1>6. ASSUME v \in agreeable(e)
        PROVE  answerTo("call", v, e).Reroute # NoReroute /\ answerTo("call", v, e).Era = e
    <2>1. PICK req, h : req = SessionRequest("call", v, e) /\ h = SessionHeaders("call", v, e)
      OBVIOUS
    <2>2. answerTo("call", v, e) = dispatch(e, req, h)
      BY <1>6, <2>1, SessionMethods, SessionServed, SessionAssumption
    <2>3. req.method = methodToolsCall /\ req.params.shape = "object" /\ req.params.args = "valid"
          /\ req.params.name = "tool"
      BY <1>2, <2>1, SessionMethods
    <2>4. dispatch(e, req, h) = handleToolCall(e, req, h.paramHeaderNames)
      BY <2>3, DispatchSelects
    <2> DEFINE params == req.params
               a == [Id |-> req.id, Immediate |-> <<>>,
                     Reroute |-> rerouteWithBodyMutation(Endpoint(params.name, params), h.paramHeaderNames),
                     ToolResponseConfig |-> params.name, Era |-> e]
    <2>5. decodesCall(params) /\ params.name \in Tools /\ params.args # "rejected"
      BY <2>3, SessionAssumption DEF decodesCall
    <2>6. handleToolCall(e, req, h.paramHeaderNames) = a
      BY <2>5 DEF handleToolCall
    <2>7. a.Era = e /\ a.Reroute.body.form = "endpoint"
      BY DEF rerouteWithBodyMutation, Endpoint
    <2>8. NoReroute.body.form = "none"
      BY DEF NoReroute, NoBody
    <2> QED
      BY <2>2, <2>4, <2>6, <2>7, <2>8
  <1> QED
    BY <1>3, <1>4, <1>5, <1>6

\* The inductive invariant of a session: a request is only made with a version that
\* is its client's newest or was agreed on in that era, and the answer under way is
\* the one to the request of this phase.
SessionInv ==
    /\ client \in Clients /\ era \in Eras
    /\ phase \in {"discover", "initialize", "initialized", "list", "call", "ready", "incompatible"}
    /\ phase = "discover" => era = Modern
    /\ phase \in {"initialize", "initialized"} => era = Legacy
    /\ phase = "initialize" => version = newest(client.legacy \cup client.modern)
    /\ phase \in {"initialized", "list", "call"} => version \in agreeable(era)
    /\ answer = NoAnswer \/ answer = answerTo(phase, version, era)

\* The handshake settles on a legacy version that the processor supports.
LEMMA NegotiatedIsLegacy == \A v : negotiateLegacyVersion(v) \in agreeable(Legacy)
  <1> SUFFICES ASSUME NEW v PROVE negotiateLegacyVersion(v) \in {v20250618, v20251125}
    BY Agreeable
  <1>1. CASE isSupportedVersion(v) /\ ~isModernVersion(v)
    <2>1. v \in {v20260728, v20251125, v20250618}
      BY <1>1 DEF isSupportedVersion, supportedProtocolVersions
    <2>2. v # v20260728
      BY <1>1 DEF isModernVersion, firstModernVersion, v20260728
    <2> QED
      BY <1>1, <2>1, <2>2 DEF negotiateLegacyVersion
  <1>2. CASE ~(isSupportedVersion(v) /\ ~isModernVersion(v))
    BY <1>2 DEF negotiateLegacyVersion, latestLegacyVersion
  <1> QED
    BY <1>1, <1>2

\* The only modern version that a client shares with the processor.
LEMMA SharedVersion ==
    ASSUME NEW c \in Clients, NEW shared,
           shared = c.modern \cap {supportedProtocolVersions[i] : i \in DOMAIN supportedProtocolVersions},
           shared # {}
    PROVE  newest(shared) = v20260728
  <1>1. \A v \in shared : v \in {v20260728, v20251125, v20250618} /\ isModernVersion(v)
    <2>1. \A i \in DOMAIN supportedProtocolVersions :
             supportedProtocolVersions[i] \in {v20260728, v20251125, v20250618}
      BY DEF supportedProtocolVersions
    <2>2. \A v \in c.modern : isModernVersion(v)
      BY SessionAssumption
    <2> QED
      BY <2>1, <2>2
  <1>2. shared = {v20260728}
    BY <1>1 DEF isModernVersion, firstModernVersion, v20260728, v20251125, v20250618
  <1> QED
    BY <1>2 DEF newest, Max, v20260728

\* What a client reads in an answer that is a result.
LEMMA ResultReply ==
    ASSUME NEW e \in Eras, NEW id, NEW payload, NEW a, a = resultResponse(e, id, payload),
           payload.of \in {"tools"} \/ e = Legacy
    PROVE  /\ a.Reroute = NoReroute
           /\ a.Immediate[Len(a.Immediate)].body.form = "result"
           /\ a.Immediate[Len(a.Immediate)].body.envelope.stamped = (e = Modern)
           /\ a.Immediate[Len(a.Immediate)].body.envelope.result = payload
  <1> DEFINE x == encodeResult(e, payload)
             b == JsonRpcResult(id, x)
             im == ImmediateResponse(200, b)
             s == <<HeadersResponse("request", EmptyMutation, NoBody), im>>
  <1>1. x.ok /\ x.stamped = (e = Modern) /\ x.result = payload
    BY DEF encodeResult, Cacheables, Eras, Legacy, Modern
  <1>2. a = Answer(id, newImmediateBodyResponse(b))
    BY <1>1 DEF resultResponse
  <1>3. newImmediateBodyResponse(b) = s
    BY DEF newImmediateBodyResponse, newImmediateBodyResponseWithStatus, immediateResponse
  <1>4. b.form = "result" /\ b.envelope = x
    BY DEF JsonRpcResult
  <1>5. im.body = b
    BY DEF ImmediateResponse
  <1> HIDE DEF x, b, im
  <1>6. Len(s) = 2 /\ s[2] = im
    OBVIOUS
  <1> HIDE DEF s
  <1>7. a.Reroute = NoReroute /\ a.Immediate = s
    BY <1>2, <1>3 DEF Answer
  <1> QED
    BY <1>1, <1>4, <1>5, <1>6, <1>7

\* A session begins with its client's newest version.
LEMMA SessionInitHolds == SessionInit => SessionInv
  BY DEF SessionInit, SessionInv, Eras

\* Falling back to the handshake.
LEMMA HandshakeKeeps ==
    ASSUME SessionInv, Handshake, answer' = NoAnswer, client' = client
    PROVE  SessionInv'
  <1>1. CASE client.legacy = {}
    BY <1>1 DEF SessionInv, Handshake
  <1>2. CASE client.legacy # {}
    <2>1. phase' = "initialize" /\ version' = newest(client'.legacy \cup client'.modern) /\ era' = Legacy
      BY <1>2 DEF Handshake
    <2> QED
      BY <2>1 DEF SessionInv, Eras
  <1> QED
    BY <1>1, <1>2

\* Discover, or the refusal of a version, tells the client the one modern version.
LEMMA DiscoveredKeeps ==
    ASSUME SessionInv, Discovered
    PROVE  SessionInv'
  <1>1. client' = client /\ answer' = NoAnswer /\ phase = "discover" /\ client \in Clients /\ era = Modern
    BY DEF SessionInv, Discovered, Receives
  <1> DEFINE shared == client.modern \cap {supportedProtocolVersions[i] : i \in DOMAIN supportedProtocolVersions}
  <1>2. \/ Handshake
        \/ shared # {} /\ phase' = "list" /\ version' = newest(shared) /\ era' = era
    BY DEF Discovered
  <1>3. ASSUME shared # {}, phase' = "list", version' = newest(shared), era' = era
        PROVE  SessionInv'
    <2>1. version' = v20260728
      BY <1>1, <1>3, SharedVersion
    <2>2. version' \in agreeable(era')
      BY <1>1, <1>3, <2>1, Agreeable
    <2> QED
      BY <1>1, <1>3, <2>2 DEF SessionInv, Eras, Modern
  <1> QED
    BY <1>1, <1>2, <1>3, HandshakeKeeps

\* The handshake settles on a version that the processor serves as a legacy one.
LEMMA InitializedKeeps ==
    ASSUME SessionInv, Initialized
    PROVE  SessionInv'
  <1>1. /\ client' = client /\ answer' = NoAnswer /\ answer # NoAnswer /\ phase = "initialize"
        /\ client \in Clients /\ era = Legacy /\ era' = era
        /\ version = newest(client.legacy \cup client.modern)
    BY DEF SessionInv, Initialized, Receives
  <1>2. answer = resultResponse(Legacy, "1", InitializeResult(negotiateLegacyVersion(version)))
    <2>1. answer = answerTo("initialize", version, Legacy)
      BY <1>1 DEF SessionInv
    <2>2. SessionRequest("initialize", version, Legacy) \in RequestBodies
      BY <1>1, SessionAssumption
    <2> QED
      BY <1>1, <2>1, <2>2, SessionAnswers DEF SessionInv
  <1>3. reply.body.envelope.result.version \in agreeable(Legacy)
    <2>1. PICK payload : payload = InitializeResult(negotiateLegacyVersion(version))
      OBVIOUS
    <2>2. payload.version \in agreeable(Legacy)
      BY <2>1, NegotiatedIsLegacy DEF InitializeResult
    <2>3. reply.body.envelope.result = payload
      BY <1>2, <2>1, ResultReply DEF reply, Eras
    <2> QED
      BY <2>2, <2>3
  <1>4. \/ phase' = "initialized" /\ version' = reply.body.envelope.result.version
        \/ phase' = "incompatible"
    BY DEF Initialized
  <1> QED
    BY <1>1, <1>3, <1>4 DEF SessionInv, Eras

\* The notification that ends the handshake is accepted.
LEMMA AcknowledgedKeeps ==
    ASSUME SessionInv, Acknowledged
    PROVE  SessionInv'
  <1>1. /\ client' = client /\ answer' = NoAnswer /\ answer # NoAnswer /\ phase = "initialized"
        /\ client \in Clients /\ era = Legacy /\ era' = era /\ version' = version
        /\ version \in agreeable(Legacy)
    BY DEF SessionInv, Acknowledged, Receives
  <1>2. answer = Answer(NoId, httpStatusResponse(202))
    BY <1>1, SessionAnswers DEF SessionInv
  <1>3. ~forwarded
    BY <1>2 DEF forwarded, Answer
  <1>4. reply.status = 202
    <2> DEFINE im == ImmediateResponse(202, NoBody)
               s  == <<HeadersResponse("request", EmptyMutation, NoBody), im>>
    <2>1. answer.Immediate = s
      BY <1>2 DEF Answer, httpStatusResponse, immediateResponse
    <2>2. im.status = 202
      BY DEF ImmediateResponse
    <2> HIDE DEF im
    <2>3. Len(s) = 2 /\ s[2] = im
      OBVIOUS
    <2> HIDE DEF s
    <2> QED
      BY <2>1, <2>2, <2>3 DEF reply
  <1>5. phase' = "list"
    BY <1>3, <1>4 DEF Acknowledged
  <1> QED
    BY <1>1, <1>5 DEF SessionInv

\* The list comes in the era of the session.
LEMMA ListedKeeps ==
    ASSUME SessionInv, Listed
    PROVE  SessionInv'
  <1>1. /\ client' = client /\ answer' = NoAnswer /\ answer # NoAnswer /\ phase = "list"
        /\ client \in Clients /\ era \in Eras /\ era' = era /\ version' = version
        /\ version \in agreeable(era)
    BY DEF SessionInv, Listed, Receives
  <1>2. answer = resultResponse(era, "1", ListToolsResult)
    BY <1>1, SessionAnswers DEF SessionInv
  <1>3. isResult /\ reply.body.envelope.stamped = (era = Modern)
    <2>1. ListToolsResult.of \in {"tools"}
      BY DEF ListToolsResult
    <2>2. PICK payload : payload = ListToolsResult
      OBVIOUS
    <2> QED
      BY <1>1, <1>2, <2>1, <2>2, ResultReply DEF isResult, forwarded, reply
  <1>4. phase' = "call"
    BY <1>3 DEF Listed
  <1> QED
    BY <1>1, <1>4 DEF SessionInv

\* The call is forwarded in the era of the session.
LEMMA CalledKeeps ==
    ASSUME SessionInv, Called
    PROVE  SessionInv'
  <1>1. /\ client' = client /\ answer' = NoAnswer /\ answer # NoAnswer /\ phase = "call"
        /\ client \in Clients /\ era \in Eras /\ era' = era /\ version' = version
        /\ version \in agreeable(era)
    BY DEF SessionInv, Called, Receives
  <1>2. answer = answerTo("call", version, era)
    BY <1>1 DEF SessionInv
  <1>3. forwarded /\ answer.Era = era
    BY <1>1, <1>2, SessionAnswers DEF forwarded
  <1>4. phase' = "ready"
    BY <1>3 DEF Called
  <1> QED
    BY <1>1, <1>4 DEF SessionInv

\* A version agreed on is served in every later request of the session.
THEOREM AgreementAlwaysHolds == SessionSpec => []AgreementHolds
  <1>1. SessionInv /\ [SessionNext]_sessionVars => SessionInv'
    <2> SUFFICES ASSUME SessionInv, [SessionNext]_sessionVars PROVE SessionInv'
      OBVIOUS
    <2>1. CASE Request
      BY <2>1 DEF SessionInv, Request, answerTo
    <2>2. CASE AnswerLost
      BY <2>2 DEF SessionInv, AnswerLost
    <2>3. CASE Receive
      BY <2>3, DiscoveredKeeps, InitializedKeeps, AcknowledgedKeeps, ListedKeeps, CalledKeeps DEF Receive
    <2>4. CASE UNCHANGED sessionVars
      BY <2>4 DEF SessionInv, sessionVars
    <2> QED
      BY <2>1, <2>2, <2>3, <2>4 DEF SessionNext
  <1>2. SessionInv => AgreementHolds
    BY DEF SessionInv, AgreementHolds
  <1> QED
    BY <1>1, <1>2, SessionInitHolds, PTL DEF SessionSpec
=============================================================================
