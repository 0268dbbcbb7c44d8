-------------------------- MODULE StreamStateProofs --------------------------
(***************************************************************************)
(* Proofs about one ext_proc stream under an arbitrary peer, for all values *)
(* of the constants.                                                        *)
(***************************************************************************)
EXTENDS StreamState, FrameProofs, WellFoundedInduction, TLAPS

-----------------------------------------------------------------------------
(* The request handler.                                                     *)

\* What the handler returns can be put into a request context.
ResultTyped(r) ==
    /\ r.Id \in Ids \cup {NoId}
    /\ r.ToolResponseConfig \in Tools \cup {NoTool}
    /\ r.Era \in Eras \cup {NoEra}

\* An immediate answer to a request that has an id or none.
LEMMA AnswerTyped ==
    ASSUME NEW id \in Ids \cup {NoId}, NEW immediate
    PROVE  ResultTyped(Answer(id, immediate))
  BY DEF ResultTyped, Answer

\* Every error answer is such an answer.
LEMMA ErrorTyped ==
    ASSUME NEW era, NEW id \in Ids \cup {NoId}, NEW code
    PROVE  ResultTyped(errorResponse(era, id, code))
  BY AnswerTyped DEF errorResponse

\* And every result, encoded or refused by its era.
LEMMA ResultResponseTyped ==
    ASSUME NEW era, NEW id \in Ids \cup {NoId}, NEW result
    PROVE  ResultTyped(resultResponse(era, id, result))
  <1>1. CASE encodeResult(era, result).ok
    BY <1>1, AnswerTyped DEF resultResponse
  <1>2. CASE ~encodeResult(era, result).ok
    BY <1>2, ErrorTyped DEF resultResponse
  <1>3. QED
    BY <1>1, <1>2

\* A tool call is refused, answered, or rerouted with its own id and era.
LEMMA ToolCallTyped ==
    ASSUME NEW era \in Eras, NEW req \in JsonRpcMessages, NEW strip
    PROVE  ResultTyped(handleToolCall(era, req, strip))
  <1>1. req.id \in Ids \cup {NoId}
    BY DEF JsonRpcMessages
  <1>2. CASE ~decodesCall(req.params)
    BY <1>1, <1>2, ErrorTyped DEF handleToolCall
  <1>3. CASE decodesCall(req.params) /\ req.params.name \notin Tools
    BY <1>1, <1>3, ErrorTyped DEF handleToolCall
  <1>4. CASE decodesCall(req.params) /\ req.params.name \in Tools /\ req.params.args = "rejected"
    BY <1>1, <1>4, ResultResponseTyped DEF handleToolCall, toolExecutionErrorResponse
  <1>5. CASE decodesCall(req.params) /\ req.params.name \in Tools /\ req.params.args # "rejected"
    BY <1>1, <1>5 DEF handleToolCall, ResultTyped
  <1>6. QED
    BY <1>2, <1>3, <1>4, <1>5

\* The switch on the method.
LEMMA DispatchTyped ==
    ASSUME NEW era \in Eras, NEW req \in JsonRpcMessages, NEW hdrs
    PROVE  ResultTyped(dispatch(era, req, hdrs))
  <1> DEFINE d == dispatch(era, req, hdrs)
  <1>1. req.id \in Ids \cup {NoId}
    BY DEF JsonRpcMessages
  <1>2. ResultTyped(handleInitialize(era, req))
    BY <1>1, ErrorTyped, ResultResponseTyped DEF handleInitialize
  <1>3. \/ d = handleInitialize(era, req)
        \/ d = Answer(req.id, httpStatusResponse(202))
        \/ d = resultResponse(era, req.id, DiscoverResult)
        \/ d = resultResponse(era, req.id, ListToolsResult)
        \/ d = handleToolCall(era, req, hdrs.paramHeaderNames)
        \/ d = errorResponse(era, req.id, MethodNotFound)
    BY DEF dispatch, methodInitialize, methodNotificationsInitialized, methodDiscover,
           methodToolsList, methodToolsCall
  <1>4. QED
    BY <1>1, <1>2, <1>3, AnswerTyped, ResultResponseTyped, ToolCallTyped, ErrorTyped

\* mcpRequestHandler, whatever bytes and headers it is given.
LEMMA HandlerTyped ==
    ASSUME NEW bytes, NEW hdrs
    PROVE  ResultTyped(mcpRequestHandler(bytes, hdrs))
  <1>1. CASE ~ \E m \in RequestBodies : decodesTo(bytes, m)
    BY <1>1, ErrorTyped DEF mcpRequestHandler
  <1>2. CASE \E m \in RequestBodies : decodesTo(bytes, m)
    <2> DEFINE m == CHOOSE m \in RequestBodies : decodesTo(bytes, m)
               r == resolveEra(m.method, metaProtocolVersion(m.params), hdrs.protocolVersion)
    <2>1. m \in RequestBodies
      BY <1>2
    <2>2. m \in JsonRpcMessages
      BY <2>1, HandlerAssumption
    <2>3. m.id \in Ids \cup {NoId}
      BY <2>2 DEF JsonRpcMessages
    <2>4. r.era \in Eras
      BY DEF resolveEra, Eras
    <2> HIDE DEF m, r
    <2>5. ResultTyped(handleRequest(m, hdrs))
      BY <2>2, <2>3, <2>4, ErrorTyped, DispatchTyped DEF handleRequest, r
    <2>6. \/ mcpRequestHandler(bytes, hdrs) = handleRequest(m, hdrs)
          \/ mcpRequestHandler(bytes, hdrs) = errorResponse(Legacy, NoId, InvalidRequest)
      BY <1>2 DEF mcpRequestHandler, m
    <2>7. QED
      BY <2>5, <2>6, ErrorTyped
  <1>3. QED
    BY <1>1, <1>2

-----------------------------------------------------------------------------
(* The inductive invariant.  BufferHoldsThisBody is inductive given that     *)
(* both phases begin by emptying the buffer; ContextIsThisCycles needs it,   *)
(* because the context is computed from the buffer, and needs the captured   *)
(* headers to be those of the message that opened the cycle.                 *)

\* While the request body arrives, the captured headers are those that opened the cycle.
HeadersAreThisCycles ==
    state = BufferingRequest => mcpHeaders = captureMCPRequestHeaders(opened.headers)

\* The inductive invariant of the stream: what each state carries is of this cycle.
IInv == TypeOK /\ BufferHoldsThisBody /\ HeadersAreThisCycles /\ ContextIsThisCycles

\* The five states are different, and their names are all the proofs need.
LEMMA StatesDiffer ==
    /\ AwaitingRequestHeaders \notin {DrainingRequest, BufferingRequest,
                                       AwaitingResponseHeaders, BufferingResponse}
    /\ DrainingRequest \notin {BufferingRequest, AwaitingResponseHeaders, BufferingResponse}
    /\ BufferingRequest \notin {AwaitingResponseHeaders, BufferingResponse}
    /\ AwaitingResponseHeaders # BufferingResponse
    /\ States = {AwaitingRequestHeaders, DrainingRequest, BufferingRequest,
                 AwaitingResponseHeaders, BufferingResponse}
  BY DEF AwaitingRequestHeaders, DrainingRequest, BufferingRequest,
         AwaitingResponseHeaders, BufferingResponse, States

\* A body message carries pieces; any other message carries none.
LEMMA PayloadTyped ==
    ASSUME NEW m \in Messages, m.type \in {"RequestBody", "ResponseBody",
                                            "RequestTrailers", "ResponseTrailers"}
    PROVE  payloadOf(m) \in Seq(Pieces)
  <1>1. CASE m \in BodyMessages
    <2>1. m.payload \in Payloads
      BY <1>1 DEF BodyMessages
    <2>2. QED
      BY <2>1, StreamAssumption DEF payloadOf
  <1>2. CASE m \notin BodyMessages
    <2>1. m.type \notin {"RequestBody", "ResponseBody"}
      BY <1>2 DEF Messages, HeadersMessages, StatusMessages,
                  RequestTrailers, ResponseTrailers, NoMessage
    <2>2. QED
      BY <2>1 DEF payloadOf
  <1>3. QED
    BY <1>1, <1>2

\* The context without a call is a context.
LEMMA NoContextTyped == NoContext \in Contexts
  BY DEF NoContext, Contexts

\* No headers are what is captured from an empty list.
LEMMA NoHeadersTyped == NoHeaders \in Captured
  BY DEF NoHeaders, Captured

\* Recording the upstream's status keeps the context well-formed.
LEMMA StatusTyped ==
    ASSUME NEW m \in Messages, m.type = "ResponseHeaders", NEW c \in Contexts
    PROVE  /\ withStatus(c, m) \in Contexts
           /\ c.status = 0 =>
                withStatus(c, m) = [c EXCEPT !.status = parseUpstreamStatusCode(m.status)]
  <1>1. m \in StatusMessages
    BY DEF Messages, HeadersMessages, BodyMessages, RequestTrailers, ResponseTrailers, NoMessage
  <1>2. m.status \in Statuses
    BY <1>1 DEF StatusMessages
  <1>3. m.status \in Int
    BY <1>2, StreamAssumption
  <1>4. CASE m.status >= 0
    <2>1. withStatus(c, m) = [c EXCEPT !.status = m.status]
      BY <1>3, <1>4 DEF withStatus, parseUpstreamStatusCode, statusParses
    <2>2. parseUpstreamStatusCode(m.status) = m.status
      BY <1>3, <1>4 DEF parseUpstreamStatusCode, statusParses
    <2>3. QED
      BY <2>1, <2>2, <1>3, <1>4 DEF Contexts
  <1>5. CASE m.status < 0
    <2>1. withStatus(c, m) = c
      BY <1>3, <1>5 DEF withStatus, parseUpstreamStatusCode, statusParses
    <2>2. parseUpstreamStatusCode(m.status) = 0
      BY <1>3, <1>5 DEF parseUpstreamStatusCode, statusParses
    <2>3. QED
      BY <2>1, <2>2 DEF Contexts
  <1>6. QED
    BY <1>3, <1>4, <1>5

-----------------------------------------------------------------------------
(* The invariant holds initially and every step keeps it.                    *)

\* A new stream satisfies the invariant.
LEMMA InitIInv == Init => IInv
  <1> SUFFICES ASSUME Init PROVE IInv
    OBVIOUS
  <1>1. TypeOK
    BY StatesDiffer, NoContextTyped, NoHeadersTyped, StreamAssumption DEF Init, TypeOK
  <1>2. BufferHoldsThisBody /\ HeadersAreThisCycles /\ ContextIsThisCycles
    BY StatesDiffer
       DEF Init, BufferHoldsThisBody, HeadersAreThisCycles, ContextIsThisCycles
  <1>3. QED
    BY <1>1, <1>2 DEF IInv

\* A refusal at the headers leaves the machine where it is.
LEMMA RefuseKeepsIInv ==
    ASSUME IInv, NEW m \in Messages, NEW replies, RefuseAtHeaders(m, replies)
    PROVE  IInv'
  <1>1. TypeOK'
    BY StreamAssumption DEF IInv, TypeOK, RefuseAtHeaders, Opens, Receives
  <1>2. state' = AwaitingRequestHeaders
    BY DEF RefuseAtHeaders, Opens, Receives
  <1>3. QED
    BY <1>1, <1>2, StatesDiffer
       DEF IInv, BufferHoldsThisBody, HeadersAreThisCycles, ContextIsThisCycles

\* A step that leaves the machine's state and this cycle's inputs alone.
LEMMA QuietKeepsIInv ==
    ASSUME IInv,
           UNCHANGED <<state, mcpHeaders, request, buf, opened, reqBytes, upstream,
                       respBytes, cycles>>,
           rc' \in {"running", "nil", "FailedPrecondition", "Unknown"}
    PROVE  IInv'
  BY DEF IInv, TypeOK, BufferHoldsThisBody, HeadersAreThisCycles, ContextIsThisCycles

\* Each handle call, on any message the peer may send.
LEMMA HandleKeepsIInv ==
    ASSUME IInv, NEW m \in Messages, Handle(m)
    PROVE  IInv'
  <1> USE StatesDiffer, NoContextTyped, NoHeadersTyped
  <1>1. CASE MethodNotAllowed(m)
    BY <1>1, RefuseKeepsIInv DEF MethodNotAllowed
  <1>2. CASE Forbidden(m)
    BY <1>2, RefuseKeepsIInv DEF Forbidden
  <1>3. CASE MissingBody(m)
    BY <1>3, RefuseKeepsIInv DEF MissingBody
  <1>4. CASE StartDraining(m)
    <2>1. TypeOK'
      BY <1>4, StreamAssumption DEF StartDraining, Opens, Receives, IInv, TypeOK
    <2>2. QED
      BY <1>4, <2>1 DEF StartDraining, IInv, BufferHoldsThisBody,
                        HeadersAreThisCycles, ContextIsThisCycles
  <1>5. CASE StartBufferingRequest(m)
    <2>1. m.headers \in HeaderLists
      <3>1. m \in HeadersMessages
        BY <1>5 DEF StartBufferingRequest, Opens, Receives, Messages, StatusMessages,
                    BodyMessages, RequestTrailers, ResponseTrailers, NoMessage
      <3>2. QED
        BY <3>1 DEF HeadersMessages
    <2>2. captureMCPRequestHeaders(m.headers) \in Captured
      BY <2>1 DEF Captured
    <2>3. TypeOK'
      BY <1>5, <2>2, StreamAssumption
         DEF StartBufferingRequest, beginBuffering, Opens, Receives, IInv, TypeOK
    <2>4. BufferHoldsThisBody' /\ HeadersAreThisCycles' /\ ContextIsThisCycles'
      BY <1>5 DEF StartBufferingRequest, beginBuffering, Opens, BufferHoldsThisBody,
                  HeadersAreThisCycles, ContextIsThisCycles
    <2>5. QED
      BY <2>3, <2>4 DEF IInv
  <1>6. CASE DiscardRequestBody(m)
    <2>1. TypeOK'
      BY <1>6 DEF DiscardRequestBody, ReceivesRequestBody, Receives, IInv, TypeOK
    <2>2. state = DrainingRequest /\ state' = DrainingRequest
      BY <1>6 DEF DiscardRequestBody, ReceivesRequestBody, Receives
    <2>3. QED
      BY <2>1, <2>2 DEF IInv, BufferHoldsThisBody, HeadersAreThisCycles, ContextIsThisCycles
  <1>7. CASE RejectDrained(m)
    <2>1. TypeOK'
      BY <1>7 DEF RejectDrained, ReceivesRequestBody, Receives, IInv, TypeOK
    <2>2. QED
      BY <1>7, <2>1 DEF RejectDrained, IInv, BufferHoldsThisBody,
                        HeadersAreThisCycles, ContextIsThisCycles
  <1>8. CASE AppendRequestBody(m)
    <2>1. payloadOf(m) \in Seq(Pieces)
      BY <1>8, PayloadTyped DEF AppendRequestBody, ReceivesRequestBody, Receives
    <2>2. state = BufferingRequest /\ UNCHANGED <<state, mcpHeaders, request, rc, opened, cycles>>
      BY <1>8 DEF AppendRequestBody, ReceivesRequestBody, Receives
    <2>3. buf' = buf \o payloadOf(m) /\ reqBytes' = reqBytes \o payloadOf(m)
      BY <1>8 DEF AppendRequestBody, ReceivesRequestBody
    <2>4. TypeOK'
      BY <2>1, <2>2, <2>3 DEF IInv, TypeOK
    <2>5. QED
      BY <2>2, <2>3, <2>4 DEF IInv, BufferHoldsThisBody, HeadersAreThisCycles,
                              ContextIsThisCycles
  <1>9. CASE FinalizeRequest(m)
    <2> DEFINE result == mcpRequestHandler(buf', mcpHeaders)
    <2>1. payloadOf(m) \in Seq(Pieces)
      BY <1>9, PayloadTyped DEF FinalizeRequest, ReceivesRequestBody, Receives
    <2>2. /\ state = BufferingRequest /\ state' = AwaitingResponseHeaders
          /\ mcpHeaders' = NoHeaders
          /\ UNCHANGED <<rc, opened, cycles>>
      BY <1>9 DEF FinalizeRequest, ReceivesRequestBody, Receives
    <2>3. buf' = buf \o payloadOf(m) /\ reqBytes' = reqBytes \o payloadOf(m)
      BY <1>9 DEF FinalizeRequest, ReceivesRequestBody
    <2>4. request' = [id |-> result.Id, config |-> result.ToolResponseConfig,
                      status |-> 0, era |-> result.Era]
      BY <1>9 DEF FinalizeRequest
    <2>5. ResultTyped(result)
      BY HandlerTyped
    <2>6. buf' = reqBytes'
      BY <2>2, <2>3 DEF IInv, BufferHoldsThisBody
    <2>7. mcpHeaders = captureMCPRequestHeaders(opened'.headers)
      BY <2>2 DEF IInv, HeadersAreThisCycles
    <2>8. result = mcpRequestHandler(reqBytes', captureMCPRequestHeaders(opened'.headers))
      BY <2>6, <2>7
    <2> HIDE DEF result
    <2>9. TypeOK'
      BY <2>1, <2>2, <2>3, <2>4, <2>5 DEF IInv, TypeOK, Contexts, ResultTyped
    <2>10. ContextIsThisCycles'
      BY <2>2, <2>4, <2>8 DEF ContextIsThisCycles
    <2>11. QED
      BY <2>2, <2>9, <2>10 DEF IInv, BufferHoldsThisBody, HeadersAreThisCycles
  <1>10. CASE StartBufferingResponse(m)
    <2>1. /\ state = AwaitingResponseHeaders /\ state' = BufferingResponse
          /\ request' = withStatus(request, m)
          /\ buf' = <<>> /\ respBytes' = <<>> /\ upstream' = m
          /\ UNCHANGED <<mcpHeaders, rc, opened, reqBytes, cycles>>
      BY <1>10 DEF StartBufferingResponse, ReceivesToolResponse, Receives, beginBuffering
    <2>2. m.type = "ResponseHeaders" /\ request \in Contexts
      BY <1>10 DEF StartBufferingResponse, ReceivesToolResponse, Receives, IInv, TypeOK
    <2>3. request' \in Contexts
      BY <2>1, <2>2, StatusTyped
    <2>4. TypeOK'
      BY <2>1, <2>3 DEF IInv, TypeOK
    <2>5. request.status = 0
      BY <2>1 DEF IInv, ContextIsThisCycles
    <2>6. request' = [request EXCEPT !.status = parseUpstreamStatusCode(m.status)]
      BY <2>1, <2>2, <2>5, StatusTyped
    <2>7. ContextIsThisCycles'
      BY <2>1, <2>2, <2>6 DEF IInv, ContextIsThisCycles, Contexts
    <2>8. QED
      BY <2>1, <2>4, <2>7 DEF IInv, BufferHoldsThisBody, HeadersAreThisCycles
  <1>11. CASE ReplaceEmptyResponse(m)
    <2>1. TypeOK'
      BY <1>11 DEF ReplaceEmptyResponse, ReceivesToolResponse, Receives, IInv, TypeOK
    <2>2. QED
      BY <1>11, <2>1 DEF ReplaceEmptyResponse, IInv, BufferHoldsThisBody,
                         HeadersAreThisCycles, ContextIsThisCycles
  <1>12. CASE AppendResponseBody(m)
    <2>1. payloadOf(m) \in Seq(Pieces)
      BY <1>12, PayloadTyped DEF AppendResponseBody, ReceivesResponseBody, Receives
    <2>2. /\ state = BufferingResponse
          /\ UNCHANGED <<state, mcpHeaders, request, rc, opened, reqBytes, upstream, cycles>>
      BY <1>12 DEF AppendResponseBody, ReceivesResponseBody, Receives
    <2>3. buf' = buf \o payloadOf(m) /\ respBytes' = respBytes \o payloadOf(m)
      BY <1>12 DEF AppendResponseBody, ReceivesResponseBody
    <2>4. TypeOK'
      BY <2>1, <2>2, <2>3 DEF IInv, TypeOK
    <2>5. QED
      BY <2>2, <2>3, <2>4 DEF IInv, BufferHoldsThisBody, HeadersAreThisCycles,
                              ContextIsThisCycles
  <1>13. CASE FinalizeResponse(m)
    <2>1. payloadOf(m) \in Seq(Pieces)
      BY <1>13, PayloadTyped DEF FinalizeResponse, ReceivesResponseBody, Receives
    <2>2. TypeOK'
      BY <1>13, <2>1 DEF FinalizeResponse, ReceivesResponseBody, Receives, IInv, TypeOK
    <2>3. QED
      BY <1>13, <2>2 DEF FinalizeResponse, IInv, BufferHoldsThisBody,
                         HeadersAreThisCycles, ContextIsThisCycles
  <1>14. CASE ProtocolViolation(m)
    BY <1>14, QuietKeepsIInv DEF ProtocolViolation, history
  <1>15. QED
    BY <1>1, <1>2, <1>3, <1>4, <1>5, <1>6, <1>7, <1>8, <1>9, <1>10, <1>11, <1>12,
       <1>13, <1>14 DEF Handle

\* Every step keeps the invariant.
LEMMA NextIInv == IInv /\ [Next]_vars => IInv'
  <1> SUFFICES ASSUME IInv, [Next]_vars PROVE IInv'
    OBVIOUS
  <1>0. rc \in {"running", "nil", "FailedPrecondition", "Unknown"}
    BY DEF IInv, TypeOK
  <1>1. CASE \E m \in Messages : Handle(m)
    BY <1>1, HandleKeepsIInv
  <1>2. CASE Send
    BY <1>0, <1>2, QuietKeepsIInv DEF Send
  <1>3. CASE SendFails \/ RecvEnds \/ RecvFails
    BY <1>3, QuietKeepsIInv DEF SendFails, RecvEnds, RecvFails, Returns, history
  <1>4. CASE UNCHANGED vars
    BY <1>0, <1>4, QuietKeepsIInv DEF vars, machine, history
  <1>5. QED
    BY <1>1, <1>2, <1>3, <1>4 DEF Next

-----------------------------------------------------------------------------
(* The theorems.                                                             *)

\* The invariant holds in every reachable state.
THEOREM Invariance == Spec => []IInv
  <1>1. QED
    BY InitIInv, NextIInv, PTL DEF Spec

\* TypeOK holds of the stream, for every set of tools, bodies and headers and
\* whatever the peer sends.
THEOREM TypeCorrect == Spec => []TypeOK
  <1>1. IInv => TypeOK
    BY DEF IInv
  <1>2. QED
    BY <1>1, Invariance, PTL

\* A buffering phase holds the bytes of its own body only, although stream.buf
\* is reused across phases and cycles.
THEOREM BufferIsolated == Spec => []BufferHoldsThisBody
  <1>1. IInv => BufferHoldsThisBody
    BY DEF IInv
  <1>2. QED
    BY <1>1, Invariance, PTL

\* The context the response is translated with is that of the request of the
\* same cycle, with the status of its own upstream response.
THEOREM ContextBelongsToCycle == Spec => []ContextIsThisCycles
  <1>1. IInv => ContextIsThisCycles
    BY DEF IInv
  <1>2. QED
    BY <1>1, Invariance, PTL

-----------------------------------------------------------------------------
(* What the handler does with a body: it refuses it, or it forwards the call. *)

\* Every nonempty set of natural numbers has a least element.
LEMMA LeastNat ==
    ASSUME NEW T, T \subseteq Nat, T # {}
    PROVE  \E i \in T : \A j \in T : i <= j
  <1> DEFINE R == OpToRel(<, Nat)
  <1>1. IsWellFoundedOn(R, Nat)
    BY NatLessThanWellFounded
  <1>2. \A i, j \in Nat : i < j => <<i, j>> \in R
    BY DEF OpToRel
  <1> HIDE DEF R
  <1>3. PICK i \in T : \A j \in T : <<j, i>> \notin R
    BY <1>1, WFMin
  <1>4. ASSUME NEW j \in T PROVE i <= j
    <2>1. i \in Nat /\ j \in Nat /\ ~(j < i)
      BY <1>2, <1>3
    <2> QED
      BY <2>1
  <1> QED
    BY <1>4

\* firstHeaderValue takes the first header with the key, if there is one.
LEMMA FirstValue ==
    ASSUME NEW headers, DOMAIN headers \subseteq Nat \ {0}, NEW key, NEW default
    PROVE  \/ /\ firstHeaderValue(headers, key, default) = default
              /\ \A i \in DOMAIN headers : headers[i].key # key
           \/ \E i \in DOMAIN headers :
                /\ headers[i].key = key
                /\ \A j \in DOMAIN headers : headers[j].key = key => i <= j
                /\ firstHeaderValue(headers, key, default) = headers[i].value
                /\ key = headerMCPName => nameEncoding(headers) = headers[i].enc
  <1> DEFINE at == {i \in DOMAIN headers : headers[i].key = key}
             first == CHOOSE i \in at : \A j \in at : i <= j
  <1>1. CASE at = {}
    BY <1>1 DEF firstHeaderValue
  <1>2. CASE at # {}
    <2>1. at \subseteq Nat
      OBVIOUS
    <2> HIDE DEF at
    <2>2. \E i \in at : \A j \in at : i <= j
      BY <1>2, <2>1, LeastNat
    <2>3. first \in at /\ \A j \in at : first <= j
      BY <2>2
    <2>4. firstHeaderValue(headers, key, default) = headers[first].value
      BY <1>2 DEF firstHeaderValue, at
    <2>5. key = headerMCPName => nameEncoding(headers) = headers[first].enc
      BY <1>2 DEF nameEncoding, at
    <2> HIDE DEF first
    <2> QED
      BY <2>3, <2>4, <2>5 DEF at
  <1> QED
    BY <1>1, <1>2

\* What a header says is what is captured of it, and the other way around.
LEMMA SaidIsCaptured ==
    ASSUME NEW headers \in HeaderLists, NEW key, NEW default, NEW value,
           says(headers, key, value)
    PROVE  firstHeaderValue(headers, key, default) = value
  <1>1. DOMAIN headers \subseteq Nat \ {0}
    BY HeaderAssumption
  <1>2. PICK i \in DOMAIN headers :
           /\ headers[i].key = key /\ headers[i].value = value
           /\ \A j \in 1 .. i - 1 : headers[j].key # key
    BY DEF says
  <1>3. PICK k \in DOMAIN headers :
           /\ headers[k].key = key
           /\ \A j \in DOMAIN headers : headers[j].key = key => k <= j
           /\ firstHeaderValue(headers, key, default) = headers[k].value
    BY <1>1, <1>2, FirstValue
  <1>4. i \in Nat \ {0} /\ k \in Nat \ {0} /\ k <= i
    BY <1>1, <1>2, <1>3
  <1>5. k \notin 1 .. i - 1
    BY <1>2, <1>3
  <1>6. k = i
    BY <1>4, <1>5
  <1> QED
    BY <1>2, <1>3, <1>6

\* A captured value other than the default was said by a header.
LEMMA CapturedIsSaid ==
    ASSUME NEW headers \in HeaderLists, NEW key, NEW default,
           firstHeaderValue(headers, key, default) # default,
           key = headerMCPName => nameEncoding(headers) # "badBase64"
    PROVE  says(headers, key, firstHeaderValue(headers, key, default))
  <1>1. DOMAIN headers \subseteq Nat \ {0}
    BY HeaderAssumption
  <1>2. PICK k \in DOMAIN headers :
           /\ headers[k].key = key
           /\ \A j \in DOMAIN headers : headers[j].key = key => k <= j
           /\ firstHeaderValue(headers, key, default) = headers[k].value
           /\ key = headerMCPName => nameEncoding(headers) = headers[k].enc
    BY <1>1, FirstValue
  <1>3. headers[k].enc # "badBase64"
    BY <1>2, HeaderAssumption
  <1>4. ASSUME NEW j \in 1 .. k - 1 PROVE headers[j].key # key
    <2>1. j \in DOMAIN headers /\ ~(k <= j)
      BY <1>1, HeaderAssumption
    <2> QED
      BY <1>2, <2>1
  <1> QED
    BY <1>2, <1>3, <1>4 DEF says

\* The handler answers itself: the acknowledgement of the headers and one immediate response.
Refuses(r) ==
    /\ r.Reroute = NoReroute /\ r.ToolResponseConfig = NoTool
    /\ \E x : x.type = "immediate" /\ r.Immediate = immediateResponse(x)

\* The handler sends the call m upstream, and keeps what its response needs.
Forwards(r, era, m, strip) ==
    /\ r.Id = m.id /\ r.ToolResponseConfig = m.params.name /\ r.Era = era
    /\ r.Reroute = rerouteWithBodyMutation(Endpoint(m.params.name, m.params), strip)

\* An answer with an immediate response is a refusal in this sense.
LEMMA AnswerRefuses ==
    ASSUME NEW id, NEW status, NEW content
    PROVE  Refuses(Answer(id, immediateResponse(ImmediateResponse(status, content))))
  BY DEF Refuses, Answer, ImmediateResponse

\* An error is a refusal, in either era and with any code.
LEMMA ErrorRefuses ==
    ASSUME NEW era, NEW id, NEW code
    PROVE  Refuses(errorResponse(era, id, code))
  BY AnswerRefuses DEF errorResponse, newImmediateBodyResponseWithStatus

\* So is a result that the processor gives itself.
LEMMA ResultRefuses ==
    ASSUME NEW era, NEW id, NEW result
    PROVE  Refuses(resultResponse(era, id, result))
  <1>1. CASE encodeResult(era, result).ok
    BY <1>1, AnswerRefuses
       DEF resultResponse, newImmediateBodyResponse, newImmediateBodyResponseWithStatus
  <1>2. CASE ~encodeResult(era, result).ok
    BY <1>2, ErrorRefuses DEF resultResponse
  <1> QED
    BY <1>1, <1>2

\* A tool call is forwarded only when everything in it is in order.
LEMMA ToolCallSplits ==
    ASSUME NEW era, NEW m \in JsonRpcMessages, NEW strip
    PROVE  \/ Refuses(handleToolCall(era, m, strip))
           \/ /\ m.params.shape = "object" /\ m.params.name \in Tools /\ m.params.args = "valid"
              /\ Forwards(handleToolCall(era, m, strip), era, m, strip)
  <1>1. CASE ~decodesCall(m.params)
    BY <1>1, ErrorRefuses DEF handleToolCall
  <1>2. CASE decodesCall(m.params) /\ m.params.name \notin Tools
    BY <1>2, ErrorRefuses DEF handleToolCall
  <1>3. CASE decodesCall(m.params) /\ m.params.name \in Tools /\ m.params.args = "rejected"
    BY <1>3, ResultRefuses DEF handleToolCall, toolExecutionErrorResponse
  <1>4. CASE decodesCall(m.params) /\ m.params.name \in Tools /\ m.params.args # "rejected"
    <2>1. m.params.args = "valid"
      BY <1>4 DEF JsonRpcMessages, RequestParams
    <2>2. Forwards(handleToolCall(era, m, strip), era, m, strip)
      BY <1>4 DEF handleToolCall, Forwards
    <2> QED
      BY <1>4, <2>1, <2>2 DEF decodesCall
  <1> QED
    BY <1>1, <1>2, <1>3, <1>4

\* Of all methods only tools/call leads to a forwarded request.
LEMMA DispatchSplits ==
    ASSUME NEW era, NEW m \in JsonRpcMessages, NEW h
    PROVE  \/ Refuses(dispatch(era, m, h))
           \/ /\ m.method = methodToolsCall
              /\ m.params.shape = "object" /\ m.params.name \in Tools /\ m.params.args = "valid"
              /\ Forwards(dispatch(era, m, h), era, m, h.paramHeaderNames)
  <1> DEFINE d == dispatch(era, m, h)
  <1>1. Refuses(handleInitialize(era, m))
    BY ErrorRefuses, ResultRefuses DEF handleInitialize
  <1>2. Refuses(Answer(m.id, httpStatusResponse(202)))
    BY AnswerRefuses DEF httpStatusResponse
  <1>3. \/ d = handleInitialize(era, m)
        \/ d = Answer(m.id, httpStatusResponse(202))
        \/ d = resultResponse(era, m.id, DiscoverResult)
        \/ d = resultResponse(era, m.id, ListToolsResult)
        \/ m.method = methodToolsCall /\ d = handleToolCall(era, m, h.paramHeaderNames)
        \/ d = errorResponse(era, m.id, MethodNotFound)
    BY DEF dispatch, methodInitialize, methodNotificationsInitialized, methodDiscover,
           methodToolsList, methodToolsCall
  <1> QED
    BY <1>1, <1>2, <1>3, ResultRefuses, ToolCallSplits, ErrorRefuses

\* A request is refused, or it is an admissible call and is forwarded in its own era.
LEMMA RequestSplits ==
    ASSUME NEW m \in JsonRpcMessages, m.kind = "request", NEW headers \in HeaderLists
    PROVE  LET r == handleRequest(m, captureMCPRequestHeaders(headers))
           IN  \/ Refuses(r)
               \/ /\ isAdmissible(m, headers)
                  /\ Forwards(r, IF isModernVersion(m.params.meta) THEN Modern ELSE Legacy, m,
                              captureMCPRequestHeaders(headers).paramHeaderNames)
  <1> DEFINE c == captureMCPRequestHeaders(headers)
             r == handleRequest(m, c)
             declared == metaProtocolVersion(m.params)
             e == resolveEra(m.method, declared, c.protocolVersion)
             wellFormed == /\ m.method = methodToolsCall
                           /\ m.params.shape = "object" /\ m.params.name \in Tools
                           /\ m.params.args = "valid"
  <1> HIDE DEF c
  <1>1. \/ Refuses(r)
        \/ /\ e.ok /\ validateHeaders(e.era, m, declared, c)
           /\ wellFormed /\ Forwards(r, e.era, m, c.paramHeaderNames)
    <2>1. \/ \E code : r = errorResponse(e.era, m.id, code)
          \/ e.ok /\ validateHeaders(e.era, m, declared, c) /\ r = dispatch(e.era, m, c)
      BY DEF handleRequest
    <2> HIDE DEF r, e, declared
    <2> QED
      BY <2>1, ErrorRefuses, DispatchSplits
  <1>2. ASSUME e.ok, validateHeaders(e.era, m, declared, c), wellFormed
        PROVE  /\ isAdmissible(m, headers)
               /\ e.era = (IF isModernVersion(m.params.meta) THEN Modern ELSE Legacy)
    <2> DEFINE spoken == isModernVersion(declared) \/ isModernVersion(c.protocolVersion)
    <2>1. declared = m.params.meta
      BY <1>2 DEF metaProtocolVersion
    <2>2. /\ c.protocolVersion = firstHeaderValue(headers, headerMCPProtocolVersion, EmptyVersion)
          /\ c.method = firstHeaderValue(headers, headerMCPMethod, "")
          /\ c.name = firstHeaderValue(headers, headerMCPName, "")
          /\ c.enc = nameEncoding(headers)
      BY DEF c, captureMCPRequestHeaders
    <2>3. e.era = (IF spoken THEN Modern ELSE Legacy)
      BY <1>2 DEF resolveEra, methodToolsCall, methodInitialize, methodNotificationsInitialized
    <2>4. ASSUME spoken
          PROVE  /\ m.params.meta = v20260728 /\ isModernVersion(m.params.meta)
                 /\ says(headers, headerMCPProtocolVersion, v20260728)
                 /\ says(headers, headerMCPMethod, methodToolsCall)
                 /\ says(headers, headerMCPName, m.params.name)
      <3>1. validateModernHeaders(m, declared, c)
        BY <1>2, <2>3, <2>4 DEF validateHeaders
      <3>2. c.protocolVersion = declared /\ declared # EmptyVersion
        BY <3>1 DEF validateModernHeaders
      <3>3. isSupportedVersion(declared) /\ isModernVersion(declared)
        BY <1>2, <2>4, <3>2 DEF resolveEra, methodToolsCall, methodInitialize,
                                methodNotificationsInitialized
      <3>4. declared \in {v20260728, v20251125, v20250618}
        BY <3>3 DEF isSupportedVersion, supportedProtocolVersions
      <3>5. declared = v20260728
        BY <3>3, <3>4 DEF isModernVersion, firstModernVersion, v20260728, v20251125, v20250618
      <3>6. c.method = methodToolsCall /\ c.method # ""
        BY <1>2, <3>1 DEF validateModernHeaders
      <3>7. c.name = m.params.name /\ c.name # "" /\ c.enc # "badBase64"
        BY <1>2, <3>1 DEF validateModernHeaders, decodeHeaderValue
      <3>8. says(headers, headerMCPProtocolVersion, v20260728)
        <4>1. headerMCPProtocolVersion # headerMCPName
          BY DEF headerMCPProtocolVersion, headerMCPName
        <4> QED
          BY <2>2, <3>2, <3>5, <4>1, CapturedIsSaid
      <3>9. says(headers, headerMCPMethod, methodToolsCall)
        <4>1. headerMCPMethod # headerMCPName
          BY DEF headerMCPMethod, headerMCPName
        <4> QED
          BY <2>2, <3>6, <4>1, CapturedIsSaid
      <3>10. says(headers, headerMCPName, m.params.name)
        BY <2>2, <3>7, CapturedIsSaid
      <3> QED
        BY <2>1, <3>3, <3>5, <3>8, <3>9, <3>10
    <2>5. ASSUME NEW v, isModernVersion(v), says(headers, headerMCPProtocolVersion, v)
          PROVE  spoken
      BY <2>2, <2>5, SaidIsCaptured
    <2> HIDE DEF e, declared
    <2>6. isModernVersion(metaProtocolVersion(m.params)) => spoken
      BY DEF declared
    <2>7. isAdmissible(m, headers)
      BY <1>2, <2>4, <2>5, <2>6 DEF isAdmissible
    <2>8. isModernVersion(m.params.meta) <=> spoken
      BY <2>1, <2>4
    <2> HIDE DEF spoken
    <2> QED
      BY <2>3, <2>7, <2>8
  <1> HIDE DEF r, e, declared, wellFormed
  <1>3. \/ Refuses(r)
        \/ /\ isAdmissible(m, headers)
           /\ Forwards(r, IF isModernVersion(m.params.meta) THEN Modern ELSE Legacy, m,
                       c.paramHeaderNames)
    BY <1>1, <1>2
  <1> QED
    BY <1>3 DEF r, c

\* mcpRequestHandler either refuses or forwards one admissible call.
LEMMA HandlerSplits ==
    ASSUME NEW bytes, NEW headers \in HeaderLists
    PROVE  LET r == mcpRequestHandler(bytes, captureMCPRequestHeaders(headers))
           IN  \/ Refuses(r)
               \/ \E m \in RequestBodies :
                    /\ bytes = Whole(m) /\ isAdmissible(m, headers)
                    /\ Forwards(r, IF isModernVersion(m.params.meta) THEN Modern ELSE Legacy, m,
                                captureMCPRequestHeaders(headers).paramHeaderNames)
  <1> DEFINE c == captureMCPRequestHeaders(headers)
             r == mcpRequestHandler(bytes, c)
  <1>1. CASE ~ \E m \in RequestBodies : decodesTo(bytes, m)
    BY <1>1, ErrorRefuses DEF mcpRequestHandler
  <1>2. CASE \E m \in RequestBodies : decodesTo(bytes, m)
    <2> DEFINE m == CHOOSE m \in RequestBodies : decodesTo(bytes, m)
    <2>1. m \in RequestBodies /\ decodesTo(bytes, m)
      BY <1>2
    <2>2. r = (IF m.kind # "request" THEN errorResponse(Legacy, NoId, InvalidRequest)
               ELSE handleRequest(m, c))
      BY <1>2 DEF mcpRequestHandler
    <2> HIDE DEF m, c, r
    <2>3. m \in JsonRpcMessages
      BY <2>1, HandlerAssumption
    <2>4. bytes = Whole(m)
      BY <2>1 DEF decodesTo
    <2>5. CASE m.kind # "request"
      BY <2>2, <2>5, ErrorRefuses DEF r, c
    <2>6. CASE m.kind = "request"
      <3>1. r = handleRequest(m, c)
        BY <2>2, <2>6
      <3> QED
        BY <2>1, <2>3, <2>4, <2>6, <3>1, RequestSplits DEF r, c
    <2> QED
      BY <2>5, <2>6
  <1> QED
    BY <1>1, <1>2

-----------------------------------------------------------------------------
(* A frame and a replaced response, read as one direction of the wire.       *)

\* The fields of a headers and of a trailers message.
LEMMA MessageFields ==
    ASSUME NEW dir, NEW mutation, NEW replace
    PROVE  LET h == HeadersResponse(dir, mutation, replace)
               t == TrailersResponse(dir)
           IN  /\ h.type = "headers" /\ h.dir = dir /\ h.mutation = mutation /\ h.replace = replace
               /\ t.type = "trailers" /\ t.dir = dir
  BY DEF HeadersResponse, TrailersResponse

\* The types of the messages that carry a request or a response.
wireTypes == {"headers", "body", "trailers"}

\* Each message has one of these types.
OfWireTypes(w) == \A i \in DOMAIN w : w[i].type \in wireTypes

\* Each chunk is of the same body and begins where the one before it ended.
Chained(w) ==
    \A i \in DOMAIN w : w[i].type = "body" =>
       /\ w[i].lo = IF i = 2 THEN 0 ELSE w[i - 1].hi
       /\ w[i].body = w[2].body /\ w[i].length = w[2].length

\* The chunks are of one body, and the last of them reaches its end.
Complete(w) ==
    \E last \in DOMAIN w :
       /\ w[last].type = "body"
       /\ \A i \in DOMAIN w : w[i].type = "body" => i <= last /\ w[i].length = w[last].hi

\* A frame is one direction on the wire, of the body it was made from.
LEMMA FrameOnWire ==
    ASSUME NEW m, NEW n \in Nat, NEW dir, NEW t \in BOOLEAN, NEW mutation,
           m.headers = HeadersResponse(dir, mutation, NoBody)
    PROVE  LET f == frame(m, n, dir, t)
           IN  /\ IsSeq(f) /\ Len(f) \in Nat /\ Len(f) >= 2 /\ DOMAIN f = 1 .. Len(f)
               /\ f[1] = m.headers /\ f[2].type = "body"
               /\ isDirection(f, dir)
               /\ \A i \in DOMAIN f : f[i].type = "body" => f[i].body = m.body
               /\ \A i \in DOMAIN f : f[i].type = "headers" => f[i].replace = NoBody
               /\ OfWireTypes(f) /\ Chained(f)
  <1> DEFINE f == frame(m, n, dir, t)
             k == chunkCount(n)
  <1>1. k \in Nat \ {0}
    BY ChunkCount
  <1> HIDE DEF f, k
  <1>2. /\ DOMAIN f = 1 .. Len(f) /\ IsSeq(f)
        /\ Len(f) \in Nat /\ Len(f) >= 2
        /\ f[1] = m.headers
        /\ \A i \in 2 .. Len(f) : isItem(f[i], m, n, dir, t, i)
    BY FrameItems DEF f
  <1>3. /\ t => Len(f) = k + 2
        /\ ~t => Len(f) = k + 1
    BY FrameItems DEF f, k
  <1>4. /\ f[1].type = "headers" /\ f[1].dir = dir /\ f[1].replace = NoBody
        /\ ~isTerminator(f[1])
    BY <1>2, MessageFields DEF isTerminator
  <1>5. ASSUME NEW i \in 2 .. Len(f)
        PROVE  /\ f[i].type \in {"body", "trailers"} /\ f[i].dir = dir
               /\ f[i].type = "body" => f[i].body = m.body
               /\ isTerminator(f[i]) <=> i = Len(f)
    <2>3. isItem(f[i], m, n, dir, t, i)
      BY <1>2
    <2>1. CASE i - 1 \in 1 .. k /\ f[i] = chunk(m, n, dir, t, i - 1)
      <3>1. /\ f[i].type = "body" /\ f[i].dir = dir /\ f[i].body = m.body
            /\ f[i].eos = (i - 1 = k /\ ~t)
        BY <2>1, ChunkFields DEF k
      <3>2. isTerminator(f[i]) <=> i - 1 = k /\ ~t
        BY <3>1 DEF isTerminator
      <3>3. (i - 1 = k /\ ~t) <=> i = Len(f)
        BY <1>1, <1>3, <2>1
      <3> QED
        BY <3>1, <3>2, <3>3
    <2>2. CASE t /\ i = k + 2 /\ f[i] = TrailersResponse(dir)
      <3>1. f[i].type = "trailers" /\ f[i].dir = dir
        BY <2>2, MessageFields
      <3>2. i = Len(f)
        BY <1>1, <1>3, <2>2
      <3> QED
        BY <3>1, <3>2 DEF isTerminator
    <2> QED
      BY <2>1, <2>2, <2>3 DEF isItem, k
  <1>6. ASSUME NEW i \in DOMAIN f
        PROVE  /\ f[i].type # "immediate" /\ f[i].dir = dir
               /\ f[i].type = "headers" <=> i = 1
               /\ isTerminator(f[i]) <=> i = Len(f)
               /\ f[i].type = "body" => f[i].body = m.body
               /\ f[i].type = "headers" => f[i].replace = NoBody
               /\ f[i].type \in wireTypes
    <2>1. i = 1 \/ i \in 2 .. Len(f)
      BY <1>2
    <2>2. CASE i = 1
      BY <1>2, <1>4, <2>2 DEF wireTypes
    <2>3. CASE i \in 2 .. Len(f)
      <3>1. i # 1
        BY <1>2, <2>3
      <3> QED
        BY <1>5, <2>3, <3>1 DEF wireTypes
    <2> QED
      BY <2>1, <2>2, <2>3
  <1>7. f # <<>>
    BY <1>2
  <1>8. isDirection(f, dir)
    BY <1>6, <1>7 DEF isDirection
  <1>9. f[2].type = "body" /\ f[2].body = m.body /\ f[2].length = n
    <2>1. 2 \in 2 .. Len(f) /\ 2 # k + 2
      BY <1>1, <1>2
    <2>2. isItem(f[2], m, n, dir, t, 2)
      BY <1>2, <2>1
    <2>3. f[2] = chunk(m, n, dir, t, 2 - 1)
      BY <2>1, <2>2 DEF isItem, k
    <2> QED
      BY <2>3, ChunkFields
  <1>10. ASSUME NEW i \in DOMAIN f, f[i].type = "body"
         PROVE  f[i].length = n /\ f[i].lo = IF i = 2 THEN 0 ELSE f[i - 1].hi
    <2> DEFINE c == streamChunkSize
               lo == (i - 2) * c
    <2>1. i \in 2 .. Len(f)
      BY <1>2, <1>4, <1>10
    <2>2. i - 1 \in 1 .. k /\ f[i] = chunk(m, n, dir, t, i - 1)
      BY <1>2, <1>10, <2>1, MessageFields DEF isItem, k
    <2>3. c \in Nat /\ i \in Int /\ (i - 1) - 1 = i - 2
      BY <1>2, <2>1, ChunkSizeAssumption
    <2>4. f[i].lo = lo /\ f[i].length = n
      BY <2>2, <2>3, ChunkFields
    <2>5. CASE i = 2
      BY <2>3, <2>4, <2>5
    <2>6. CASE i # 2
      <3>1. i - 1 \in 2 .. Len(f) /\ i - 1 # k + 2 /\ (i - 1) - 1 = i - 2
        BY <1>1, <1>2, <2>1, <2>2, <2>3, <2>6
      <3>2. isItem(f[i - 1], m, n, dir, t, i - 1)
        BY <1>2, <3>1
      <3>3. f[i - 1] = chunk(m, n, dir, t, i - 2)
        BY <3>1, <3>2 DEF isItem, k
      <3>4. f[i - 1].hi = lesser(lo, n)
        BY <3>3, ChunkFields
      <3>5. n # 0
        BY <2>1, <2>2, <2>3, <2>6, ChunkCount DEF k
      <3>6. (k - 1) * c < n
        BY <3>5, ChunkCount DEF k
      <3>7. \E d \in Nat : k - 1 = (i - 2) + d
        <4>1. (k - 1) - (i - 2) \in Nat /\ k - 1 = (i - 2) + ((k - 1) - (i - 2))
          BY <1>1, <2>2, <2>3
        <4> QED
          BY <4>1
      <3>8. PICK d \in Nat : k - 1 = (i - 2) + d
        BY <3>7
      <3> HIDE DEF c
      <3>9. d * c \in Nat /\ (k - 1) * c = lo + d * c /\ lo \in Int
        BY <2>3, <3>8
      <3>10. lesser(lo, n) = lo
        BY <3>6, <3>9 DEF lesser
      <3> QED
        BY <2>4, <2>6, <3>4, <3>10
    <2> QED
      BY <2>5, <2>6
  <1> QED
    BY <1>2, <1>6, <1>8, <1>9, <1>10 DEF f, OfWireTypes, Chained

\* The last chunk of a frame ends where the body does, and no chunk ends later or is
\* of another body.
LEMMA FrameLength ==
    ASSUME NEW m, NEW n \in Nat, NEW dir, NEW t \in BOOLEAN, NEW mutation,
           m.headers = HeadersResponse(dir, mutation, NoBody)
    PROVE  LET f == frame(m, n, dir, t)
           IN  /\ \E last \in DOMAIN f : f[last].type = "body" /\ f[last].hi = n
               /\ \A i \in DOMAIN f : f[i].type = "body" => f[i].hi <= n
               /\ Complete(f)
  <1> DEFINE f == frame(m, n, dir, t)
             k == chunkCount(n)
             c == streamChunkSize
  <1>1. k \in Nat \ {0} /\ n <= k * c /\ c \in Nat /\ k * c \in Nat
    <2>1. k \in Nat \ {0} /\ n <= k * c
      BY ChunkCount
    <2>2. c \in Nat
      BY ChunkSizeAssumption
    <2> HIDE DEF k, c
    <2> QED
      BY <2>1, <2>2
  <1> HIDE DEF f, k, c
  <1>2. /\ DOMAIN f = 1 .. Len(f) /\ Len(f) \in Nat /\ Len(f) >= 2
        /\ f[1] = m.headers
        /\ \A i \in 2 .. Len(f) : isItem(f[i], m, n, dir, t, i)
    BY FrameItems DEF f
  <1>3. (t => Len(f) = k + 2) /\ (~t => Len(f) = k + 1)
    BY FrameItems DEF f, k
  <1>4. f[1].type = "headers"
    BY <1>2, MessageFields
  <1>5. f[k + 1].type = "body" /\ f[k + 1].hi = n /\ k + 1 \in DOMAIN f
    <2>1. k + 1 \in 2 .. Len(f) /\ k + 1 # k + 2 /\ (k + 1) - 1 = k
      <3>1. k \in Nat \ {0} /\ (Len(f) = k + 1 \/ Len(f) = k + 2)
        BY <1>1, <1>3
      <3> QED
        BY <3>1
    <2>2. isItem(f[k + 1], m, n, dir, t, k + 1)
      BY <1>2, <2>1
    <2>3. f[k + 1] = chunk(m, n, dir, t, k)
      BY <2>1, <2>2 DEF isItem, k
    <2>4. f[k + 1].type = "body" /\ f[k + 1].hi = lesser(k * c, n)
      BY <2>3, ChunkFields DEF c
    <2>5. lesser(k * c, n) = n
      BY <1>1 DEF lesser
    <2>6. k + 1 \in DOMAIN f
      BY <1>2, <2>1
    <2> QED
      BY <2>4, <2>5, <2>6
  <1>6. ASSUME NEW i \in DOMAIN f, f[i].type = "body"
        PROVE  f[i].hi <= n /\ f[i].length = n /\ i <= k + 1
    <2>1. i # 1
      BY <1>4, <1>6
    <2>2. i \in 2 .. Len(f)
      BY <1>2, <2>1
    <2>3. isItem(f[i], m, n, dir, t, i)
      BY <1>2, <2>2
    <2>4. CASE t /\ i = k + 2 /\ f[i] = TrailersResponse(dir)
      BY <1>6, <2>4, MessageFields
    <2>5. CASE i - 1 \in 1 .. k /\ f[i] = chunk(m, n, dir, t, i - 1)
      <3> DEFINE p == (i - 1) * c
      <3>1. f[i].hi = lesser(p, n) /\ f[i].length = n
        BY <2>5, ChunkFields DEF c
      <3>4. i <= k + 1
        BY <1>1, <1>2, <2>2, <2>5
      <3>2. p \in Int
        BY <1>1, <2>2, <1>2
      <3> HIDE DEF p
      <3>3. lesser(p, n) <= n
        BY <3>2 DEF lesser
      <3> QED
        BY <3>1, <3>3, <3>4
    <2> QED
      BY <2>3, <2>4, <2>5 DEF isItem, k
  <1>7. Complete(f)
    BY <1>5, <1>6 DEF Complete
  <1> QED
    BY <1>5, <1>6, <1>7 DEF f

\* A response whose body travels in its headers message is a direction too.
LEMMA ReplacedOnWire ==
    ASSUME NEW body, body # NoBody, NEW n
    PROVE  LET f == newReplacedResponse(body, n)
           IN  /\ IsSeq(f) /\ Len(f) = 1 /\ DOMAIN f = {1}
               /\ isDirection(f, "response")
               /\ f[1].type = "headers" /\ f[1].replace = body
  <1> DEFINE h == HeadersResponse("response",
                    Mutation({"content-type", "content-length", ":status"}, contentHeaders, n), body)
             f == <<h>>
  <1>1. newReplacedResponse(body, n) = f
    BY DEF newReplacedResponse
  <1>2. h.type = "headers" /\ h.dir = "response" /\ h.replace = body
    BY MessageFields
  <1> HIDE DEF h
  <1>3. Len(f) = 1 /\ DOMAIN f = {1} /\ f[1] = h /\ f # <<>> /\ f \in Seq({h})
    OBVIOUS
  <1> HIDE DEF f
  <1>4. isDirection(f, "response")
    BY <1>2, <1>3 DEF isDirection, isTerminator
  <1> QED
    BY <1>1, <1>2, <1>3, <1>4 DEF IsSeq

\* Two parts of a wire, one after the other.
LEMMA Joined ==
    ASSUME NEW f, NEW g, IsSeq(f), IsSeq(g), f # <<>>, g # <<>>
    PROVE  LET w == f \o g
           IN  /\ IsSeq(w) /\ Len(w) \in Nat /\ Len(w) = Len(f) + Len(g) /\ DOMAIN w = 1 .. Len(w)
               /\ Len(f) \in 1 .. Len(w) - 1
               /\ SubSeq(w, 1, Len(f)) = f
               /\ SubSeq(w, Len(f) + 1, Len(w)) = g
               /\ \A i \in DOMAIN f : i \in DOMAIN w /\ w[i] = f[i]
               /\ \A i \in DOMAIN g : Len(f) + i \in DOMAIN w /\ w[Len(f) + i] = g[i]
               /\ \A i \in DOMAIN w : \/ i \in DOMAIN f /\ w[i] = f[i]
                                      \/ i - Len(f) \in DOMAIN g /\ w[i] = g[i - Len(f)]
  <1> DEFINE w == f \o g
  <1>1. PICK A : f \in Seq(A)
    BY DEF IsSeq
  <1>2. PICK B : g \in Seq(B)
    BY DEF IsSeq
  <1> DEFINE S == A \cup B
  <1>3. f \in Seq(S) /\ g \in Seq(S)
    BY <1>1, <1>2, SeqMonotonic
  <1> HIDE DEF S
  <1>4. /\ w \in Seq(S) /\ Len(w) = Len(f) + Len(g)
        /\ \A i \in 1 .. Len(f) + Len(g) : w[i] = IF i <= Len(f) THEN f[i] ELSE g[i - Len(f)]
    BY <1>3, ConcatProperties
  <1>5. /\ Len(f) \in Nat \ {0} /\ Len(g) \in Nat \ {0}
        /\ DOMAIN f = 1 .. Len(f) /\ DOMAIN g = 1 .. Len(g)
    BY <1>3, EmptySeq, LenProperties
  <1>6. DOMAIN w = 1 .. Len(w)
    BY <1>4, LenProperties
  <1> HIDE DEF w
  <1>7. SubSeq(w, 1, Len(f)) = f
    <2>1. 1 \in 1 .. Len(f) /\ Len(f) \in 1 .. Len(f)
      BY <1>5
    <2>2. SubSeq(w, 1, Len(f)) = SubSeq(f, 1, Len(f))
      BY <1>3, <2>1, SubSeqOfConcat1 DEF w
    <2> QED
      BY <1>3, <2>2, SubSeqFull
  <1>8. SubSeq(w, Len(f) + 1, Len(w)) = g
    <2> DEFINE p == Len(f) + 1
               q == Len(f) + Len(g)
    <2>1. p \in Len(f)+1 .. Len(f)+Len(g) /\ q \in Len(f)+1 .. Len(f)+Len(g)
      BY <1>5
    <2>2. p - Len(f) = 1 /\ q - Len(f) = Len(g)
      BY <1>5
    <2>3. SubSeq(w, p, q) = SubSeq(g, p - Len(f), q - Len(f))
      BY <1>3, <2>1, SubSeqOfConcat2 DEF w
    <2> QED
      BY <1>3, <1>4, <2>2, <2>3, SubSeqFull
  <1>9. \A i \in DOMAIN f : i \in DOMAIN w /\ w[i] = f[i]
    BY <1>4, <1>5, <1>6
  <1>10. ASSUME NEW i \in DOMAIN g PROVE Len(f) + i \in DOMAIN w /\ w[Len(f) + i] = g[i]
    <2>1. Len(f) + i \in 1 .. Len(f) + Len(g) /\ ~(Len(f) + i <= Len(f)) /\ Len(f) + i - Len(f) = i
      BY <1>5
    <2> QED
      BY <1>4, <1>6, <2>1
  <1>11. ASSUME NEW i \in DOMAIN w
         PROVE  \/ i \in DOMAIN f /\ w[i] = f[i]
                \/ i - Len(f) \in DOMAIN g /\ w[i] = g[i - Len(f)]
    BY <1>4, <1>5, <1>6
  <1>12. Len(f) \in 1 .. Len(w) - 1 /\ Len(w) \in Nat
    BY <1>4, <1>5
  <1> QED
    BY <1>4, <1>6, <1>7, <1>8, <1>9, <1>10, <1>11, <1>12 DEF w, IsSeq

-----------------------------------------------------------------------------
(* The replies of a cycle, as functions of what arrived in it.              *)

\* What the handler makes of the bytes and of the headers of o.
callOf(o, bytes) == mcpRequestHandler(bytes, captureMCPRequestHeaders(o.headers))
\* The context of that call once the response headers u are there.
contextOf(o, bytes, u) ==
    [id |-> callOf(o, bytes).Id, config |-> callOf(o, bytes).ToolResponseConfig,
     status |-> parseUpstreamStatusCode(u.status), era |-> callOf(o, bytes).Era]

\* The headers o open a cycle that gets as far as its body.
Admitted(o) == o \in HeadersMessages /\ ~badMethod(o) /\ o.allowed

\* The replies of a cycle that is refused.
RefusalFrame(w) == \E x : x.type = "immediate" /\ w = immediateResponse(x)

\* The replies of a cycle whose call goes upstream.
RequestFrame(w, o, bytes) ==
    /\ callOf(o, bytes).Reroute # NoReroute
    /\ \E n \in EncodedSizes, t \in BOOLEAN : w = frame(callOf(o, bytes).Reroute, n, "request", t)

\* The text the answer carries.
textOf(o, bytes, u, resp) ==
    IF u.eos THEN EmptyText(contextOf(o, bytes, u).status) ELSE BodyText(resp)

\* The answer itself.
answerOf(o, bytes, u, resp) ==
    buildMCPResponse(contextOf(o, bytes, u), textOf(o, bytes, u, resp))

\* The replies that carry the answer back.
ResponseFrame(w, o, bytes, u, resp) ==
    /\ isToolCall(contextOf(o, bytes, u)) /\ u \in StatusMessages
    /\ \/ /\ u.eos
          /\ \E n \in EncodedSizes : w = newReplacedResponse(answerOf(o, bytes, u, resp), n)
       \/ /\ ~u.eos
          /\ \E n \in EncodedSizes, t \in BOOLEAN :
               w = frame(mcpResponseHandler(contextOf(o, bytes, u), resp, n), n, "response", t)

\* The era a call declares in its own _meta.
eraOf(m) == IF isModernVersion(m.params.meta) THEN Modern ELSE Legacy

\* The call m that opened the cycle is admissible, and the context is made of it.
IsCall(m, o, bytes) ==
    /\ m \in RequestBodies /\ bytes = Whole(m) /\ isAdmissible(m, o.headers)
    /\ callOf(o, bytes).Id = m.id /\ callOf(o, bytes).ToolResponseConfig = m.params.name
    /\ callOf(o, bytes).Era = eraOf(m)

\* w sends m to its endpoint, without the headers that o has for MCP only.
SendsCall(w, m, o) ==
    /\ IsSeq(w) /\ Len(w) \in Nat /\ Len(w) >= 2 /\ DOMAIN w = 1 .. Len(w)
    /\ isDirection(w, "request") /\ w[2].type = "body"
    /\ \A i \in DOMAIN w : w[i].type = "body" => w[i].body = Endpoint(m.params.name, m.params)
    /\ OfWireTypes(w) /\ Chained(w) /\ Complete(w)
    /\ {o.headers[i].key : i \in DOMAIN o.headers} \cap MCPKeys \subseteq w[1].mutation.remove
    /\ w[1].mutation # EmptyMutation

\* An upstream request has a body: NoReroute is none.
LEMMA RerouteHasBody ==
    ASSUME NEW tool, NEW params, NEW strip
    PROVE  rerouteWithBodyMutation(Endpoint(tool, params), strip) # NoReroute
  <1> DEFINE e == Endpoint(tool, params)
  <1>1. e.form = "endpoint" /\ NoBody.form = "none"
    BY DEF Endpoint, NoBody
  <1> HIDE DEF e
  <1>2. e # NoBody
    BY <1>1
  <1>3. rerouteWithBodyMutation(e, strip).body = e /\ NoReroute.body = NoBody
    BY DEF rerouteWithBodyMutation, NoReroute
  <1> QED
    BY <1>2, <1>3 DEF e

\* A refusal leaves no call to be answered.
LEMMA RefusedCall ==
    ASSUME NEW o, Admitted(o), NEW bytes
    PROVE  /\ callOf(o, bytes).Reroute = NoReroute =>
                /\ RefusalFrame(callOf(o, bytes).Immediate)
                /\ callOf(o, bytes).ToolResponseConfig = NoTool
           /\ callOf(o, bytes).Reroute # NoReroute =>
                \E m : /\ IsCall(m, o, bytes)
                       /\ callOf(o, bytes).Reroute =
                            rerouteWithBodyMutation(Endpoint(m.params.name, m.params),
                                captureMCPRequestHeaders(o.headers).paramHeaderNames)
  <1> DEFINE r == callOf(o, bytes)
             strip == captureMCPRequestHeaders(o.headers).paramHeaderNames
  <1>1. o.headers \in HeaderLists
    BY DEF Admitted, HeadersMessages
  <1>2. \/ Refuses(r)
        \/ \E m \in RequestBodies :
             bytes = Whole(m) /\ isAdmissible(m, o.headers) /\ Forwards(r, eraOf(m), m, strip)
    BY <1>1, HandlerSplits DEF callOf, eraOf
  <1>3. CASE Refuses(r)
    BY <1>3 DEF Refuses, RefusalFrame
  <1>4. ASSUME NEW m \in RequestBodies, bytes = Whole(m), isAdmissible(m, o.headers),
               Forwards(r, eraOf(m), m, strip)
        PROVE  /\ IsCall(m, o, bytes)
               /\ r.Reroute = rerouteWithBodyMutation(Endpoint(m.params.name, m.params), strip)
               /\ r.Reroute # NoReroute
    BY <1>4, RerouteHasBody DEF Forwards, IsCall
  <1> HIDE DEF r, strip
  <1>5. ASSUME NEW m \in RequestBodies, bytes = Whole(m), isAdmissible(m, o.headers),
               Forwards(r, eraOf(m), m, strip)
        PROVE  /\ r.Reroute # NoReroute
               /\ \E c : /\ IsCall(c, o, bytes)
                         /\ r.Reroute = rerouteWithBodyMutation(Endpoint(c.params.name, c.params), strip)
    BY <1>4, <1>5
  <1>6. \/ Refuses(r)
        \/ /\ r.Reroute # NoReroute
           /\ \E c : /\ IsCall(c, o, bytes)
                     /\ r.Reroute = rerouteWithBodyMutation(Endpoint(c.params.name, c.params), strip)
    BY <1>2, <1>5
  <1>7. CASE r.Reroute = NoReroute
    BY <1>3, <1>6, <1>7 DEF r, strip, Refuses
  <1>8. CASE r.Reroute # NoReroute
    BY <1>6, <1>8 DEF r, strip, Refuses
  <1> QED
    BY <1>7, <1>8 DEF r

\* What is sent upstream.
LEMMA RequestFacts ==
    ASSUME NEW o, Admitted(o), NEW bytes, NEW w, RequestFrame(w, o, bytes)
    PROVE  \E m : IsCall(m, o, bytes) /\ SendsCall(w, m, o)
  <1> DEFINE strip == captureMCPRequestHeaders(o.headers).paramHeaderNames
             keys == {o.headers[i].key : i \in DOMAIN o.headers}
  <1>1. PICK m : /\ IsCall(m, o, bytes)
                 /\ callOf(o, bytes).Reroute =
                      rerouteWithBodyMutation(Endpoint(m.params.name, m.params), strip)
    BY RefusedCall DEF RequestFrame
  <1> DEFINE e == Endpoint(m.params.name, m.params)
             R == rerouteWithBodyMutation(e, strip)
             mutation == Mutation({":method", ":path", ":authority", "accept"},
                                  removeOnRoutingHeaders \cup strip, NoLength)
  <1>2. PICK n \in EncodedSizes, t \in BOOLEAN : w = frame(R, n, "request", t)
    BY <1>1 DEF RequestFrame
  <1>3. n \in Nat
    BY <1>2, HandlerAssumption
  <1>4. R.headers = HeadersResponse("request", mutation, NoBody) /\ R.body = e
    BY DEF rerouteWithBodyMutation
  <1>5. mutation.remove = removeOnRoutingHeaders \cup strip
    BY DEF Mutation
  <1>6. strip = keys \cap ParamKeys
    BY DEF captureMCPRequestHeaders
  <1>7. keys \cap MCPKeys \subseteq mutation.remove
    BY <1>5, <1>6 DEF MCPKeys, removeOnRoutingHeaders, headerMCPProtocolVersion,
                      headerMCPMethod, headerMCPName
  <1> HIDE DEF strip, keys, e, R, mutation
  <1>8. /\ IsSeq(w) /\ Len(w) \in Nat /\ Len(w) >= 2 /\ DOMAIN w = 1 .. Len(w)
        /\ w[1] = R.headers /\ w[2].type = "body"
        /\ isDirection(w, "request")
        /\ \A i \in DOMAIN w : w[i].type = "body" => w[i].body = R.body
        /\ OfWireTypes(w) /\ Chained(w)
    BY <1>2, <1>3, <1>4, FrameOnWire
  <1>12. Complete(w)
    BY <1>2, <1>3, <1>4, FrameLength
  <1>9. w[1].mutation = mutation
    BY <1>4, <1>8, MessageFields
  <1>10. mutation # EmptyMutation
    <2>1. "accept" \in mutation.set /\ EmptyMutation.set = {}
      BY DEF mutation, Mutation, EmptyMutation
    <2> QED
      BY <2>1
  <1>11. SendsCall(w, m, o)
    BY <1>4, <1>7, <1>8, <1>9, <1>10, <1>12 DEF SendsCall, keys, e
  <1> QED
    BY <1>1, <1>11

-----------------------------------------------------------------------------
(* What the replies of each kind are like.                                  *)

\* g answers with the body a, whose announced length is the one streamed.
SendsAnswer(g, a) ==
    /\ IsSeq(g) /\ g # <<>>
    /\ isDirection(g, "response") /\ OfWireTypes(g) /\ Chained(g)
    /\ g[1].replace = NoBody => Complete(g)
    /\ \A i \in DOMAIN g : /\ g[i].type = "body" => g[i].body = a
                           /\ g[i].type = "headers" => g[i].replace \in {NoBody, a}
    /\ \A i \in DOMAIN g : g[i].type = "body" =>
          \E h, last \in DOMAIN g :
             /\ g[h].type = "headers" /\ g[last].type = "body"
             /\ g[h].mutation.length = g[last].hi
             /\ g[i].hi <= g[last].hi

\* A translated body is one.
LEMMA AnswerHasForm ==
    ASSUME NEW c, NEW text
    PROVE  buildMCPResponse(c, text) # NoBody
  <1>1. NoBody.form = "none"
    BY DEF NoBody
  <1>2. \A id, x : JsonRpcResult(id, x).form = "result" /\ JsonRpcError(id, x).form = "error"
    BY DEF JsonRpcResult, JsonRpcError
  <1>3. \E id, x : buildMCPResponse(c, text) \in {JsonRpcResult(id, x), JsonRpcError(id, x)}
    BY DEF buildMCPResponse
  <1> QED
    BY <1>1, <1>2, <1>3

\* What is sent back to the client.
LEMMA ResponseFacts ==
    ASSUME NEW o, NEW bytes, NEW u, NEW resp, NEW g, ResponseFrame(g, o, bytes, u, resp)
    PROVE  SendsAnswer(g, answerOf(o, bytes, u, resp))
  <1> DEFINE a == answerOf(o, bytes, u, resp)
             ctx == contextOf(o, bytes, u)
  <1>1. a # NoBody
    BY AnswerHasForm DEF answerOf
  <1>2. CASE u.eos
    <2>1. PICK n \in EncodedSizes : g = newReplacedResponse(a, n)
      BY <1>2 DEF ResponseFrame
    <2> HIDE DEF a
    <2>2. /\ IsSeq(g) /\ Len(g) = 1 /\ DOMAIN g = {1}
          /\ isDirection(g, "response")
          /\ g[1].type = "headers" /\ g[1].replace = a
      BY <1>1, <2>1, ReplacedOnWire
    <2>3. g # <<>>
      BY <2>2 DEF isDirection
    <2> QED
      BY <1>1, <2>2, <2>3 DEF SendsAnswer, a, OfWireTypes, wireTypes, Chained
  <1>3. CASE ~u.eos
    <2>1. PICK n \in EncodedSizes, t \in BOOLEAN :
             g = frame(mcpResponseHandler(ctx, resp, n), n, "response", t)
      BY <1>3 DEF ResponseFrame
    <2> DEFINE M == mcpResponseHandler(ctx, resp, n)
    <2>2. n \in Nat
      BY <2>1, HandlerAssumption
    <2>3. M.headers = HeadersResponse("response", responseMutation(n), NoBody)
      BY DEF mcpResponseHandler
    <2>4. M.body = a
      BY <1>3 DEF mcpResponseHandler, answerOf, textOf
    <2>5. responseMutation(n).length = n
      BY DEF responseMutation, Mutation
    <2> HIDE DEF a, M, ctx
    <2>6. g = frame(M, n, "response", t)
      BY <2>1 DEF M, ctx
    <2>7. /\ IsSeq(g) /\ Len(g) \in Nat /\ Len(g) >= 2 /\ DOMAIN g = 1 .. Len(g)
          /\ g[1] = M.headers
          /\ isDirection(g, "response")
          /\ \A i \in DOMAIN g : g[i].type = "body" => g[i].body = M.body
          /\ \A i \in DOMAIN g : g[i].type = "headers" => g[i].replace = NoBody
          /\ OfWireTypes(g) /\ Chained(g)
      BY <2>2, <2>3, <2>6, FrameOnWire
    <2>8. /\ \E last \in DOMAIN g : g[last].type = "body" /\ g[last].hi = n
          /\ \A i \in DOMAIN g : g[i].type = "body" => g[i].hi <= n
          /\ Complete(g)
      BY <2>2, <2>3, <2>6, FrameLength
    <2>9. 1 \in DOMAIN g /\ g # <<>>
      BY <2>7
    <2>10. g[1].type = "headers" /\ g[1].mutation.length = n
      BY <2>3, <2>5, <2>7, MessageFields
    <2>11. \A i \in DOMAIN g : g[i].type = "body" =>
             \E h, last \in DOMAIN g :
                /\ g[h].type = "headers" /\ g[last].type = "body"
                /\ g[h].mutation.length = g[last].hi
                /\ g[i].hi <= g[last].hi
      BY <2>8, <2>9, <2>10
    <2> QED
      BY <2>4, <2>7, <2>8, <2>9, <2>11 DEF SendsAnswer, a
  <1> QED
    BY <1>2, <1>3

\* Nothing but the request direction is in a call, and a call is no refusal.
LEMMA RefusalFacts ==
    ASSUME NEW w, RefusalFrame(w)
    PROVE  /\ IsSeq(w) /\ isRefusal(w) /\ DOMAIN w = 1 .. 2
           /\ w[1].type = "headers" /\ w[1].dir = "request" /\ w[2].type = "immediate"
  <1> DEFINE h == HeadersResponse("request", EmptyMutation, NoBody)
  <1>1. PICK x : x.type = "immediate" /\ w = <<h, x>>
    BY DEF RefusalFrame, immediateResponse
  <1>2. h.type = "headers" /\ h.dir = "request"
    BY MessageFields
  <1> HIDE DEF h
  <1>3. w \in Seq({h, x}) /\ Len(w) = 2 /\ DOMAIN w = 1 .. 2 /\ w[1] = h /\ w[2] = x
    BY <1>1
  <1> QED
    BY <1>1, <1>2, <1>3 DEF isRefusal, IsSeq, h

-----------------------------------------------------------------------------
(* The replies on the wire, state by state.                                 *)

\* A complete request: refused or sent upstream, as the handler said.
RequestOnWire ==
    IF callOf(opened, reqBytes).Reroute = NoReroute THEN RefusalFrame(wire)
    ELSE RequestFrame(wire, opened, reqBytes)

\* The call is upstream and the head of its response has arrived.
AwaitsAnswer ==
    /\ RequestFrame(wire, opened, reqBytes)
    /\ isToolCall(contextOf(opened, reqBytes, upstream))
    /\ upstream \in StatusMessages /\ ~upstream.eos

\* The call and after it its answer are on the wire.
Answered ==
    /\ Admitted(opened)
    /\ \E f, g : /\ wire = f \o g
                 /\ RequestFrame(f, opened, reqBytes)
                 /\ ResponseFrame(g, opened, reqBytes, upstream, respBytes)

\* The stream has not opened a cycle yet.
Unused == sent = <<>> /\ reps = <<>> /\ cycles = 0

\* What the replies of the cycle are, by the state.
WireInv ==
    /\ IsSeq(sent) /\ IsSeq(reps)
    /\ state \in {DrainingRequest, BufferingRequest} => sent = <<>> /\ reps = <<>>
    /\ state \in {BufferingRequest, AwaitingResponseHeaders, BufferingResponse} => Admitted(opened)
    /\ state = AwaitingResponseHeaders => RequestOnWire
    /\ state = BufferingResponse => AwaitsAnswer
    /\ state = AwaitingRequestHeaders => Unused \/ RefusalFrame(wire) \/ Answered

\* The empty sequence adds nothing to a wire.
LEMMA EmptyParts ==
    ASSUME NEW w, IsSeq(w)
    PROVE  <<>> \o w = w /\ w \o <<>> = w /\ IsSeq(<<>>)
  BY ConcatEmptySeq DEF IsSeq

\* A new stream has an empty wire.
LEMMA InitWire == Init => WireInv
  <1> SUFFICES ASSUME Init PROVE WireInv
    OBVIOUS
  <1>1. state = AwaitingRequestHeaders /\ Unused
    BY DEF Init, Unused
  <1>2. IsSeq(<<>>)
    BY EmptySeq DEF IsSeq
  <1> QED
    BY <1>1, <1>2, StatesDiffer DEF WireInv, Unused

\* A step after which the cycle has only the replies of a refusal.
LEMMA RefuseWire ==
    ASSUME NEW status, NEW content, state' = AwaitingRequestHeaders, sent' = <<>>,
           reps' = immediateResponse(ImmediateResponse(status, content))
    PROVE  WireInv' /\ RefusalFrame(wire)'
  <1>1. RefusalFrame(reps')
    BY DEF RefusalFrame, ImmediateResponse
  <1>2. IsSeq(reps')
    BY <1>1, RefusalFacts
  <1>3. wire' = reps' /\ IsSeq(sent')
    BY <1>2, EmptyParts DEF wire
  <1>4. RefusalFrame(wire')
    BY <1>1, <1>3
  <1>5. RefusalFrame(wire)'
    BY <1>4
  <1> QED
    BY <1>2, <1>3, <1>5, StatesDiffer DEF WireInv

\* A step that changes neither the wire nor what it is compared with.
LEMMA QuietWire ==
    ASSUME WireInv, UNCHANGED <<state, opened, reqBytes, upstream, respBytes, cycles>>,
           IsSeq(sent'), IsSeq(reps'), wire' = wire,
           sent = <<>> /\ reps = <<>> => sent' = <<>> /\ reps' = <<>>
    PROVE  WireInv'
  <1>1. /\ RequestOnWire => RequestOnWire'
        /\ AwaitsAnswer => AwaitsAnswer'
        /\ Answered => Answered'
        /\ RefusalFrame(wire) => RefusalFrame(wire)'
        /\ Unused => Unused'
        /\ Admitted(opened) => Admitted(opened)'
    BY DEF RequestOnWire, AwaitsAnswer, Answered, Unused
  <1> QED
    BY <1>1 DEF WireInv

\* Sending a reply moves it along the wire.
LEMMA SentStaysOnWire ==
    ASSUME IsSeq(sent), IsSeq(reps), Send
    PROVE  wire' = wire /\ IsSeq(sent') /\ IsSeq(reps')
  <1>1. reps # <<>> /\ sent' = Append(sent, Head(reps)) /\ reps' = Tail(reps)
    BY DEF Send
  <1>2. PICK A : sent \in Seq(A)
    BY DEF IsSeq
  <1>3. PICK B : reps \in Seq(B)
    BY DEF IsSeq
  <1> DEFINE S == A \cup B
  <1>4. sent \in Seq(S) /\ reps \in Seq(S)
    BY <1>2, <1>3, SeqMonotonic
  <1> HIDE DEF S
  <1>5. /\ Head(reps) \in S /\ Tail(reps) \in Seq(S) /\ Len(Tail(reps)) = Len(reps) - 1
        /\ \A i \in 1 .. Len(Tail(reps)) : Tail(reps)[i] = reps[i + 1]
    BY <1>1, <1>4, HeadTailProperties
  <1>6. sent' = sent \o <<Head(reps)>> /\ sent' \in Seq(S)
    BY <1>1, <1>4, <1>5, AppendIsConcat, AppendProperties
  <1>7. reps = <<Head(reps)>> \o Tail(reps)
    <2>1. Len(reps) \in Nat \ {0}
      BY <1>1, <1>4, EmptySeq
    <2>2. 1 \in 1 .. Len(reps) /\ Len(reps) \in 1 .. Len(reps)
      BY <2>1
    <2>3. SubSeq(reps, 1, Len(reps)) = <<reps[1]>> \o SubSeq(reps, 1 + 1, Len(reps))
      BY <1>4, <2>2, SubSeqRecursiveFirst
    <2>4. SubSeq(reps, 1, Len(reps)) = reps
      BY <1>4, SubSeqFull
    <2>5. Tail(reps) = SubSeq(reps, 2, Len(reps))
      BY <1>1, <1>4, TailIsSubSeq
    <2>6. Head(reps) = reps[1]
      OBVIOUS
    <2> QED
      BY <2>3, <2>4, <2>5, <2>6
  <1>8. wire' = wire
    <2>1. <<Head(reps)>> \in Seq(S)
      BY <1>5
    <2>2. (sent \o <<Head(reps)>>) \o Tail(reps) = sent \o (<<Head(reps)>> \o Tail(reps))
      BY <1>4, <1>5, <2>1, ConcatAssociative
    <2> QED
      BY <1>1, <1>6, <1>7, <2>2 DEF wire
  <1> QED
    BY <1>1, <1>5, <1>6, <1>8 DEF IsSeq

\* So it keeps WireInv.
LEMMA SendWire ==
    ASSUME WireInv, Send
    PROVE  WireInv'
  <1>1. wire' = wire /\ IsSeq(sent') /\ IsSeq(reps')
    BY SentStaysOnWire DEF WireInv
  <1>2. UNCHANGED <<state, opened, reqBytes, upstream, respBytes, cycles>> /\ reps # <<>>
    BY DEF Send
  <1> QED
    BY <1>1, <1>2, QuietWire

-----------------------------------------------------------------------------
(* Every handler keeps WireInv.                                             *)

\* A message has the fields of its type.
LEMMA MessageKinds ==
    ASSUME NEW m \in Messages
    PROVE  /\ m.type = "RequestHeaders" => m \in HeadersMessages
           /\ m.type = "ResponseHeaders" => m \in StatusMessages
  BY DEF Messages, HeadersMessages, StatusMessages, BodyMessages, RequestTrailers,
         ResponseTrailers, NoMessage

\* A tool call is only what was forwarded.
LEMMA CallIsForwarded ==
    ASSUME NEW o, Admitted(o), NEW bytes, NEW u, isToolCall(contextOf(o, bytes, u))
    PROVE  callOf(o, bytes).Reroute # NoReroute
  <1>1. contextOf(o, bytes, u).config = callOf(o, bytes).ToolResponseConfig
    BY DEF contextOf
  <1> QED
    BY <1>1, RefusedCall DEF isToolCall

\* The request context, when there is one.
LEMMA ContextKnown ==
    ASSUME IInv
    PROVE  /\ state = AwaitingResponseHeaders =>
                request = [contextOf(opened, reqBytes, upstream) EXCEPT !.status = 0]
           /\ state = BufferingResponse => request = contextOf(opened, reqBytes, upstream)
  BY StatesDiffer DEF IInv, ContextIsThisCycles, contextOf, callOf

\* Recording the status completes the context of the cycle.
LEMMA ContextCompleted ==
    ASSUME IInv, NEW m \in Messages, ReceivesToolResponse(m)
    PROVE  /\ withStatus(request, m) = contextOf(opened, reqBytes, m)
           /\ isToolCall(contextOf(opened, reqBytes, m))
           /\ m \in StatusMessages
  <1>1. /\ state = AwaitingResponseHeaders /\ isToolCall(request)
        /\ m.type = "ResponseHeaders" /\ request \in Contexts
    BY DEF ReceivesToolResponse, Receives, IInv, TypeOK
  <1>2. request = [contextOf(opened, reqBytes, upstream) EXCEPT !.status = 0]
    BY <1>1, ContextKnown
  <1>3. /\ request.status = 0 /\ request.id = callOf(opened, reqBytes).Id
        /\ request.config = callOf(opened, reqBytes).ToolResponseConfig
        /\ request.era = callOf(opened, reqBytes).Era
    BY <1>2 DEF contextOf
  <1>4. withStatus(request, m) = [request EXCEPT !.status = parseUpstreamStatusCode(m.status)]
    BY <1>1, <1>3, StatusTyped
  <1>5. withStatus(request, m) = contextOf(opened, reqBytes, m)
    BY <1>1, <1>3, <1>4 DEF contextOf, Contexts
  <1>6. isToolCall(contextOf(opened, reqBytes, m))
    BY <1>1, <1>3 DEF isToolCall, contextOf
  <1> QED
    BY <1>1, <1>5, <1>6, MessageKinds

\* The last piece of the request body puts the whole request on the wire.
LEMMA FinalizeWire ==
    ASSUME IInv, WireInv, NEW m \in Messages, FinalizeRequest(m)
    PROVE  WireInv'
  <1> DEFINE c == callOf(opened, reqBytes')
  <1>1. /\ state = BufferingRequest /\ state' = AwaitingResponseHeaders
        /\ UNCHANGED <<opened, sent>> /\ buf' = buf \o payloadOf(m)
        /\ reqBytes' = reqBytes \o payloadOf(m)
    BY DEF FinalizeRequest, ReceivesRequestBody, Receives
  <1>2. buf' = reqBytes' /\ mcpHeaders = captureMCPRequestHeaders(opened.headers)
    BY <1>1 DEF IInv, BufferHoldsThisBody, HeadersAreThisCycles
  <1>3. mcpRequestHandler(buf', mcpHeaders) = c
    BY <1>2 DEF callOf
  <1>4. \/ /\ c.Reroute # NoReroute
           /\ \E n \in EncodedSizes : reps' = frame(c.Reroute, n, "request", isTrailers(m))
        \/ c.Reroute = NoReroute /\ reps' = c.Immediate
    BY <1>3 DEF FinalizeRequest
  <1>5. isTrailers(m) \in BOOLEAN
    BY DEF isTrailers
  <1>6. sent' = <<>> /\ Admitted(opened)
    BY <1>1, StatesDiffer DEF WireInv
  <1> HIDE DEF c
  <1>7. \/ c.Reroute # NoReroute /\ RequestFrame(reps', opened, reqBytes')
        \/ c.Reroute = NoReroute /\ RefusalFrame(reps')
    <2>1. CASE c.Reroute = NoReroute
      BY <1>4, <1>6, <2>1, RefusedCall DEF c
    <2>2. CASE c.Reroute # NoReroute
      BY <1>4, <1>5, <2>2 DEF RequestFrame, c
    <2> QED
      BY <2>1, <2>2
  <1>8. IsSeq(reps')
    BY <1>6, <1>7, RequestFacts, RefusalFacts DEF SendsCall
  <1>9. wire' = reps' /\ IsSeq(sent')
    BY <1>6, <1>8, EmptyParts DEF wire
  <1>10. RequestOnWire'
    BY <1>1, <1>7, <1>9 DEF RequestOnWire, c
  <1>11. Admitted(opened)'
    BY <1>1, <1>6
  <1> QED
    BY <1>1, <1>8, <1>9, <1>10, <1>11, StatesDiffer DEF WireInv

\* The response joins the request that is already on the wire.
LEMMA AnswerWire ==
    ASSUME WireInv, reps = <<>>, Admitted(opened), RequestFrame(wire, opened, reqBytes),
           state' = AwaitingRequestHeaders, UNCHANGED <<opened, reqBytes, sent>>,
           ResponseFrame(reps', opened, reqBytes, upstream', respBytes')
    PROVE  WireInv' /\ Answered'
  <1>1. IsSeq(sent) /\ wire = sent
    BY EmptyParts DEF wire, WireInv
  <1>2. wire' = sent \o reps'
    BY DEF wire
  <1>3. IsSeq(reps')
    BY ResponseFacts DEF SendsAnswer
  <1>4. /\ wire' = sent \o reps' /\ RequestFrame(sent, opened', reqBytes')
        /\ ResponseFrame(reps', opened', reqBytes', upstream', respBytes')
    BY <1>1, <1>2
  <1>5. Answered'
    <2>1. Admitted(opened')
      OBVIOUS
    <2>2. \E f, g : /\ wire' = f \o g
                    /\ RequestFrame(f, opened', reqBytes')
                    /\ ResponseFrame(g, opened', reqBytes', upstream', respBytes')
      BY <1>4
    <2> QED
      BY <2>1, <2>2 DEF Answered
  <1> QED
    BY <1>1, <1>3, <1>5, StatesDiffer DEF WireInv

\* A refusal ends the cycle, with nothing else on the wire.
LEMMA RefusalEndsCycle ==
    ASSUME WireInv, NEW m \in Messages,
           MethodNotAllowed(m) \/ Forbidden(m) \/ MissingBody(m) \/ RejectDrained(m)
    PROVE  WireInv' /\ RefusalFrame(wire)'
  <1>1. CASE MethodNotAllowed(m)
    BY <1>1, RefuseWire DEF MethodNotAllowed, RefuseAtHeaders, Opens, Receives,
                            methodNotAllowedResponse, httpStatusResponse
  <1>2. CASE Forbidden(m)
    BY <1>2, RefuseWire DEF Forbidden, RefuseAtHeaders, Opens, Receives,
                            forbiddenResponse, httpStatusResponse
  <1>3. CASE MissingBody(m)
    BY <1>3, RefuseWire DEF MissingBody, RefuseAtHeaders, Opens, Receives,
                            newImmediateBodyResponse, newImmediateBodyResponseWithStatus
  <1>4. CASE RejectDrained(m)
    <2>1. state = DrainingRequest /\ state' = AwaitingRequestHeaders /\ sent' = sent
      BY <1>4 DEF RejectDrained, ReceivesRequestBody, Receives
    <2>2. sent' = <<>>
      BY <2>1, StatesDiffer DEF WireInv
    <2> QED
      BY <1>4, <2>1, <2>2, RefuseWire DEF RejectDrained, forbiddenResponse, httpStatusResponse
  <1> QED
    BY <1>1, <1>2, <1>3, <1>4

\* An answer ends the cycle, after the call on the wire.
LEMMA AnswerEndsCycle ==
    ASSUME IInv, WireInv, NEW m \in Messages, ReplaceEmptyResponse(m) \/ FinalizeResponse(m)
    PROVE  WireInv' /\ Answered'
  <1>1. CASE ReplaceEmptyResponse(m)
    <2>1. /\ ReceivesToolResponse(m) /\ m.eos /\ reps = <<>>
          /\ state = AwaitingResponseHeaders /\ state' = AwaitingRequestHeaders
          /\ upstream' = m /\ UNCHANGED <<opened, reqBytes, sent>>
      BY <1>1 DEF ReplaceEmptyResponse, ReceivesToolResponse, Receives
    <2>2. /\ withStatus(request, m) = contextOf(opened, reqBytes, m)
          /\ isToolCall(contextOf(opened, reqBytes, m)) /\ m \in StatusMessages
      BY <2>1, ContextCompleted
    <2>3. Admitted(opened) /\ RequestOnWire
      BY <2>1 DEF WireInv
    <2>4. RequestFrame(wire, opened, reqBytes)
      BY <2>2, <2>3, CallIsForwarded DEF RequestOnWire
    <2>5. PICK n \in EncodedSizes \ {0} :
             reps' = buildEndOfStreamResponse(contextOf(opened, reqBytes, m), n)
      BY <1>1, <2>2 DEF ReplaceEmptyResponse
    <2>6. reps' = newReplacedResponse(answerOf(opened, reqBytes, m, respBytes'), n)
      BY <2>1, <2>5 DEF buildEndOfStreamResponse, answerOf, textOf
    <2>7. ResponseFrame(reps', opened, reqBytes, m, respBytes')
      BY <2>1, <2>2, <2>6 DEF ResponseFrame
    <2> QED
      BY <2>1, <2>3, <2>4, <2>7, AnswerWire
  <1>2. CASE FinalizeResponse(m)
    <2>1. /\ state = BufferingResponse /\ state' = AwaitingRequestHeaders /\ reps = <<>>
          /\ respBytes' = respBytes \o payloadOf(m) /\ buf' = buf \o payloadOf(m)
          /\ UNCHANGED <<opened, reqBytes, upstream, sent>>
      BY <1>2 DEF FinalizeResponse, ReceivesResponseBody, Receives
    <2>2. AwaitsAnswer /\ Admitted(opened)
      BY <2>1 DEF WireInv
    <2>3. buf' = respBytes' /\ request = contextOf(opened, reqBytes, upstream)
      BY <2>1, ContextKnown DEF IInv, BufferHoldsThisBody
    <2>4. PICK n \in EncodedSizes \ {0} :
             reps' = frame(mcpResponseHandler(request, buf', n), n, "response", isTrailers(m))
      BY <1>2 DEF FinalizeResponse
    <2>5. isTrailers(m) \in BOOLEAN
      BY DEF isTrailers
    <2>6. ResponseFrame(reps', opened, reqBytes, upstream, respBytes')
      BY <2>2, <2>3, <2>4, <2>5 DEF ResponseFrame, AwaitsAnswer
    <2> QED
      BY <2>1, <2>2, <2>6, AnswerWire DEF AwaitsAnswer
  <1> QED
    BY <1>1, <1>2

\* Every handler keeps WireInv.
LEMMA HandleWire ==
    ASSUME IInv, WireInv, NEW m \in Messages, Handle(m)
    PROVE  WireInv'
  <1>1. CASE MethodNotAllowed(m) \/ Forbidden(m) \/ MissingBody(m) \/ RejectDrained(m)
    BY <1>1, RefusalEndsCycle
  <1>2. CASE ReplaceEmptyResponse(m) \/ FinalizeResponse(m)
    BY <1>2, AnswerEndsCycle
  <1>3. CASE StartDraining(m)
    <2>1. state' = DrainingRequest /\ sent' = <<>> /\ reps' = <<>>
      BY <1>3 DEF StartDraining, Opens, Receives
    <2> QED
      BY <2>1, EmptyParts, StatesDiffer DEF WireInv
  <1>4. CASE StartBufferingRequest(m)
    <2>1. /\ state' = BufferingRequest /\ sent' = <<>> /\ reps' = <<>> /\ opened' = m
          /\ m.type = "RequestHeaders" /\ ~badMethod(m) /\ m.allowed
      BY <1>4 DEF StartBufferingRequest, Opens, Receives
    <2>2. Admitted(opened')
      BY <2>1, MessageKinds DEF Admitted
    <2> QED
      BY <2>1, <2>2, EmptyParts, StatesDiffer DEF WireInv
  <1>5. CASE DiscardRequestBody(m)
    <2>1. state' = DrainingRequest /\ state = DrainingRequest /\ UNCHANGED <<sent, reps>>
      BY <1>5 DEF DiscardRequestBody, ReceivesRequestBody, Receives
    <2> QED
      BY <2>1, StatesDiffer DEF WireInv
  <1>6. CASE AppendRequestBody(m)
    <2>1. state = BufferingRequest /\ UNCHANGED <<state, opened, sent, reps>>
      BY <1>6 DEF AppendRequestBody, ReceivesRequestBody, Receives
    <2> QED
      BY <2>1, StatesDiffer DEF WireInv
  <1>7. CASE FinalizeRequest(m)
    BY <1>7, FinalizeWire
  <1>8. CASE StartBufferingResponse(m)
    <2>1. /\ ReceivesToolResponse(m) /\ ~m.eos
          /\ state = AwaitingResponseHeaders /\ state' = BufferingResponse
          /\ upstream' = m /\ UNCHANGED <<opened, reqBytes, sent, reps>>
      BY <1>8 DEF StartBufferingResponse, ReceivesToolResponse, Receives
    <2>2. isToolCall(contextOf(opened, reqBytes, m)) /\ m \in StatusMessages
      BY <2>1, ContextCompleted
    <2>3. Admitted(opened) /\ RequestOnWire
      BY <2>1 DEF WireInv
    <2>4. RequestFrame(wire, opened, reqBytes)
      BY <2>2, <2>3, CallIsForwarded DEF RequestOnWire
    <2>5. wire' = wire
      BY <2>1 DEF wire
    <2>6. AwaitsAnswer' /\ Admitted(opened)'
      BY <2>1, <2>2, <2>3, <2>4, <2>5 DEF AwaitsAnswer
    <2> QED
      BY <2>1, <2>6, StatesDiffer DEF WireInv
  <1>9. CASE AppendResponseBody(m)
    <2>1. state = BufferingResponse /\ UNCHANGED <<state, opened, reqBytes, upstream, sent, reps>>
      BY <1>9 DEF AppendResponseBody, ReceivesResponseBody, Receives
    <2>2. AwaitsAnswer /\ Admitted(opened)
      BY <2>1 DEF WireInv
    <2>3. AwaitsAnswer' /\ Admitted(opened)'
      BY <2>1, <2>2 DEF AwaitsAnswer, wire
    <2> QED
      BY <2>1, <2>3, StatesDiffer DEF WireInv
  <1>10. CASE ProtocolViolation(m)
    BY <1>10, QuietWire DEF ProtocolViolation, history, WireInv, wire
  <1> QED
    BY <1>1, <1>2, <1>3, <1>4, <1>5, <1>6, <1>7, <1>8, <1>9, <1>10 DEF Handle

\* Every step keeps WireInv, given what IInv says of the context.
LEMMA NextWire == IInv /\ WireInv /\ [Next]_vars => WireInv'
  <1> SUFFICES ASSUME IInv, WireInv, [Next]_vars PROVE WireInv'
    OBVIOUS
  <1>1. CASE \E m \in Messages : Handle(m)
    BY <1>1, HandleWire
  <1>2. CASE Send
    BY <1>2, SendWire
  <1>3. CASE SendFails \/ RecvEnds \/ RecvFails
    BY <1>3, QuietWire DEF SendFails, RecvEnds, RecvFails, Returns, history, WireInv, wire
  <1>4. CASE UNCHANGED vars
    BY <1>4, QuietWire DEF vars, machine, history, WireInv, wire
  <1> QED
    BY <1>1, <1>2, <1>3, <1>4 DEF Next

\* Both invariants hold in every reachable state.
LEMMA WireInvariance == Spec => [](IInv /\ WireInv)
  <1> QED
    BY InitIInv, NextIInv, InitWire, NextWire, PTL DEF Spec

-----------------------------------------------------------------------------
(* What WireInv says of the messages on the wire.                           *)

\* The answer of this cycle.
answerNow == answerOf(opened, reqBytes, upstream, respBytes)

\* The response is one the processor has to translate.
OwnsAnswer == isToolCall(contextOf(opened, reqBytes, upstream)) /\ upstream \in StatusMessages

\* The call is on the wire, or the call and after it the answer.
CallSent(m) == SendsCall(wire, m, opened)

\* The call and after it its answer are on the wire, and the length of each is its own.
CallAnswered(m) ==
    /\ OwnsAnswer
    /\ \E f, g : wire = f \o g /\ SendsCall(f, m, opened) /\ SendsAnswer(g, answerNow)

\* A wire is empty, a refusal, a call, or a call with its answer.
LEMMA WireKinds ==
    ASSUME IInv, WireInv
    PROVE  \/ wire = <<>>
           \/ RefusalFrame(wire)
           \/ /\ Admitted(opened)
              /\ \E m : IsCall(m, opened, reqBytes) /\ (CallSent(m) \/ CallAnswered(m))
  <1>1. state \in States
    BY DEF IInv, TypeOK
  <1>2. ASSUME sent = <<>>, reps = <<>> PROVE wire = <<>>
    BY <1>2, EmptyParts DEF wire, WireInv
  <1>3. ASSUME Admitted(opened), RequestFrame(wire, opened, reqBytes)
        PROVE  \E m : IsCall(m, opened, reqBytes) /\ CallSent(m)
    BY <1>3, RequestFacts DEF CallSent
  <1>4. ASSUME Answered
        PROVE  Admitted(opened) /\ \E m : IsCall(m, opened, reqBytes) /\ CallAnswered(m)
    <2>1. PICK f, g : /\ wire = f \o g /\ RequestFrame(f, opened, reqBytes)
                      /\ ResponseFrame(g, opened, reqBytes, upstream, respBytes)
      BY <1>4 DEF Answered
    <2>2. Admitted(opened)
      BY <1>4 DEF Answered
    <2>3. PICK m : IsCall(m, opened, reqBytes) /\ SendsCall(f, m, opened)
      BY <2>1, <2>2, RequestFacts
    <2>4. SendsAnswer(g, answerNow)
      BY <2>1, ResponseFacts DEF answerNow
    <2>5. OwnsAnswer
      BY <2>1 DEF ResponseFrame, OwnsAnswer
    <2> QED
      BY <2>1, <2>2, <2>3, <2>4, <2>5 DEF CallAnswered
  <1>5. CASE state \in {DrainingRequest, BufferingRequest}
    BY <1>2, <1>5 DEF WireInv
  <1>6. CASE state = AwaitingResponseHeaders
    BY <1>3, <1>6 DEF WireInv, RequestOnWire
  <1>7. CASE state = BufferingResponse
    BY <1>3, <1>7 DEF WireInv, AwaitsAnswer
  <1>8. CASE state = AwaitingRequestHeaders
    BY <1>2, <1>4, <1>8 DEF WireInv, Unused
  <1> QED
    BY <1>1, <1>5, <1>6, <1>7, <1>8, StatesDiffer

\* Each message of a forwarded cycle belongs to the call or to its answer.
LEMMA MessagesOfCall ==
    ASSUME NEW m, CallSent(m) \/ CallAnswered(m)
    PROVE  /\ wire # <<>> /\ 1 \in DOMAIN wire /\ 2 \in DOMAIN wire /\ wire[2].type = "body"
           /\ {opened.headers[i].key : i \in DOMAIN opened.headers} \cap MCPKeys
                \subseteq wire[1].mutation.remove
           /\ \A i \in DOMAIN wire :
                /\ wire[i].type # "immediate" /\ wire[i].dir \in {"request", "response"}
                /\ wire[i].dir = "request" /\ wire[i].type = "body" =>
                     wire[i].body = Endpoint(m.params.name, m.params)
                /\ wire[i].dir = "response" =>
                     /\ OwnsAnswer
                     /\ wire[i].type = "body" => wire[i].body = answerNow
                     /\ wire[i].type = "headers" => wire[i].replace \in {NoBody, answerNow}
  <1>1. ASSUME NEW w, SendsCall(w, m, opened)
        PROVE  /\ IsSeq(w) /\ w # <<>> /\ 1 \in DOMAIN w /\ 2 \in DOMAIN w /\ w[2].type = "body"
               /\ {opened.headers[i].key : i \in DOMAIN opened.headers} \cap MCPKeys
                    \subseteq w[1].mutation.remove
               /\ \A i \in DOMAIN w :
                    /\ w[i].type # "immediate" /\ w[i].dir = "request"
                    /\ w[i].type = "body" => w[i].body = Endpoint(m.params.name, m.params)
    BY <1>1 DEF SendsCall, isDirection
  <1>2. CASE CallSent(m)
    BY <1>1, <1>2 DEF CallSent
  <1>3. CASE CallAnswered(m)
    <2>1. PICK f, g : wire = f \o g /\ SendsCall(f, m, opened) /\ SendsAnswer(g, answerNow)
      BY <1>3 DEF CallAnswered
    <2>2. /\ IsSeq(g) /\ g # <<>>
          /\ \A i \in DOMAIN g :
               /\ g[i].type # "immediate" /\ g[i].dir = "response"
               /\ g[i].type = "body" => g[i].body = answerNow
               /\ g[i].type = "headers" => g[i].replace \in {NoBody, answerNow}
      BY <2>1 DEF SendsAnswer, isDirection
    <2>3. /\ \A i \in DOMAIN f : i \in DOMAIN wire /\ wire[i] = f[i]
          /\ \A i \in DOMAIN wire : \/ i \in DOMAIN f /\ wire[i] = f[i]
                                    \/ i - Len(f) \in DOMAIN g /\ wire[i] = g[i - Len(f)]
      BY <1>1, <2>1, <2>2, Joined
    <2>4. OwnsAnswer
      BY <1>3 DEF CallAnswered
    <2>5. /\ 1 \in DOMAIN wire /\ 2 \in DOMAIN wire /\ wire[1] = f[1] /\ wire[2] = f[2]
          /\ wire # <<>>
      BY <1>1, <2>1, <2>3
    <2>6. ASSUME NEW i \in DOMAIN wire
          PROVE  /\ wire[i].type # "immediate" /\ wire[i].dir \in {"request", "response"}
                 /\ wire[i].dir = "request" /\ wire[i].type = "body" =>
                      wire[i].body = Endpoint(m.params.name, m.params)
                 /\ wire[i].dir = "response" =>
                      /\ wire[i].type = "body" => wire[i].body = answerNow
                      /\ wire[i].type = "headers" => wire[i].replace \in {NoBody, answerNow}
      <3>1. CASE i \in DOMAIN f /\ wire[i] = f[i]
        BY <1>1, <2>1, <3>1
      <3>2. CASE i - Len(f) \in DOMAIN g /\ wire[i] = g[i - Len(f)]
        BY <2>2, <3>2
      <3> QED
        BY <2>3, <3>1, <3>2
    <2> QED
      BY <1>1, <2>1, <2>4, <2>5, <2>6
  <1> QED
    BY <1>2, <1>3

\* A cycle that was forwarded made one admissible call.
LEMMA ForwardedKind ==
    ASSUME IInv, WireInv, isForwarded(wire)
    PROVE  /\ Admitted(opened)
           /\ \E m : IsCall(m, opened, reqBytes) /\ (CallSent(m) \/ CallAnswered(m))
  BY WireKinds, RefusalFacts DEF isForwarded

\* Every answer is the translation of this cycle's response to this cycle's call.
LEMMA AnswerKind ==
    ASSUME IInv, WireInv, NEW a \in answers
    PROVE  a = answerNow /\ OwnsAnswer /\ \E m : IsCall(m, opened, reqBytes)
  <1>1. PICK i \in DOMAIN wire :
           /\ wire[i].type # "immediate" /\ wire[i].dir = "response"
           /\ \/ wire[i].type = "body" /\ a = wire[i].body
              \/ wire[i].type = "headers" /\ a = wire[i].replace /\ a # NoBody
    BY DEF answers
  <1>2. wire # <<>>
    BY <1>1
  <1>3. ~RefusalFrame(wire)
    <2>1. SUFFICES ASSUME RefusalFrame(wire) PROVE FALSE
      OBVIOUS
    <2>2. /\ i \in 1 .. 2 /\ wire[1].dir = "request" /\ wire[2].type = "immediate"
      BY <1>1, <2>1, RefusalFacts
    <2>3. i = 1 \/ i = 2
      BY <2>2
    <2> QED
      BY <1>1, <2>2, <2>3
  <1>4. PICK m : IsCall(m, opened, reqBytes) /\ (CallSent(m) \/ CallAnswered(m))
    BY <1>2, <1>3, WireKinds
  <1>5. /\ OwnsAnswer
        /\ wire[i].type = "body" => wire[i].body = answerNow
        /\ wire[i].type = "headers" => wire[i].replace \in {NoBody, answerNow}
    BY <1>1, <1>4, MessagesOfCall
  <1> QED
    BY <1>1, <1>4, <1>5

\* Both eras have an envelope for the result of a tool call.
LEMMA ToolCallEnvelope ==
    ASSUME NEW era, NEW result, result.of = "toolCall"
    PROVE  LET e == encodeResult(era, result)
           IN  e.ok /\ e.result = result /\ ~e.cacheable /\ e.stamped = (era = Modern)
  <1>1. CASE era = Modern
    <2>1. /\ (result.of \in Cacheables \cup {"toolCall"}) = TRUE
          /\ (result.of \in Cacheables) = FALSE
      BY DEF Cacheables
    <2>2. encodeResult(era, result) =
            [ok |-> TRUE, result |-> result, stamped |-> TRUE, cacheable |-> FALSE]
      BY <1>1, <2>1 DEF encodeResult
    <2>3. /\ encodeResult(era, result).ok
          /\ encodeResult(era, result).result = result
          /\ ~encodeResult(era, result).cacheable
          /\ encodeResult(era, result).stamped = TRUE
      BY <2>2
    <2>4. (era = Modern) = TRUE
      BY <1>1
    <2> QED
      BY <2>3, <2>4
  <1>2. CASE era # Modern
    BY <1>2 DEF encodeResult
  <1> QED
    BY <1>1, <1>2

\* The fields of the translation.
LEMMA AnswerFields ==
    ASSUME NEW m, NEW o, NEW bytes, NEW u \in StatusMessages, NEW resp,
           IsCall(m, o, bytes), isToolCall(contextOf(o, bytes, u))
    PROVE  LET a == answerOf(o, bytes, u, resp)
           IN  /\ a.form = "result" /\ a.id = m.id /\ a.id # NoId
               /\ a.envelope.stamped = isModernVersion(m.params.meta)
               /\ ~a.envelope.cacheable
               /\ a.envelope.result.content = textOf(o, bytes, u, resp)
               /\ a.envelope.result.isError = (u.status \notin 1 .. 399)
               /\ a.envelope.result.structured =>
                    /\ m.params.name \in StructuredTools
                    /\ jsonValid(textOf(o, bytes, u, resp))
                    /\ u.status \in 1 .. 399
  <1> DEFINE rq == contextOf(o, bytes, u)
             text == textOf(o, bytes, u, resp)
             isError == isHTTPErrorStatus(rq.status)
             structured == rq.config \in StructuredTools /\ jsonValid(text) /\ ~isError
             result == CallToolResult(text, structured, isError)
             e == encodeResult(eraOf(m), result)
  <1>1. /\ rq.id = m.id /\ rq.config = m.params.name /\ rq.era = eraOf(m)
        /\ rq.status = parseUpstreamStatusCode(u.status)
    BY DEF contextOf, IsCall
  <1>2. protocolEra(rq) = eraOf(m)
    <2>1. rq.era # NoEra
      BY <1>1 DEF eraOf, Modern, Legacy, NoEra
    <2> HIDE DEF rq
    <2> QED
      BY <1>1, <2>1 DEF protocolEra
  <1>3. isError = (u.status \notin 1 .. 399)
    <2>1. u.status \in Int
      <3>1. u.status \in Statuses
        BY DEF StatusMessages
      <3> QED
        BY <3>1, StreamAssumption
    <2> HIDE DEF rq
    <2>2. isError \in BOOLEAN /\ (isError <=> u.status \notin 1 .. 399)
      BY <1>1, <2>1 DEF isHTTPErrorStatus, parseUpstreamStatusCode, statusParses
    <2> QED
      BY <2>2
  <1>4. rq.id # NoId /\ rq.config # NoTool
    BY DEF isToolCall
  <1> HIDE DEF rq, text, isError
  <1>5. /\ result.of = "toolCall" /\ result.content = text
        /\ result.structured = structured /\ result.isError = isError
    BY DEF CallToolResult
  <1> HIDE DEF result
  <1>6. e.ok /\ e.result = result /\ ~e.cacheable /\ e.stamped = (eraOf(m) = Modern)
    BY <1>5, ToolCallEnvelope
  <1>7. e.stamped = isModernVersion(m.params.meta)
    <2>1. isModernVersion(m.params.meta) \in BOOLEAN
      BY DEF isModernVersion
    <2>2. (eraOf(m) = Modern) <=> isModernVersion(m.params.meta)
      BY DEF eraOf, Modern, Legacy
    <2> QED
      BY <1>6, <2>1, <2>2
  <1>8. buildMCPResponse(rq, text) =
          (IF rq.id # NoId /\ rq.config # NoTool /\ e.ok THEN JsonRpcResult(rq.id, e)
           ELSE JsonRpcError(rq.id, InternalError))
    BY <1>2 DEF buildMCPResponse, isError, result
  <1> HIDE DEF e
  <1>9. buildMCPResponse(rq, text) = JsonRpcResult(m.id, e)
    BY <1>1, <1>4, <1>6, <1>8
  <1> DEFINE a == JsonRpcResult(m.id, e)
  <1>10. a.form = "result" /\ a.id = m.id /\ a.envelope = e
    BY DEF JsonRpcResult
  <1> HIDE DEF a
  <1>11. answerOf(o, bytes, u, resp) = a
    BY <1>9 DEF answerOf, rq, text, a
  <1>12. structured => m.params.name \in StructuredTools /\ jsonValid(text) /\ u.status \in 1 .. 399
    BY <1>1, <1>3
  <1> HIDE DEF structured
  <1> QED
    BY <1>1, <1>3, <1>4, <1>5, <1>6, <1>7, <1>10, <1>11, <1>12 DEF text

-----------------------------------------------------------------------------
(* The theorems about the wire.                                             *)

\* A refusal on the wire is one of the two forms the order allows.
LEMMA RefusalInOrder ==
    ASSUME RefusalFrame(wire)
    PROVE  isRefusal(wire)
  BY RefusalFacts

\* The request followed by its answer.
LEMMA AnsweredInOrder ==
    ASSUME Answered
    PROVE  \E k \in 1 .. Len(wire) - 1 :
              /\ isDirection(SubSeq(wire, 1, k), "request")
              /\ isDirection(SubSeq(wire, k + 1, Len(wire)), "response")
  <1>1. PICK f, g : /\ wire = f \o g /\ RequestFrame(f, opened, reqBytes)
                    /\ ResponseFrame(g, opened, reqBytes, upstream, respBytes)
    BY DEF Answered
  <1>2. Admitted(opened)
    BY DEF Answered
  <1>3. PICK m : SendsCall(f, m, opened)
    BY <1>1, <1>2, RequestFacts
  <1>4. SendsAnswer(g, answerNow)
    BY <1>1, ResponseFacts DEF answerNow
  <1>5. /\ IsSeq(f) /\ f # <<>> /\ isDirection(f, "request")
        /\ IsSeq(g) /\ g # <<>> /\ isDirection(g, "response")
    BY <1>3, <1>4 DEF SendsCall, SendsAnswer, isDirection
  <1>6. /\ Len(f) \in 1 .. Len(wire) - 1
        /\ SubSeq(wire, 1, Len(f)) = f
        /\ SubSeq(wire, Len(f) + 1, Len(wire)) = g
    BY <1>1, <1>5, Joined
  <1> QED
    BY <1>5, <1>6

\* RepliesInOrder holds of every stream: whatever the peer sends, each cycle replies
\* in the order of the duplex protocol and says the end of the stream once per direction.
THEOREM WireInOrder == Spec => []RepliesInOrder
  <1>1. ASSUME IInv, WireInv PROVE RepliesInOrder
    <2>1. state \in States
      BY <1>1 DEF IInv, TypeOK
    <2>2. ASSUME Admitted(opened), RequestFrame(wire, opened, reqBytes)
          PROVE  isDirection(wire, "request")
      BY <2>2, RequestFacts DEF SendsCall
    <2>3. CASE state \in {DrainingRequest, BufferingRequest}
      <3>1. wire = <<>>
        BY <1>1, <2>3, EmptyParts DEF wire, WireInv
      <3> QED
        BY <2>3, <3>1, StatesDiffer DEF RepliesInOrder
    <2>4. CASE state = BufferingResponse
      <3>1. isDirection(wire, "request")
        BY <1>1, <2>2, <2>4 DEF WireInv, AwaitsAnswer
      <3> QED
        BY <2>4, <3>1, StatesDiffer DEF RepliesInOrder
    <2>5. CASE state = AwaitingResponseHeaders
      <3>1. isRefusal(wire) \/ isDirection(wire, "request")
        BY <1>1, <2>2, <2>5, RefusalInOrder DEF WireInv, RequestOnWire
      <3> QED
        BY <2>5, <3>1, StatesDiffer DEF RepliesInOrder
    <2>6. CASE state = AwaitingRequestHeaders
      <3>1. Unused => wire = <<>> /\ cycles = 0
        BY EmptyParts, <1>1 DEF Unused, wire, WireInv
      <3>2. \/ wire = <<>> /\ cycles = 0
            \/ isRefusal(wire)
            \/ \E k \in 1 .. Len(wire) - 1 :
                  /\ isDirection(SubSeq(wire, 1, k), "request")
                  /\ isDirection(SubSeq(wire, k + 1, Len(wire)), "response")
        BY <1>1, <2>6, <3>1, RefusalInOrder, AnsweredInOrder DEF WireInv
      <3> QED
        BY <2>6, <3>2, StatesDiffer DEF RepliesInOrder
    <2> QED
      BY <2>1, <2>3, <2>4, <2>5, <2>6 DEF States
  <1> QED
    BY <1>1, WireInvariance, PTL

\* ForwardedOnlyIfAdmissible holds of every stream: mcpRequestHandler sends nothing
\* upstream but the endpoint request of an admissible call.
THEOREM ForwardsAdmissible == Spec => []ForwardedOnlyIfAdmissible
  <1>1. ASSUME IInv, WireInv PROVE ForwardedOnlyIfAdmissible
    <2>1. SUFFICES ASSUME isForwarded(wire)
          PROVE  /\ opened.method \in {"POST", NoMethod} /\ opened.allowed
                 /\ \E m \in RequestBodies :
                       /\ reqBytes = Whole(m)
                       /\ isAdmissible(m, opened.headers)
                       /\ \A i \in DOMAIN wire :
                             wire[i].type = "body" /\ wire[i].dir = "request"
                               => wire[i].body = Endpoint(m.params.name, m.params)
      BY DEF ForwardedOnlyIfAdmissible
    <2>2. PICK m : IsCall(m, opened, reqBytes) /\ (CallSent(m) \/ CallAnswered(m))
      BY <1>1, <2>1, ForwardedKind
    <2>3. opened.method \in {"POST", NoMethod} /\ opened.allowed
      BY <1>1, <2>1, ForwardedKind DEF Admitted, badMethod
    <2>4. m \in RequestBodies /\ reqBytes = Whole(m) /\ isAdmissible(m, opened.headers)
      BY <2>2 DEF IsCall
    <2>5. \A i \in DOMAIN wire :
             wire[i].type = "body" /\ wire[i].dir = "request"
               => wire[i].body = Endpoint(m.params.name, m.params)
      BY <2>2, MessagesOfCall
    <2> QED
      BY <2>3, <2>4, <2>5
  <1> QED
    BY <1>1, WireInvariance, PTL

\* McpHeadersStripped holds of every stream: rerouteWithBodyMutation removes every MCP
\* header that the opening request had.
THEOREM StripsMcpHeaders == Spec => []McpHeadersStripped
  <1>1. ASSUME IInv, WireInv PROVE McpHeadersStripped
    <2>1. SUFFICES ASSUME isForwarded(wire)
          PROVE  {opened.headers[i].key : i \in DOMAIN opened.headers} \cap MCPKeys
                   \subseteq wire[1].mutation.remove
      BY DEF McpHeadersStripped
    <2> QED
      BY <1>1, <2>1, ForwardedKind, MessagesOfCall
  <1> QED
    BY <1>1, WireInvariance, PTL

\* What every translated response is.
LEMMA AnswerSays ==
    ASSUME IInv, WireInv, NEW a \in answers
    PROVE  \E m \in RequestBodies :
      /\ reqBytes = Whole(m)
      /\ a.form = "result" /\ a.id = m.id /\ a.id # NoId
      /\ a.envelope.stamped = isModernVersion(m.params.meta)
      /\ ~a.envelope.cacheable
      /\ a.envelope.result.content = textOf(opened, reqBytes, upstream, respBytes)
      /\ a.envelope.result.isError = (upstream.status \notin 1 .. 399)
      /\ a.envelope.result.structured =>
           /\ m.params.name \in StructuredTools
           /\ jsonValid(textOf(opened, reqBytes, upstream, respBytes))
           /\ upstream.status \in 1 .. 399
  <1>1. a = answerNow /\ OwnsAnswer
    BY AnswerKind
  <1>2. PICK m : IsCall(m, opened, reqBytes)
    BY AnswerKind
  <1>3. m \in RequestBodies /\ reqBytes = Whole(m)
    BY <1>2 DEF IsCall
  <1>4. upstream \in StatusMessages /\ isToolCall(contextOf(opened, reqBytes, upstream))
    BY <1>1 DEF OwnsAnswer
  <1>5. /\ a.form = "result" /\ a.id = m.id /\ a.id # NoId
        /\ a.envelope.stamped = isModernVersion(m.params.meta)
        /\ ~a.envelope.cacheable
        /\ a.envelope.result.content = textOf(opened, reqBytes, upstream, respBytes)
        /\ a.envelope.result.isError = (upstream.status \notin 1 .. 399)
        /\ a.envelope.result.structured =>
             /\ m.params.name \in StructuredTools
             /\ jsonValid(textOf(opened, reqBytes, upstream, respBytes))
             /\ upstream.status \in 1 .. 399
    BY <1>1, <1>2, <1>4, AnswerFields DEF answerNow
  <1> QED
    BY <1>3, <1>5

\* The text of an answer is the upstream's body, or describes its status.
LEMMA TextSays ==
    ASSUME NEW o, NEW bytes, NEW u \in StatusMessages, NEW resp
    PROVE  LET text == textOf(o, bytes, u, resp)
           IN  /\ text = IF u.eos THEN EmptyText(IF u.status < 0 THEN 0 ELSE u.status)
                         ELSE BodyText(resp)
               /\ jsonValid(text) => \E b \in UpstreamBodies : b.json /\ resp = Whole(b)
  <1>1. u.status \in Int
    <2>1. u.status \in Statuses
      BY DEF StatusMessages
    <2> QED
      BY <2>1, StreamAssumption
  <1>2. contextOf(o, bytes, u).status = parseUpstreamStatusCode(u.status)
    BY DEF contextOf
  <1>3. parseUpstreamStatusCode(u.status) = IF u.status < 0 THEN 0 ELSE u.status
    BY <1>1 DEF parseUpstreamStatusCode, statusParses
  <1>4. CASE u.eos
    <2>1. textOf(o, bytes, u, resp) = EmptyText(IF u.status < 0 THEN 0 ELSE u.status)
      BY <1>2, <1>3, <1>4 DEF textOf
    <2>2. EmptyText(IF u.status < 0 THEN 0 ELSE u.status).source # "upstream"
      BY DEF EmptyText
    <2> QED
      BY <1>4, <2>1, <2>2 DEF jsonValid
  <1>5. CASE ~u.eos
    <2>1. textOf(o, bytes, u, resp) = BodyText(resp)
      BY <1>5 DEF textOf
    <2>2. BodyText(resp).bytes = resp
      BY DEF BodyText
    <2> QED
      BY <1>5, <2>1, <2>2 DEF jsonValid
  <1> QED
    BY <1>4, <1>5

\* AnswersThisCall holds of every stream: a translated response has the id, the era,
\* the bytes and the status of its own cycle.
THEOREM AnswersOwnCall == Spec => []AnswersThisCall
  <1>1. ASSUME IInv, WireInv PROVE AnswersThisCall
    <2>1. SUFFICES ASSUME NEW a \in answers
          PROVE  \E m \in RequestBodies :
            /\ reqBytes = Whole(m)
            /\ a.form = "result" /\ a.id = m.id /\ a.id # NoId
            /\ a.envelope.stamped = isModernVersion(m.params.meta)
            /\ ~a.envelope.cacheable
            /\ a.envelope.result.content =
                  IF upstream.eos
                  THEN EmptyText(IF upstream.status < 0 THEN 0 ELSE upstream.status)
                  ELSE BodyText(respBytes)
            /\ a.envelope.result.isError = (upstream.status \notin 1 .. 399)
      BY DEF AnswersThisCall
    <2>2. upstream \in StatusMessages
      BY <1>1, AnswerKind DEF OwnsAnswer
    <2>3. textOf(opened, reqBytes, upstream, respBytes) =
            IF upstream.eos THEN EmptyText(IF upstream.status < 0 THEN 0 ELSE upstream.status)
            ELSE BodyText(respBytes)
      BY <2>2, TextSays
    <2> QED
      BY <1>1, <2>3, AnswerSays
  <1> QED
    BY <1>1, WireInvariance, PTL

\* StructuredOnlyIfPromised holds of every stream: buildMCPResponse sets structured
\* content only for a tool with an output schema, valid JSON and no error status.
THEOREM StructuredAsPromised == Spec => []StructuredOnlyIfPromised
  <1>1. ASSUME IInv, WireInv PROVE StructuredOnlyIfPromised
    <2>1. SUFFICES ASSUME NEW a \in answers, a.envelope.result.structured
          PROVE  /\ \E m \in RequestBodies :
                       reqBytes = Whole(m) /\ m.params.name \in StructuredTools
                 /\ \E b \in UpstreamBodies : b.json /\ respBytes = Whole(b)
                 /\ upstream.status \in 1 .. 399
      BY DEF StructuredOnlyIfPromised
    <2>2. upstream \in StatusMessages
      BY <1>1, AnswerKind DEF OwnsAnswer
    <2>3. /\ \E m \in RequestBodies : reqBytes = Whole(m) /\ m.params.name \in StructuredTools
          /\ jsonValid(textOf(opened, reqBytes, upstream, respBytes))
          /\ upstream.status \in 1 .. 399
      BY <1>1, <2>1, AnswerSays
    <2> QED
      BY <2>2, <2>3, TextSays
  <1> QED
    BY <1>1, WireInvariance, PTL

\* The response on the wire has the length it announces.
LEMMA AnsweredLength ==
    ASSUME NEW m, CallAnswered(m), NEW i \in DOMAIN wire,
           wire[i].type = "body", wire[i].dir = "response"
    PROVE  \E h, last \in DOMAIN wire :
              /\ wire[h].type = "headers" /\ wire[h].dir = "response"
              /\ wire[last].type = "body" /\ wire[last].dir = "response"
              /\ wire[h].mutation.length = wire[last].hi
              /\ wire[i].hi <= wire[last].hi
  <1>1. PICK f, g : wire = f \o g /\ SendsCall(f, m, opened) /\ SendsAnswer(g, answerNow)
    BY DEF CallAnswered
  <1>2. /\ IsSeq(f) /\ f # <<>> /\ IsSeq(g) /\ g # <<>>
        /\ \A k \in DOMAIN f : f[k].dir = "request"
        /\ \A k \in DOMAIN g : g[k].dir = "response"
    BY <1>1 DEF SendsCall, SendsAnswer, isDirection
  <1>3. /\ \A k \in DOMAIN g : Len(f) + k \in DOMAIN wire /\ wire[Len(f) + k] = g[k]
        /\ \/ i \in DOMAIN f /\ wire[i] = f[i]
           \/ i - Len(f) \in DOMAIN g /\ wire[i] = g[i - Len(f)]
    BY <1>1, <1>2, Joined
  <1>4. PICK j \in DOMAIN g : wire[i] = g[j]
    BY <1>2, <1>3
  <1>5. PICK h \in DOMAIN g, last \in DOMAIN g :
           /\ g[h].type = "headers" /\ g[last].type = "body"
           /\ g[h].mutation.length = g[last].hi
           /\ g[j].hi <= g[last].hi
    BY <1>1, <1>4 DEF SendsAnswer
  <1>6. PICK hh \in DOMAIN wire : wire[hh] = g[h]
    BY <1>3
  <1>7. PICK ll \in DOMAIN wire : wire[ll] = g[last]
    BY <1>3
  <1> QED
    BY <1>2, <1>4, <1>5, <1>6, <1>7

\* LengthAnnounced holds of every stream: the content-length of a response is the
\* number of bytes in its chunks.
THEOREM AnnouncesLength == Spec => []LengthAnnounced
  <1>1. ASSUME IInv, WireInv PROVE LengthAnnounced
    <2>1. SUFFICES ASSUME NEW i \in DOMAIN wire,
                          wire[i].type = "body", wire[i].dir = "response"
          PROVE  \E h, last \in DOMAIN wire :
                    /\ wire[h].type = "headers" /\ wire[h].dir = "response"
                    /\ wire[last].type = "body" /\ wire[last].dir = "response"
                    /\ wire[h].mutation.length = wire[last].hi
                    /\ wire[i].hi <= wire[last].hi
      BY DEF LengthAnnounced
    <2>2. wire # <<>>
      BY <2>1
    <2>3. ~RefusalFrame(wire)
      <3>1. SUFFICES ASSUME RefusalFrame(wire) PROVE FALSE
        OBVIOUS
      <3>2. i \in 1 .. 2 /\ wire[1].dir = "request" /\ wire[2].type = "immediate"
        BY <2>1, <3>1, RefusalFacts
      <3>3. i = 1 \/ i = 2
        BY <3>2
      <3> QED
        BY <2>1, <3>2, <3>3
    <2>4. PICK m : CallSent(m) \/ CallAnswered(m)
      BY <1>1, <2>2, <2>3, WireKinds
    <2>5. CASE CallSent(m)
      <3>1. wire[i].dir = "request"
        BY <2>1, <2>5 DEF CallSent, SendsCall, isDirection
      <3> QED
        BY <2>1, <3>1
    <2>6. CASE CallAnswered(m)
      BY <2>1, <2>6, AnsweredLength
    <2> QED
      BY <2>4, <2>5, <2>6
  <1> QED
    BY <1>1, WireInvariance, PTL
=============================================================================
