---------------------------- MODULE StreamState -----------------------------
(***************************************************************************)
(* One ext_proc gRPC stream: the loop of extProcServer.Process (server.go)  *)
(* around the state machine of stream_state.go.                             *)
(*                                                                         *)
(* The peer is arbitrary: it may send any message at any time.  One handle  *)
(* call is one step, since it touches only the stream's own state; the      *)
(* replies it returns are then sent one by one, each send being a step, and *)
(* nothing is received until they are all sent.                             *)
(*                                                                         *)
(* The variables opened, reqBytes, upstream, respBytes and sent are         *)
(* history: what arrived and what was sent in the current cycle.  No action *)
(* reads them except for the bounds.                                        *)
(***************************************************************************)
EXTENDS McpHandler

CONSTANTS
    HeaderLists,      \* the MCP headers a request can carry
    Statuses,         \* values of the upstream's :status header
    Payloads,         \* contents of one body message
    MaxPieces,        \* bound: pieces received per body
    MaxCycles         \* bound: request cycles per stream

ASSUME StreamAssumption ==
    /\ Statuses \subseteq Int
    /\ Payloads \subseteq Seq(Pieces)
    /\ MaxPieces \in Nat
    /\ MaxCycles \in Nat

\* Header lists as HeaderValidation describes them: sequences in which only
\* mcp-name is ever wrapped.
ASSUME HeaderAssumption ==
    \A headers \in HeaderLists :
      /\ Len(headers) \in Nat
      /\ DOMAIN headers = 1 .. Len(headers)
      /\ \A i \in DOMAIN headers :
            headers[i].key # headerMCPName => headers[i].enc = "plain"

VARIABLES
    state,            \* the current streamState
    mcpHeaders,       \* of stateBufferingRequest
    request,          \* of stateAwaitingResponseHeaders and stateBufferingResponse
    buf,              \* stream.buf
    reps,             \* replies returned by handle and not sent yet
    rc,               \* what Process returned, or "running"
    opened, reqBytes, upstream, respBytes, sent, cycles

history == <<opened, reqBytes, upstream, respBytes, sent, cycles>>
machine == <<state, mcpHeaders, request, buf, reps, rc>>
vars    == <<machine, history>>

AwaitingRequestHeaders  == "stateAwaitingRequestHeaders"
DrainingRequest         == "stateDrainingRequest"
BufferingRequest        == "stateBufferingRequest"
AwaitingResponseHeaders == "stateAwaitingResponseHeaders"
BufferingResponse       == "stateBufferingResponse"
States == {AwaitingRequestHeaders, DrainingRequest, BufferingRequest,
           AwaitingResponseHeaders, BufferingResponse}

NoHeaders == captureMCPRequestHeaders(<<>>)
NoContext == [id |-> NoId, config |-> NoTool, status |-> 0, era |-> NoEra]

(***************************************************************************)
(* Messages from the peer.  allowed is the verdict of                       *)
(* hostAllowlist.checkHeaders on the Host and Origin headers; NoMethod is a *)
(* request without a :method header.                                        *)
(***************************************************************************)
NoMethod == "none"

RequestHeaders(method, allowed, headers, eos) ==
    [type |-> "RequestHeaders", method |-> method, allowed |-> allowed,
     headers |-> headers, eos |-> eos]
ResponseHeaders(status, eos) == [type |-> "ResponseHeaders", status |-> status, eos |-> eos]
RequestBody(payload, eos)    == [type |-> "RequestBody", payload |-> payload, eos |-> eos]
ResponseBody(payload, eos)   == [type |-> "ResponseBody", payload |-> payload, eos |-> eos]
RequestTrailers  == [type |-> "RequestTrailers"]
ResponseTrailers == [type |-> "ResponseTrailers"]
NoMessage        == [type |-> "none"]

HeadersMessages ==
    [type : {"RequestHeaders"}, method : {"POST", "GET", NoMethod}, allowed : BOOLEAN,
     headers : HeaderLists, eos : BOOLEAN]
StatusMessages == [type : {"ResponseHeaders"}, status : Statuses, eos : BOOLEAN]
BodyMessages   == [type : {"RequestBody", "ResponseBody"}, payload : Payloads, eos : BOOLEAN]
Messages == HeadersMessages \cup StatusMessages \cup BodyMessages
              \cup {RequestTrailers, ResponseTrailers, NoMessage}

(***************************************************************************)
(* handle, by state and message.                                            *)
(***************************************************************************)
\* The loop is at Recv and handle is about to see m.
Receives(m, s, types) ==
    rc = "running" /\ reps = <<>> /\ state = s /\ m.type \in types

\* A message that opens a cycle, whatever becomes of it.
Opens(m) ==
    /\ Receives(m, AwaitingRequestHeaders, {"RequestHeaders"})
    /\ cycles < MaxCycles
    /\ cycles' = cycles + 1
    /\ opened' = m
    /\ reqBytes' = <<>>
    /\ upstream' = NoMessage
    /\ respBytes' = <<>>
    /\ sent' = <<>>
    /\ UNCHANGED rc

badMethod(m) == m.method # NoMethod /\ m.method # "POST"

\* Faulty variant: the buffer keeps what the phase before left.
beginBuffering_NoReset == buf' = buf

beginBuffering == buf' = <<>>

\* A refusal at the headers: answered at once, and on to the next cycle.
RefuseAtHeaders(m, replies) ==
    /\ Opens(m)
    /\ reps' = replies
    /\ UNCHANGED <<state, mcpHeaders, request, buf>>

MethodNotAllowed(m) == RefuseAtHeaders(m, methodNotAllowedResponse) /\ badMethod(m)

\* Faulty variant: refuses although the body is still arriving.
Forbidden_BodyInFlight(m) == RefuseAtHeaders(m, forbiddenResponse) /\ ~badMethod(m) /\ ~m.allowed

Forbidden(m) ==
    RefuseAtHeaders(m, forbiddenResponse) /\ ~badMethod(m) /\ ~m.allowed /\ m.eos

\* Faulty variant: waits for a body that never comes.
MissingBody_Stalls(m) == RefuseAtHeaders(m, <<>>) /\ ~badMethod(m) /\ m.allowed /\ m.eos

MissingBody(m) ==
    /\ RefuseAtHeaders(m, newImmediateBodyResponse(JsonRpcError(NoId, InvalidRequest)))
    /\ ~badMethod(m) /\ m.allowed /\ m.eos

StartDraining(m) ==
    /\ Opens(m) /\ ~badMethod(m) /\ ~m.allowed /\ ~m.eos
    /\ state' = DrainingRequest
    /\ UNCHANGED <<mcpHeaders, request, buf, reps>>

StartBufferingRequest(m) ==
    /\ Opens(m) /\ ~badMethod(m) /\ m.allowed /\ ~m.eos
    /\ beginBuffering
    /\ state' = BufferingRequest
    /\ mcpHeaders' = captureMCPRequestHeaders(m.headers)
    /\ UNCHANGED <<request, reps>>

\* The bytes a message adds, and whether it is the last of its direction.
payloadOf(m) == IF m.type \in {"RequestBody", "ResponseBody"} THEN m.payload ELSE <<>>
isTrailers(m) == m.type \in {"RequestTrailers", "ResponseTrailers"}
endsBody(m)   == IF isTrailers(m) THEN TRUE ELSE m.eos

ReceivesRequestBody(m, s) ==
    /\ Receives(m, s, {"RequestBody", "RequestTrailers"})
    /\ Len(reqBytes \o payloadOf(m)) <= MaxPieces
    /\ reqBytes' = reqBytes \o payloadOf(m)
    /\ UNCHANGED <<rc, opened, upstream, respBytes, sent, cycles>>

DiscardRequestBody(m) ==
    /\ ReceivesRequestBody(m, DrainingRequest) /\ ~endsBody(m)
    /\ UNCHANGED <<state, mcpHeaders, request, buf, reps>>

RejectDrained(m) ==
    /\ ReceivesRequestBody(m, DrainingRequest) /\ endsBody(m)
    /\ state' = AwaitingRequestHeaders
    /\ reps' = forbiddenResponse
    /\ UNCHANGED <<mcpHeaders, request, buf>>

AppendRequestBody(m) ==
    /\ ReceivesRequestBody(m, BufferingRequest) /\ ~endsBody(m)
    /\ buf' = buf \o payloadOf(m)
    /\ UNCHANGED <<state, mcpHeaders, request, reps>>

FinalizeRequest(m) ==
    /\ ReceivesRequestBody(m, BufferingRequest) /\ endsBody(m)
    /\ buf' = buf \o payloadOf(m)
    /\ LET result == mcpRequestHandler(buf', mcpHeaders)
       IN  /\ request' = [id |-> result.Id, config |-> result.ToolResponseConfig,
                          status |-> 0, era |-> result.Era]
           /\ \/ /\ result.Reroute # NoReroute
                 /\ \E length \in EncodedSizes :
                       reps' = frame(result.Reroute, length, "request", isTrailers(m))
              \/ /\ result.Reroute = NoReroute
                 /\ reps' = result.Immediate
    /\ state' = AwaitingResponseHeaders
    /\ mcpHeaders' = NoHeaders

ReceivesToolResponse(m) ==
    /\ Receives(m, AwaitingResponseHeaders, {"ResponseHeaders"})
    /\ isToolCall(request)
    /\ upstream' = m
    /\ respBytes' = <<>>
    /\ UNCHANGED <<rc, opened, reqBytes, sent, cycles>>

\* Faulty variants: a status that does not parse is stored; none is stored.
withStatus_Unchecked(context, m) == [context EXCEPT !.status = m.status]
withStatus_Dropped(context, m) == context

withStatus(context, m) ==
    IF statusParses(m.status)
    THEN [context EXCEPT !.status = parseUpstreamStatusCode(m.status)]
    ELSE context

StartBufferingResponse(m) ==
    /\ ReceivesToolResponse(m) /\ ~m.eos
    /\ request' = withStatus(request, m)
    /\ beginBuffering
    /\ state' = BufferingResponse
    /\ UNCHANGED <<mcpHeaders, reps>>

ReplaceEmptyResponse(m) ==
    /\ ReceivesToolResponse(m) /\ m.eos
    /\ \E length \in EncodedSizes \ {0} :
          reps' = buildEndOfStreamResponse(withStatus(request, m), length)
    /\ state' = AwaitingRequestHeaders
    /\ request' = NoContext
    /\ UNCHANGED <<mcpHeaders, buf>>

\* Faulty variant: a chunk replaces the ones before it.
ReceivesResponseBody_Overwrites(m) ==
    /\ Receives(m, BufferingResponse, {"ResponseBody", "ResponseTrailers"})
    /\ Len(respBytes \o payloadOf(m)) <= MaxPieces
    /\ respBytes' = respBytes \o payloadOf(m)
    /\ buf' = IF isTrailers(m) THEN buf ELSE payloadOf(m)
    /\ UNCHANGED <<rc, opened, reqBytes, upstream, sent, cycles>>

ReceivesResponseBody(m) ==
    /\ Receives(m, BufferingResponse, {"ResponseBody", "ResponseTrailers"})
    /\ Len(respBytes \o payloadOf(m)) <= MaxPieces
    /\ respBytes' = respBytes \o payloadOf(m)
    /\ buf' = buf \o payloadOf(m)
    /\ UNCHANGED <<rc, opened, reqBytes, upstream, sent, cycles>>

AppendResponseBody(m) ==
    /\ ReceivesResponseBody(m) /\ ~endsBody(m)
    /\ UNCHANGED <<state, mcpHeaders, request, reps>>

FinalizeResponse(m) ==
    /\ ReceivesResponseBody(m) /\ endsBody(m)
    /\ \E length \in EncodedSizes \ {0} :
          reps' = frame(mcpResponseHandler(request, buf', length), length, "response", isTrailers(m))
    /\ state' = AwaitingRequestHeaders
    /\ request' = NoContext
    /\ UNCHANGED mcpHeaders

\* The messages a state expects; any other one fails the stream, and so does
\* the response to a request that was not a tool call.
expected(s) ==
    CASE s = AwaitingRequestHeaders -> {"RequestHeaders"}
      [] s \in {DrainingRequest, BufferingRequest} -> {"RequestBody", "RequestTrailers"}
      [] s = AwaitingResponseHeaders -> IF isToolCall(request) THEN {"ResponseHeaders"} ELSE {}
      [] s = BufferingResponse -> {"ResponseBody", "ResponseTrailers"}

ProtocolViolation(m) ==
    /\ rc = "running" /\ reps = <<>>
    /\ m.type \notin expected(state)
    /\ rc' = "FailedPrecondition"
    /\ UNCHANGED <<state, mcpHeaders, request, buf, reps, history>>

Handle(m) ==
    \/ MethodNotAllowed(m) \/ Forbidden(m) \/ MissingBody(m)
    \/ StartDraining(m) \/ StartBufferingRequest(m)
    \/ DiscardRequestBody(m) \/ RejectDrained(m)
    \/ AppendRequestBody(m) \/ FinalizeRequest(m)
    \/ StartBufferingResponse(m) \/ ReplaceEmptyResponse(m)
    \/ AppendResponseBody(m) \/ FinalizeResponse(m)
    \/ ProtocolViolation(m)

(***************************************************************************)
(* The rest of the loop: sending the replies, and the ends of the stream.   *)
(***************************************************************************)
Send ==
    /\ rc = "running" /\ reps # <<>>
    /\ sent' = Append(sent, Head(reps))
    /\ reps' = Tail(reps)
    /\ UNCHANGED <<state, mcpHeaders, request, buf, rc,
                   opened, reqBytes, upstream, respBytes, cycles>>

Returns(status) ==
    /\ rc' = status
    /\ UNCHANGED <<state, mcpHeaders, request, buf, reps, history>>

\* The replies that are left are never sent.
SendFails == rc = "running" /\ reps # <<>> /\ Returns("Unknown")

\* io.EOF or Canceled: the peer is done with the stream.
RecvEnds == rc = "running" /\ reps = <<>> /\ Returns("nil")

RecvFails == rc = "running" /\ reps = <<>> /\ Returns("Unknown")

Init ==
    /\ state = AwaitingRequestHeaders
    /\ mcpHeaders = NoHeaders
    /\ request = NoContext
    /\ buf = <<>>
    /\ reps = <<>>
    /\ rc = "running"
    /\ opened = NoMessage
    /\ reqBytes = <<>>
    /\ upstream = NoMessage
    /\ respBytes = <<>>
    /\ sent = <<>>
    /\ cycles = 0

Next == (\E m \in Messages : Handle(m)) \/ Send \/ SendFails \/ RecvEnds \/ RecvFails

Spec == Init /\ [][Next]_vars
(***************************************************************************)
(* Properties.                                                              *)
(***************************************************************************)
Captured == {captureMCPRequestHeaders(h) : h \in HeaderLists \cup {<<>>}}

Contexts == [id : Ids \cup {NoId}, config : Tools \cup {NoTool},
             status : Nat, era : Eras \cup {NoEra}]

\* The variables of the machine have the shapes the Go types give them, and
\* what only one state carries is absent in the others.
TypeOK ==
    /\ state \in States
    /\ mcpHeaders \in Captured
    /\ state # BufferingRequest => mcpHeaders = NoHeaders
    /\ request \in Contexts
    /\ state \notin {AwaitingResponseHeaders, BufferingResponse} => request = NoContext
    /\ buf \in Seq(Pieces)
    /\ rc \in {"running", "nil", "FailedPrecondition", "Unknown"}
    /\ cycles \in 0 .. MaxCycles

\* stream.buf is shared by the two buffering phases and by all cycles
\* (stream_state.go:35-37).  Whatever was left in it, a phase that is buffering
\* holds exactly the bytes that arrived since its own headers message.
BufferHoldsThisBody ==
    /\ state = BufferingRequest  => buf = reqBytes
    /\ state = BufferingResponse => buf = respBytes

\* The request context that travels from the request path to the response path
\* is the one of this cycle: what the handler makes of the bytes and headers that
\* opened the cycle, and from the response headers on, this upstream's status.
ContextIsThisCycles ==
    state \in {AwaitingResponseHeaders, BufferingResponse} =>
      LET result == mcpRequestHandler(reqBytes, captureMCPRequestHeaders(opened.headers))
      IN  request = [id |-> result.Id, config |-> result.ToolResponseConfig, era |-> result.Era,
                     status |-> IF state = AwaitingResponseHeaders THEN 0
                                ELSE parseUpstreamStatusCode(upstream.status)]

\* All replies of the cycle, sent and still to be sent.
wire == sent \o reps

isTerminator(r) ==
    \/ r.type = "body" /\ r.eos
    \/ r.type = "trailers"
    \/ r.type = "headers" /\ r.replace # NoBody

\* One direction on the wire: the headers, then body chunks, then at most one
\* trailers message, and the end of the stream said once, by the last message.
isDirection(w, dir) ==
    /\ w # <<>>
    /\ \A i \in DOMAIN w :
          /\ w[i].type # "immediate" /\ w[i].dir = dir
          /\ w[i].type = "headers" <=> i = 1
          /\ isTerminator(w[i]) <=> i = Len(w)

isRefusal(w) ==
    /\ Len(w) = 2
    /\ w[1] = HeadersResponse("request", EmptyMutation, NoBody)
    /\ w[2].type = "immediate"

isForwarded(w) == w # <<>> /\ ~isRefusal(w)

\* The replies of a cycle come in the order the duplex protocol asks for
\* (extproc_response.go:27-30 and 222-228): nothing while the request body is
\* still arriving; then either the acknowledgement of the headers and one
\* immediate response, or the rewritten request and after it the response,
\* each with exactly one end of stream, at its end.
RepliesInOrder ==
    CASE state \in {DrainingRequest, BufferingRequest} -> wire = <<>>
      [] state = BufferingResponse -> isDirection(wire, "request")
      [] state = AwaitingResponseHeaders -> isRefusal(wire) \/ isDirection(wire, "request")
      [] OTHER -> \/ wire = <<>> /\ cycles = 0
                  \/ isRefusal(wire)
                  \/ \E k \in 1 .. Len(wire) - 1 :
                        /\ isDirection(SubSeq(wire, 1, k), "request")
                        /\ isDirection(SubSeq(wire, k + 1, Len(wire)), "response")

\* The first header with this key has this value.
says(headers, key, value) ==
    \E i \in DOMAIN headers :
      /\ headers[i].key = key /\ headers[i].value = value /\ headers[i].enc # "badBase64"
      /\ \A j \in 1 .. i - 1 : headers[j].key # key

\* A tool call that may go upstream, said of the bytes and headers that arrived
\* rather than of the handler's steps.
isAdmissible(m, headers) ==
    LET modern == \/ isModernVersion(metaProtocolVersion(m.params))
                  \/ \E v \in {headers[i].value : i \in {j \in DOMAIN headers :
                                  headers[j].key = headerMCPProtocolVersion}} :
                        isModernVersion(v) /\ says(headers, headerMCPProtocolVersion, v)
    IN  /\ m.kind = "request" /\ m.method = methodToolsCall
        /\ m.params.shape = "object" /\ m.params.name \in Tools /\ m.params.args = "valid"
        /\ modern => /\ m.params.meta = v20260728
                     /\ says(headers, headerMCPProtocolVersion, v20260728)
                     /\ says(headers, headerMCPMethod, methodToolsCall)
                     /\ says(headers, headerMCPName, m.params.name)

\* A request goes upstream only if it was a POST from an allowed host whose
\* complete body is a well-formed call of a registered tool, with headers that
\* mirror the body when it is a modern one; and what goes upstream is the
\* endpoint request of that call.
ForwardedOnlyIfAdmissible ==
    isForwarded(wire) =>
      /\ opened.method \in {"POST", NoMethod} /\ opened.allowed
      /\ \E m \in RequestBodies :
            /\ reqBytes = Whole(m)
            /\ isAdmissible(m, opened.headers)
            /\ \A i \in DOMAIN wire :
                  wire[i].type = "body" /\ wire[i].dir = "request"
                    => wire[i].body = Endpoint(m.params.name, m.params)

\* No header that concerns MCP only reaches the upstream
\* (extproc_response.go:16-18), however many mcp-param-* there were.
McpHeadersStripped ==
    isForwarded(wire) =>
      {opened.headers[i].key : i \in DOMAIN opened.headers} \cap MCPKeys
        \subseteq wire[1].mutation.remove

\* The bodies written in the response direction.
answers ==
    LET fromUpstream == {i \in DOMAIN wire : wire[i].type # "immediate" /\ wire[i].dir = "response"}
    IN  {wire[i].body : i \in {j \in fromUpstream : wire[j].type = "body"}}
          \cup ({wire[i].replace : i \in {j \in fromUpstream : wire[j].type = "headers"}} \ {NoBody})

\* A translated response answers the call of its own cycle: it is a result and
\* never an internal error, with the id and in the era of the request that
\* opened the cycle, carrying the bytes this upstream sent (or the description
\* of an empty response), and an error exactly when the upstream's status is one
\* or is unknown.
AnswersThisCall ==
    \A a \in answers : \E m \in RequestBodies :
      /\ reqBytes = Whole(m)
      /\ a.form = "result" /\ a.id = m.id /\ a.id # NoId
      /\ a.envelope.stamped = isModernVersion(m.params.meta)
      /\ ~a.envelope.cacheable
      /\ a.envelope.result.content =
            IF upstream.eos THEN EmptyText(IF upstream.status < 0 THEN 0 ELSE upstream.status)
            ELSE BodyText(respBytes)
      /\ a.envelope.result.isError = (upstream.status \notin 1 .. 399)

\* Structured content is set only when the tool has an output schema and the
\* upstream sent valid JSON under a status that is no error.
StructuredOnlyIfPromised ==
    \A a \in answers : a.form = "result" /\ a.envelope.result.structured =>
      /\ \E m \in RequestBodies : reqBytes = Whole(m) /\ m.params.name \in StructuredTools
      /\ \E b \in UpstreamBodies : b.json /\ respBytes = Whole(b)
      /\ upstream.status \in 1 .. 399

\* mcp_handler.go:403 says of the structured content that "outputSchema is
\* defined for 2xx responses only": it is set for 2xx responses only.
StructuredOnlyFor2xx ==
    \A a \in answers :
      a.form = "result" /\ a.envelope.result.structured => upstream.status \in 200 .. 299

\* stream_state.go:70-72 says of isToolCall that it "reports whether this
\* cycle's request was a tool call the processor rewrote and forwarded upstream
\* and whose response it therefore owns and must translate back".
ForwardedIsOwned ==
    state = AwaitingResponseHeaders /\ isForwarded(wire) => isToolCall(request)

\* The announced content-length is the number of bytes streamed.
LengthAnnounced ==
    \A i \in DOMAIN wire :
      wire[i].type = "body" /\ wire[i].dir = "response" =>
        \E h, last \in DOMAIN wire :
          /\ wire[h].type = "headers" /\ wire[h].dir = "response"
          /\ wire[last].type = "body" /\ wire[last].dir = "response"
          /\ wire[h].mutation.length = wire[last].hi
          /\ wire[i].hi <= wire[last].hi
=============================================================================
