----------------------------- MODULE McpHandler -----------------------------
(***************************************************************************)
(* What the processor makes of a complete request body and of a complete    *)
(* upstream response (mcp_handler.go).                                      *)
(*                                                                         *)
(* Bytes.  A body travels as pieces: body b is the sequence Whole(b) of the *)
(* BodyParts pieces [of |-> b, part |-> i], and any other sequence of       *)
(* pieces is bytes that are the encoding of nothing.                        *)
(***************************************************************************)
EXTENDS HeaderValidation, ExtProcResponse

CONSTANTS
    Ids,              \* JSON-RPC ids
    NoId,             \* the id of a notification: invalid
    Tools,            \* names of the registered tools
    StructuredTools,  \* the ones that have an output schema
    NoTool,           \* nil *toolResponseConfig
    RequestBodies,    \* what a client can send as a body
    UpstreamBodies,   \* what an upstream can send as a body
    BodyParts,        \* pieces per body
    EncodedSizes      \* lengths of the bodies the processor writes

JsonRpcKinds == {"request", "response", "garbage"}

RequestParams == [shape : Shapes, meta : Nat, name : STRING,
                  version : Nat, args : {"valid", "rejected"}]

JsonRpcMessages == [kind : JsonRpcKinds, id : Ids \cup {NoId}, method : STRING,
                    params : RequestParams]

ASSUME HandlerAssumption ==
    /\ NoId \notin Ids
    /\ NoTool \notin Tools
    /\ "" \notin Tools
    /\ Tools \subseteq STRING
    /\ StructuredTools \subseteq Tools
    /\ BodyParts \in Nat \ {0}
    /\ EncodedSizes \subseteq Nat
    /\ RequestBodies \subseteq JsonRpcMessages
    /\ UpstreamBodies \subseteq [json : BOOLEAN, name : STRING]

Whole(b) == [i \in 1 .. BodyParts |-> [of |-> b, part |-> i]]

Pieces == [of : RequestBodies \cup UpstreamBodies, part : 1 .. BodyParts]

(***************************************************************************)
(* Bodies the processor writes.                                             *)
(***************************************************************************)
Endpoint(tool, params) == [form |-> "endpoint", tool |-> tool, params |-> params]
JsonRpcError(id, code) == [form |-> "error", id |-> id, code |-> code]
JsonRpcResult(id, envelope) == [form |-> "result", id |-> id, envelope |-> envelope]

InitializeResult(version) == [of |-> "initialize", version |-> version]
DiscoverResult   == [of |-> "discover", versions |-> supportedProtocolVersions]
ListToolsResult  == [of |-> "tools", tools |-> Tools]
CallToolResult(content, structured, isError) ==
    [of |-> "toolCall", content |-> content, structured |-> structured, isError |-> isError]

\* The text of a tool result: an upstream body, the description of an empty
\* one, or the complaint about an argument.
BodyText(buf)          == [source |-> "upstream", bytes |-> buf]
EmptyText(status)      == [source |-> "empty", status |-> status]
InvalidArgumentText    == [source |-> "argument"]

(***************************************************************************)
(* The result of mcpRequestHandler: exactly one of Immediate and Reroute.   *)
(***************************************************************************)
NoReroute == [headers |-> NoBody, body |-> NoBody]

Answer(id, immediate) ==
    [Id |-> id, Immediate |-> immediate, Reroute |-> NoReroute,
     ToolResponseConfig |-> NoTool, Era |-> NoEra]

errorResponse(era, id, code) ==
    Answer(id, newImmediateBodyResponseWithStatus(JsonRpcError(id, code), errorStatus(era, code)))

resultResponse(era, id, result) ==
    LET e == encodeResult(era, result)
    IN  IF e.ok THEN Answer(id, newImmediateBodyResponse(JsonRpcResult(id, e)))
        ELSE errorResponse(era, id, InternalError)

toolExecutionErrorResponse(era, id) ==
    resultResponse(era, id, CallToolResult(InvalidArgumentText, FALSE, TRUE))

handleInitialize(era, req) ==
    IF decodesInitialize(req.params)
    THEN resultResponse(era, req.id, InitializeResult(negotiateLegacyVersion(req.params.version)))
    ELSE errorResponse(era, req.id, InvalidParams)

handleToolCall(era, req, stripHeaders) ==
    CASE ~decodesCall(req.params) -> errorResponse(era, req.id, InvalidParams)
      [] decodesCall(req.params) /\ req.params.name \notin Tools ->
            errorResponse(era, req.id, InvalidParams)
      [] decodesCall(req.params) /\ req.params.name \in Tools /\ req.params.args = "rejected" ->
            toolExecutionErrorResponse(era, req.id)
      [] OTHER ->
            [Id |-> req.id, Immediate |-> <<>>,
             Reroute |-> rerouteWithBodyMutation(Endpoint(req.params.name, req.params), stripHeaders),
             ToolResponseConfig |-> req.params.name, Era |-> era]

dispatch(era, req, hdrs) ==
    CASE req.method = methodInitialize -> handleInitialize(era, req)
      [] req.method = methodNotificationsInitialized -> Answer(req.id, httpStatusResponse(202))
      [] req.method = methodDiscover -> resultResponse(era, req.id, DiscoverResult)
      [] req.method = methodToolsList -> resultResponse(era, req.id, ListToolsResult)
      [] req.method = methodToolsCall -> handleToolCall(era, req, hdrs.paramHeaderNames)
      [] OTHER -> errorResponse(era, req.id, MethodNotFound)

decodesTo(buf, m) == m.kind # "garbage" /\ buf = Whole(m)

handleRequest(req, hdrs) ==
    LET declared == metaProtocolVersion(req.params)
        r        == resolveEra(req.method, declared, hdrs.protocolVersion)
    IN  IF ~r.ok THEN errorResponse(r.era, req.id, UnsupportedProtocolVersion)
        ELSE IF ~serves(r.era, req.method) THEN errorResponse(r.era, req.id, MethodNotFound)
        ELSE IF ~validateHeaders(r.era, req, declared, hdrs)
             THEN errorResponse(r.era, req.id, HeaderMismatch)
        ELSE dispatch(r.era, req, hdrs)

mcpRequestHandler(buf, hdrs) ==
    IF ~ \E m \in RequestBodies : decodesTo(buf, m)
    THEN errorResponse(Legacy, NoId, ParseError)
    ELSE LET m == CHOOSE m \in RequestBodies : decodesTo(buf, m)
         IN  IF m.kind # "request"
             THEN errorResponse(Legacy, NoId, InvalidRequest)
             ELSE handleRequest(m, hdrs)

(***************************************************************************)
(* The response path.  A request context is [id, config, status, era].      *)
(***************************************************************************)
isHTTPErrorStatus(statusCode) == statusCode = 0 \/ statusCode >= 400

\* The value of the :status header; one that is absent or not a number leaves
\* the context's zero.  Envoy passes no negative status, so negative values
\* stand for those two.
AbsentStatus == -1
NotANumber   == -2
statusParses(status) == status >= 0
parseUpstreamStatusCode(status) == IF statusParses(status) THEN status ELSE 0

\* Faulty variant: the era of the request is forgotten.
protocolEra_Default(rc) == Legacy

protocolEra(rc) == IF rc.era = NoEra THEN Legacy ELSE rc.era

isToolCall(rc) == rc.id # NoId /\ rc.config # NoTool

\* Faulty variant: any upstream body passes for JSON.
jsonValid_Unchecked(text) == text.source = "upstream"

\* json.Valid.  The prose that describes an empty response never is.
jsonValid(text) ==
    /\ text.source = "upstream"
    /\ \E b \in UpstreamBodies : b.json /\ text.bytes = Whole(b)

buildMCPResponse(rc, text) ==
    LET isError == isHTTPErrorStatus(rc.status)
        structured == rc.config \in StructuredTools /\ jsonValid(text) /\ ~isError
        e == encodeResult(protocolEra(rc), CallToolResult(text, structured, isError))
    IN  IF rc.id # NoId /\ rc.config # NoTool /\ e.ok
        THEN JsonRpcResult(rc.id, e)
        ELSE JsonRpcError(rc.id, InternalError)

buildEndOfStreamResponse(rc, length) ==
    newReplacedResponse(buildMCPResponse(rc, EmptyText(rc.status)), length)

\* Faulty variant: announces the length of the upstream's body.
mcpResponseHandler_UpstreamLength(rc, buf, length) ==
    [headers |-> HeadersResponse("response", responseMutation(Len(buf)), NoBody),
     body |-> buildMCPResponse(rc, BodyText(buf))]

mcpResponseHandler(rc, buf, length) ==
    [headers |-> HeadersResponse("response", responseMutation(length), NoBody),
     body |-> buildMCPResponse(rc, BodyText(buf))]
=============================================================================
