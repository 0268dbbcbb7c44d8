# A TLA+ model of envoy-mcp-openapi-processor

The program is an Envoy external processor (`ext_proc`). It makes a REST API
described by an OpenAPI document available to MCP clients: it answers MCP
protocol requests itself, turns a `tools/call` into a request to the API and
turns the API's response back into an MCP result. This directory holds TLA+
modules that model it, TLC configurations that check them on small instances,
and proofs that TLAPS checks.

Line numbers refer to the Go files at the root of the repository (`src/` in
`PROJECT.json`).

## 1. Inventory

| Component | Files | State | Operations |
|---|---|---|---|
| Stream state machine and `Process` loop | `stream_state.go`, `server.go` (`Process`) | per stream: the current `streamState` with its captured headers or request context, `stream.buf` | `handle` per state and message, `Send` per reply, return on EOF, cancel or error |
| ext_proc messages and framing | `extproc_response.go`, `const.go` | none | message constructors, `frame` |
| MCP handlers | `mcp_handler.go`, `result.go` | none (reads the registry) | `mcpRequestHandler`, `mcpResponseHandler`, `buildEndOfStreamResponse` |
| Protocol eras | `mcp.go` | none | `resolveEra`, `serves`, `encodeResult`, `errorStatus`, `negotiateLegacyVersion` |
| Mirrored header validation | `header_validation.go` | none | `captureMCPRequestHeaders`, `validateHeaders` |
| Host and Origin allowlist | `host_validation.go` | the allowlist, immutable | `newHostAllowlist`, `checkHeaders` |
| Tool registry | `registry.go` | map of tools, filled at start | `Register`, `GetConfig`, `Tools`, `FilterByAllowlist` |
| OpenAPI loader | `openapi.go` | none | `newToolRegistryFromConfig`, `generateMCPToolsFromSpec`, schema conversion |
| Endpoint request builder | `endpoint_request.go` | none | `newEndpointRequest`, `applyEndpointArgument`, `marshalRequestBody` |
| Server lifecycle, configuration | `server.go` | socket, gRPC server | `RunServer`, `Config.validate` |
| Telemetry, logging | `telemetry.go`, `tracing.go`, `log.go` | none that a reply depends on | spans, counters, records |

**How they interact.** Envoy opens one gRPC stream per HTTP request. `Process`
receives one message at a time, calls `handle` of the current state, sends every
reply it returned and only then receives again. A state calls the host allowlist
and the header capture at the headers message, the request handler when the
request body is complete, and the response handler when the response body is
complete. Streams share the registry and the allowlist, which do not change
after the start, and nothing else: the concurrency of this program is between
the stream and Envoy, whose messages are in flight in both directions at once.

**What is hard.** Both bodies are FULL_DUPLEX_STREAMED, so Envoy sends body
chunks without waiting for any reply; the processor withholds its reply to the
headers until the body has ended; one buffer serves both directions; the id, the
era and the tool of a request are remembered across several messages; trailers
may replace `end_of_stream`; the API may answer while its request is still being
written; the client, Envoy or the connection may vanish at any point.

**What makes the components correct**

- stream: bodies do not mix; the context used for the response is this request's;
  replies come in the order the duplex protocol needs; nothing inadmissible is
  forwarded; no stream is left hanging;
- framing: the chunks tile the body, none is too long, the end is said once;
- handlers and eras: a request is served by the era it speaks, every error has
  the status of its era, an answer carries the id and the bytes of its own call;
- negotiation: what a client is told in one answer holds in its next request;
- host check: exactly the documented policy, and never laxer;
- registry and loader: one tool per name, sorted, fixed by the documents and not
  by map order; the schema that is listed is the one the response side acts on;
- endpoint request: verdict, URL and headers do not depend on parameter order;
- lifecycle: whoever serves can be reached, a restart gets the socket, a stop
  lets its streams finish and ends.

The hazards behind these are listed one by one, with their lines, in
`PROJECT.json`.

## 2. Modules

```
ProtocolEra        mcp.go                  versions, eras, methods, envelopes
HeaderValidation   header_validation.go    EXTENDS ProtocolEra
ExtProcResponse    extproc_response.go     messages, frame in closed form
  FrameProofs                              lemmas on chunks and frames
  FrameLoop                                the loop of frame, one step per iteration
    FrameLoopProofs                        its theorems
McpHandler         mcp_handler.go          EXTENDS HeaderValidation, ExtProcResponse
  RequestHandling                          mcpRequestHandler on its own
    RequestHandlingProofs                  its theorems, and that on ClientSession
  StreamState      stream_state.go,        one stream, arbitrary peer
                   server.go (Process)
    StreamStateProofs                      its theorems, with those of FrameProofs
    Exchange                               the stream with Envoy, client and API
      ExchangeProofs                       its theorems, with those of StreamStateProofs
Gateway                                    what the client is promised (abstract)
ClientSession                              EXTENDS McpHandler: a client's requests, one
                                           after the other
HostValidation     host_validation.go,     allowlist and validation of its entries
                   server.go (validate)
  HostCheck                                configuring a server and checking requests
ToolRegistry       registry.go             Register, FilterByAllowlist
  OpenApi          openapi.go              from an operation to a tool
    ToolLoading    openapi.go, server.go   the start: files, operations, allowlist
      ToolLoadingProofs                    its theorems
    EndpointRequest endpoint_request.go    from arguments to the request to the API
      EndpointRequestProofs                its theorems
ServerLifecycle    server.go (RunServer)   processes on one socket path
  ServerProofs                             the theorems on HostCheck and ServerLifecycle
MC*.tla, *.cfg                             instances for TLC
```

Operators keep the names of the Go functions. An operator named `<f>_<Bug>`,
with the comment "Faulty variant", is the same definition with a plausible
mistake; it is used by nothing and exists to show that the properties notice it.

### Abstractions

- **Bytes.** A body is a value; on the wire it is the sequence `Whole(b)` of its
  `BodyParts` pieces. Any other sequence of pieces (a part lost, doubled,
  swapped, or followed by another body) decodes to nothing. This is what makes a
  buffer that mixes two bodies visible.
- **JSON.** A request body is `[kind, id, method, params]`: whether it decodes
  as JSON-RPC, and the fields the handlers read. `params.shape` says which
  decoders accept the parameters; `args` whether the endpoint request builder
  does. Failures of `json.Marshal` on values the code has just built do not occur
  and are left out.
- **Versions** are the date as an integer, so that the string comparisons of
  `mcp.go` become integer comparisons of the same order.
- **Headers** are sequences of `[key, value, enc]`, in the order of the wire,
  because the code takes the first of a repeated header. `enc` says whether the
  value is plain, Base64-wrapped, or wrapped and broken. Trimming and
  lower-casing are taken as done.
- **Written bodies** have a length from `EncodedSizes`, chosen when they are
  framed. A chunk is the slice `(lo, hi]` of a body of a given `length`. The body of a translated response is
  JSON and so never has length 0; that of a rewritten request may.
- **The host check** is the Boolean `allowed` of the headers message in
  `StreamState`, which may be either. `MCExchange` computes it with
  `HostValidation` from the host of each request.
- **Host names** are sequences of tokens plus the decorations the code looks at:
  blanks around the text, brackets, a port, capitals. Trimming, lower-casing and
  splitting off the port remove decorations.
- **Tool names** are a rank (the order of `strings.Compare`), a length and
  whether all characters are allowed.
- **OpenAPI schemas** are a name, whether they are an object and whether they
  contain themselves. Descriptions and titles are left out.
- **Paths** of endpoints are sequences of texts and placeholders, and so are the
  texts of scalar arguments, since a value may itself contain a placeholder.

### StreamState

The variables `state`, `mcpHeaders`, `request`, `buf`, `reps` and `rc` are the
program's: the Go state value and what it carries, the shared buffer, the replies
still to send, and what `Process` returned. `opened`, `reqBytes`, `upstream`,
`respBytes`, `sent` and `cycles` are history: no action depends on them apart
from the two bounds `MaxPieces` and `MaxCycles`.

One call of `handle` is one step: it touches only the stream's own state. Sending
is one step per reply, so a stream can end in the middle of a sequence of
replies. There is one action per branch of each state's `handle`:

| State | Actions |
|---|---|
| `stateAwaitingRequestHeaders` | `MethodNotAllowed`, `Forbidden`, `MissingBody`, `StartDraining`, `StartBufferingRequest` |
| `stateDrainingRequest` | `DiscardRequestBody`, `RejectDrained` |
| `stateBufferingRequest` | `AppendRequestBody`, `FinalizeRequest` |
| `stateAwaitingResponseHeaders` | `StartBufferingResponse`, `ReplaceEmptyResponse` |
| `stateBufferingResponse` | `AppendResponseBody`, `FinalizeResponse` |
| all | `ProtocolViolation` |
| `Process` | `Send`, `SendFails`, `RecvEnds`, `RecvFails` |

The peer is arbitrary: any message in any state. What holds here does not depend
on Envoy keeping to its protocol.

### Exchange and Gateway

`Exchange` runs the same actions on the messages of a peer that keeps to the
protocol, with a FIFO queue in each direction. Envoy, the client and the API are
external and modelled from what the code and `examples/mcp-server/envoy-mcp.yaml`
rely on:

- one stream per HTTP request; bodies in chunks of any size, the end said by the
  last chunk, an empty one or trailers; no waiting for replies;
- `failure_mode_allow` is off: a stream that ends early fails the request;
- Envoy closes its side after an immediate response or a complete response;
- a reset or a lost connection may be reported by `Recv` or `Send` before
  everything in flight was delivered;
- the API answers once the rewritten headers arrived, possibly before the body.
  The empty acknowledgement that precedes an immediate response does not count as
  a call: the immediate response follows it at once.

Not included: replies Envoy makes up itself, such as its own timeouts.

`Gateway` says what the client is promised, with four variables: a request that
is no admissible call is refused and the API is not called; an admissible one
leads to one call of the API and one answer; a request fails only if the
connection was lost, with one exception, the tool call without an id (finding 2).
`KeepsPromise` states that `Exchange` implements it, liveness included; `Safety` is
the part without fairness. The
mapping reads `kind` from the client's request, `api` from the requests Envoy has
routed, `fault` from the connection.

### ServerLifecycle

`proc[i]` is one process: where its goroutine in `RunServer` is, whether ctx is
done, where the goroutine that calls `GracefulStop` is, and whether the listener
is open; `path` says whose socket is at the socket path. There is one action per
statement of `RunServer` that can fail or that others can see: `Validate`,
`LoadTools`, `RemoveSocket`, `ListenUnix`, `SpawnStopper`, `Serve`, and
`GracefulStop` of the other goroutine. The gRPC server and the file system are
external: a Unix listener unlinks its path by name when it is closed, once;
`GracefulStop` closes the listener it was given by `Serve`, waits for the accept
loop and for every stream; `Serve` after `GracefulStop` returns at once. A process
may crash at any step and leaves its socket file.

About who is started when there is one assumption, the guard of `Start`: a process
meant to serve is started when every other such process has ended or been told to
stop, as an orderly redeployment does. Where the others are by then does not matter:
a cancelled one may be draining its streams, or may still be loading its tools, and
since `RunServer` does not look at ctx before `Serve` it then goes on to remove the
path and to listen. A process with a broken configuration is started at any time.
The field `contested` is history: whether another process was on its way to the
socket (`starting`) when this one removed the path, or was on its way or had its
listener open when this one listened.

### HostCheck

`Configure` is what `RunServer` does with `AllowedHosts`, `CheckRequest` one call
of `checkHeaders`. The documented policy (`server.go:172-181`) is stated next to
it over names alone, without normalisation, suffixes or maps. It knows one thing about
their notation: an IPv6 address needs brackets to have a port, and `::1:80` without
them is another address.

### ToolLoading

A start goes through the files in order (`SkipFile`, `OpenFile`, `MergeFile`) and
through the operations of a file in the order of Go's maps: any path, then any
method of that path (`next`). `VisitOperation` converts and registers one, with
the output schema any of those the map order may give; `CrashOnOperation` is the
conversion that does not return. `Finish` checks that there are tools and applies
the allowlist. `Restart` begins again on the same files. `offered` and
`allOffered` say what the documents hold without any order.

### EndpointRequest

`RequestInit` makes the endpoint from an operation with the operators of
`OpenApi`, so that the two fit together as they do in the program. One step
visits one parameter, in any order (`MissingArgument`, `RefuseArgument`,
`applyEndpointArgument`); `MarshalBody` follows. The reference is simultaneous
substitution.

### ClientSession

The processor keeps nothing between requests. A client starts with
`server/discover` or with `initialize` (the two entry points in the repository's
README), uses the answer to choose a version, and goes on to list and call a
tool. Each request is answered by `mcpRequestHandler` of `McpHandler`. Answers may
be lost, and the client repeats its request. The client is external.

## 3. Runs

| Run | Module, configuration | Shows |
|---|---|---|
| `stream_any_peer` | `MCStreamState` | a stream over two cycles under an arbitrary peer |
| `request_handler` | `MCRequestHandling` | `mcpRequestHandler` on 12800 inputs |
| `frame_loop` | `FrameLoop` | the loop of `frame` in both directions, lengths 0 to 13, chunks of 3 |
| `exchange` | `MCExchange` | client, Envoy, processor and API around one request |
| `refused_method_with_body` | `MCExchange`, `RefusedMethod.cfg` | finding 1 |
| `tool_call_notification` | `MCStreamState`, `NotificationCall.cfg` | finding 2 |
| `structured_redirect` | `MCStreamState`, `StructuredRedirect.cfg` | finding 3 |
| `server_lifecycle` | `ServerLifecycle` | three processes on one path, a new one once the others were told to stop |
| `host_allowlist` | `MCHostCheck` | the allowlist against the documented policy |
| `tool_loading` | `MCToolLoading` | two starts on 66 deployments, in every map order |
| `endpoint_request` | `MCEndpointRequest` | five operations, arguments of every kind, in every order |
| `client_session` | `MCClientSession` | clients of every mix of versions, two lost answers |

**stream_any_peer.** `BufferHoldsThisBody` and `ContextIsThisCycles`: buffer and
context belong to the body and cycle at hand. `RepliesInOrder`: the shape of
everything sent in a cycle. `ForwardedOnlyIfAdmissible`: stated over the bytes
and headers that arrived, not over the handler's steps. `McpHeadersStripped`: no
MCP header reaches the API. `AnswersThisCall`, `StructuredOnlyIfPromised`,
`LengthAnnounced`: what the client gets is the translation of this upstream's
bytes, with this call's id and era, an error exactly when the status is, and with
the length that is then streamed.
*Bounds:* two cycles are enough for anything to leak from one cycle into the
next, since the machine keeps nothing about the one before last; two pieces per
body let a body arrive whole, split, doubled, swapped and mixed with another; two
tools (with and without output schema), two ids and the missing one; a body
shorter and one longer than a chunk.

**request_handler.** `ErasNeverMix`, `ErrorStatusFollowsEra` and
`NeverInternalError` over every method, every shape of parameters, and absent, old, modern and unknown versions
in header and body independently. Versions matter through the order and through
membership in the list, so one value per interval is enough.

**frame_loop.** The loop computes the closed form that the other modules use
(`LoopComputesFrame`), its chunks tile the body (`ChunksTile`) and the end is said
once (`OneTerminator`). `Called` is what the two callers pass: the rewritten call
with any of the headers to strip, and the translated response that announces its
length. The lengths include 0, multiples of the chunk size, and one below and above.

**exchange.** `ViolationsAreKnown`: a well-behaved Envoy meets a protocol
violation in two cases only, which are findings 1 and 2. `ApiGetsWholeCall` and
`ClientGetsItsAnswer` are end-to-end: the right body in slices without gap or
overlap (`inSlices`), and, when a request or an answer has ended, up to the length of
the body that `frame` was given (`reachesEnd`). `KeepsPromise` is the refinement.
`ProcessReturns`: no stream outlives its request. Requests of eleven kinds meet
four kinds of API responses; bodies have three pieces.

**server_lifecycle.** `ServesUntilCancelled`: a process that accepts and was not
cancelled can be reached, whatever crashes and failed starts do beside it, and
`ListenGetsSocket`: a socket file left by a crash or owned by a process that is
shutting down does not stop the next start. Both with the exceptions described in
section 4, `contested`.
`StreamsFinish`: `RunServer` returns nil only with no stream open. `CancelEnds`:
a cancelled process ends, also when ctx is done before `Serve` is called.
*Bounds:* three processes allow a crash, a restart and a failed start beside it;
two streams, so that one may end while another is open.

**host_allowlist.** `VerdictIsPolicy` when stars and wildcards are written without
blanks and port, and other entries in any way that passes `validate`;
`FailsClosed` for every configuration that passes `validate`. Each pair of seventeen
entries (plain, wildcard, with blanks, ports or capitals, ill-formed) meets every
combination of the host headers and origins below: absent, empty, apex,
subdomains, names that merely end in the apex, the apex after a lone dot, ports,
brackets, opaque origins.

**tool_loading.** `RegistriesKept`: sorted as the binary search needs, one
configuration per tool. `NamesFixedByDocuments`: if a start does not crash, whether
the process comes up and which names it serves does not depend on map order. Whether
it crashes may: it does so only if some operation can crash it (`mayCrash`), and
always if one crashes it whatever schema is chosen (`mustCrash`); an operation with two
JSON content types, one of them recursive, is in between and among the documents.
`FirstFileWins`,
`StructuredAsListed`, and `RestartSameIfUnambiguous`: with names unique in a file
and one schema to choose, two starts give the same registry.
`OutputSchemaFromSuccess`: the listed schema is that of the lowest 2xx response
with one, if there is any. The documents share
names with each other and within themselves, have names of length 0, 1, 128 and
129, and every kind of response and body.

**endpoint_request.** `VerdictFixed`, `PathIsSubstitution`,
`QueryAndHeadersComplete`, `NoPlaceholderLeft`, `RequiredAsListed`: the request is a function of the
arguments although the parameters are visited in map order. The path is only
claimed to be one when no value contains a placeholder: `ReplaceAll` would replace
that too, or not, depending on the order. Two path parameters, one used twice, and
a third parameter in each other place are enough to have every pair of kinds
follow each other in both orders. `NoPlaceholderLeft` needs no such condition: no
placeholder of the template is left, and what looks like one came with a value.

**client_session.** `AgreementHolds`: after a version has been agreed on nothing
is refused or answered in the other era. `SessionSettles`: every client gets to
call a tool or learns that it cannot. Modern versions: the one supported and a
future one; legacy ones: both supported, an older one and one in between.

**Deadlock** is not checked: a stream that has ended, a call that has returned, an
exchange, a session, a start or a process that is over really stop.

**Fairness** in `Exchange`: weak fairness of the processor (the
goroutine of `Process` is scheduled), of Envoy sending and applying what it
holds, of the API answering, and of Envoy noticing a lost connection. None is
assumed of the client leaving or the connection breaking. Sending is fair as a
whole, so the client is assumed to finish its body or to leave. The processor has
no timeouts of its own: a client that did neither would keep its stream open.
In `ServerLifecycle`: weak fairness of both goroutines and of the end of a stream,
which is what `ProcessReturns` shows of one stream under the assumptions above.
An accept error, a crash and a cancellation need not happen. `GracefulStop` has no
deadline: without the fairness of `EndStream` a single open stream would keep a
cancelled process alive. In `ClientSession`: weak fairness of the client and of
answers arriving; the number of lost ones is bounded by `MaxLosses`.

## 4. Findings

1. **A refused method with a body fails the stream.** `stream_state.go:93`
   answers 405 at the headers and stays in `stateAwaitingRequestHeaders` although
   the body is in flight; its first chunk is then a protocol violation. The
   comment at 124-129 explains why this must not happen and the host check drains
   the body for this reason. The client has its 405 by then; the stream ends in
   `FailedPrecondition`.
2. **A tool call without an id is forwarded and then disowned.**
   `handleToolCall` does not look at the id, `isToolCall` (`stream_state.go:74`)
   requires a valid one: the API is called and its response ends the stream.
3. **Structured content for 3xx.** The comment at `mcp_handler.go:403` says the
   output schema is defined for 2xx responses only; the condition excludes only
   errors, so a 302 with a JSON body gets structured content.

**Exceptions that passing properties name.** Six more places where a text and the
code part are stated as the exact exception of a property that holds otherwise:

- `ServesUntilCancelled`: closing a Unix listener unlinks its path by name. A
  process that listened before the cancelled one had closed its listener, by
  `GracefulStop` or by the deferred `lis.Close` (`server.go:119`), loses its own
  socket and cannot be reached, although it serves "until ctx is cancelled"
  (`server.go:78-80`).
- `ServesUntilCancelled` and `ListenGetsSocket`: a process cancelled before `Serve`
  still removes the path and listens (`server.go:108-117`). Next to the process started
  in its place it either takes the path from under it, or the two remove the path one
  after the other and the second to listen fails with the address in use.
- `VerdictIsPolicy`: `validAllowedHost` trims an entry, `newHostAllowlist` does not:
  `" *"`, `"*.example.org "` and, since a wildcard's port is not stripped,
  `"*.example.org:8080"` pass the validation that is there so that
  "misconfiguration fails loudly" (`server.go:203`) and match nothing. They fail
  closed (`FailsClosed`).
- `RestartSameIfUnambiguous`: documents with an operationId used twice, with
  several JSON content types of one response, or with several error responses and
  no success schema may give another list after a mere restart; README.md:41 says
  "The tool list changes only on redeploy".
- `OutputSchemaFromSuccess`: an operation none of whose 2xx responses has a JSON
  schema gets the output schema of its default response or of an error, although
  "outputSchema is defined for 2xx responses only" (`mcp_handler.go:403`).
- `RequiredAsListed`: a required body, and a required parameter whose name a later
  optional one has too, are in the input schema's `required`, and a call without
  them is forwarded.

Noticed and not a disagreement with any text: an operation with a JSON body that
has no schema, or with a body, parameter or output schema that contains itself,
crashes the start; a body
declared for DELETE is dropped; parameters of the path item are not read. A translated response that was
streamed keeps the HTTP status of the API, whereas the one that replaces an empty
response sets 200. After an immediate response to a request body the state is
`stateAwaitingResponseHeaders`, so such a stream cannot serve another request; it
relies on one stream per request.

## 5. Proofs

Eight modules hold theorems, each about the specifications of the modules it
extends, for every value of the constants. A run of section 3 checks the same
properties on a small instance. Every invariant and every action property that a
passing run checks is proved; what is left to TLC is liveness.

| Module | About | Theorems (property) |
|---|---|---|
| `StreamStateProofs` | `Spec` of `StreamState` | `TypeCorrect` (`TypeOK`), `BufferIsolated` (`BufferHoldsThisBody`), `ContextBelongsToCycle` (`ContextIsThisCycles`), `WireInOrder` (`RepliesInOrder`), `ForwardsAdmissible` (`ForwardedOnlyIfAdmissible`), `StripsMcpHeaders` (`McpHeadersStripped`), `AnswersOwnCall` (`AnswersThisCall`), `StructuredAsPromised` (`StructuredOnlyIfPromised`), `AnnouncesLength` (`LengthAnnounced`) |
| `ExchangeProofs` | `ExchangeSpec` | `ExchangeRunsStream` (`ExchangeSpec => Spec`), `ExchangeInvariance`, `OnlyKnownViolations` (`ViolationsAreKnown`), `ApiHasWholeCall` (`ApiGetsWholeCall`), `ClientHasItsAnswer` (`ClientGetsItsAnswer`), `ImplementsPromise` (`ExchangeSpec => Promise!Safety`, the refinement of `Gateway` without its fairness) |
| `FrameProofs` | operators of `ExtProcResponse` | lemmas only: what a chunk is, how many there are, what `frame` returns |
| `FrameLoopProofs` | `FrameSpec` | `LoopIsClosedForm` (`LoopComputesFrame`), `ChunksCoverBody` (`ChunksTile`), `EndsOnce` (`OneTerminator`) |
| `RequestHandlingProofs` | `HandlingSpec` | `NoInternalError` (`NeverInternalError`), `ErasApart` (`ErasNeverMix`), `ErrorStatuses` (`ErrorStatusFollowsEra`) |
| | `SessionSpec` | `AgreementAlwaysHolds` (`AgreementHolds`) |
| `ToolLoadingProofs` | `LoadSpec` | `LoadInvHolds`, `RegistriesStayKept` (`RegistriesKept`), `NamesAreFixedByDocuments` (`NamesFixedByDocuments`), `FirstFileAlwaysWins` (`FirstFileWins`), `StructuredIsAsListed` (`StructuredAsListed`), `OutputSchemaIsFromSuccess` (`OutputSchemaFromSuccess`), `RestartIsSameIfUnambiguous` (`RestartSameIfUnambiguous`) |
| `EndpointRequestProofs` | `RequestSpec` | `OneVerdict` (`VerdictFixed`), `PathAsSubstituted` (`PathIsSubstitution`), `TemplateIsFilled` (`NoPlaceholderLeft`), `CarriesArguments` (`QueryAndHeadersComplete`), `RequiredRefused` (`RequiredAsListed`) |
| `ServerProofs` | `HostSpec` | `NeverLax` (`FailsClosed`), `ExactlyThePolicy` (`VerdictIsPolicy`) |
| | `LifecycleSafety` (`LifecycleSpec` without fairness) | `LifecycleTyped` (`LifecycleTypeOK`), `KeepsServing` (`ServesUntilCancelled`), `RestartGetsSocket` (`ListenGetsSocket`), `NilAfterLastStream` (`StreamsFinish`, an action property) |

**Assumptions on constants**, each evaluated by TLC in the runs: `ChunkSizeAssumption`
(chunks are not empty), `HandlerAssumption` (a nil tool and an invalid id are not
tools and ids; bodies have the shape of JSON-RPC messages), `StreamAssumption`
(messages carry pieces of those bodies, statuses are integers), `HeaderAssumption`
(header lists are sequences, and only `mcp-name` is ever wrapped in Base64),
`ExchangeAssumption` (the client's requests and the API's responses are made of
headers, statuses and slices of bodies that a stream may get; without it the arbitrary
peer of `StreamState` would not include this one),
`RequestAssumption` (an operation has a list of parameters, each with a name;
arguments have one of three kinds; paths and texts are sequences),
`LoadAssumption` (files come in a list; a name is its rank; the responses of an
operation are finitely many and keyed by their status), `SessionAssumption` (there is
a tool to call, the modern versions of a client are modern, and what clients send is
among the bodies of `McpHandler`), `HostAssumption` (entries and headers are
texts; a parsed URL has no blank in its host), `LifecycleAssumption`.

**The stream.** The first inductive invariant is

    IInv == TypeOK /\ BufferHoldsThisBody /\ HeadersAreThisCycles /\ ContextIsThisCycles

`ContextIsThisCycles` is not inductive alone: the context is computed from the
buffer and from the captured headers at the last body message, so one needs to
know that the buffer holds the bytes of this request (`BufferHoldsThisBody`) and
that the headers are those of the message that opened the cycle
(`HeadersAreThisCycles`). `TypeOK` includes that each state carries only what its
Go struct has, which makes the other states trivial. `HandlerTyped` shows that
whatever the handler returns can be stored in a context.

What is on the wire needs a second one, `WireInv`, over `IInv`: the replies of a
cycle, sent or not, are a *function of what arrived in it*. In each state it says
what `wire` is: nothing while the request arrives; then what the handler made of
`reqBytes` and the opening headers, a refusal (`RefusalFrame`) or a framed call
(`RequestFrame`); and in the end such a call followed by the framed answer
(`Answered`). Sending moves a reply from `reps` to `sent` and leaves `wire` alone.
The theorems then follow without any further induction, from what the operators
return: `HandlerSplits` (the handler either refuses or forwards an admissible
call), `FrameOnWire` (the order and the one end of a frame, from `FrameProofs`)
and `ResponseFacts` (what an answer consists of).

**The exchange.** `ExchangeRunsStream` comes first: every step of the exchange is a step
of `StreamState` or leaves the stream alone, because Envoy feeds it messages any peer may
send. So `IInv` and `WireInv`, and all theorems of the stream, hold in the composition.
What they cannot say is which messages come, and what became of the replies. The
inductive invariant `XInv` adds that:

- `Course`: the one cycle of the stream was opened by this client's headers, a body that
  was completed is the client's or the API's, and nothing but the client's own request
  refuses the cycle early;
- `Queue`: while `Process` runs, what is in flight to it is exactly what the cycle still
  waits for in its current state (`Ahead`): the slices of a body that continue what has
  been buffered (`Slices`), then its trailers if it has any, and after everything the end
  of the stream if Envoy has closed it. It is stated for any cutting of the bodies;
- `Pipe` and `Sorted`: the replies sent are those Envoy turned into the API's request, then
  those it turned into the client's response, then those in flight, so each reply of
  `wire` is at a known place;
- `Closing`: the reply that ends the client's response is the last one applied and decides
  the outcome;
- `ViolationInv`: `ViolationsAreKnown` with what is on the wire at that moment.

`ViolationsAreKnown` depends on `Queue`: a violation is a message the state does not
expect, and `Queue` leaves only the two exceptions. `ApiGetsWholeCall` and
`ClientGetsItsAnswer` combine `Pipe` with what `WireInv` says of the framed call and the
framed answer: their chunks follow one another (`Chained`) and the last one reaches the
end of the body (`Complete`, from the arithmetic of `ChunkCount`). A request that has
ended is all of the framed call, because the call's only terminator is its last
message. For `ImplementsPromise` each action of the exchange is mapped to an action
of `Gateway` or to none: the reply that opens the API's request to `CallApi`, the one that
completes the client's response to `Refuse` or `Answer`, a stream that ends early to `Fail`.

**The loop of `frame`.** For either caller, `FInv` says that after `turns` iterations the output is the
header and the first `turns` chunks of the closed form, and that `offset` is
`turns * streamChunkSize` as long as the loop runs. The rest is arithmetic of the
number of chunks (`ChunkCount`), which the provers need in small steps since it is
not linear.

**The request handler.** `RInv` says that the result is the handler's. The work is
in the lemmas, which follow its branches: the era is resolved, then served, then
validated, and only `dispatch` answers with more than an error.

**The endpoint request.** `EInv` describes a request that is half built through the
parameters *visited so far* (`visited`), so that the order in which Go ranges over
the map does not occur in it: `VerdictSoFar` says that the call was refused iff one
of them is unacceptable, `QuerySoFar` and `HeadersSoFar` that query and headers hold
the arguments of exactly those, `PathSoFar` that the path is the template with the
arguments of those in it. When nothing is left to visit this is the property. The
step for the path is an equation between replacements: `Spread(g, t)` puts `g[y]` for
each token `y` of `t`, both `strings.ReplaceAll` and simultaneous substitution are of
this form, and `SpreadTwice` says that two replacements after each other are one.
That one is the next simultaneous substitution if no value has a placeholder
(`plainValues`), which is where the condition of `PathIsSubstitution` comes from.
`FlattenSeq` is a recursive function and has no theorem in the library: that it has
a value (`FlattenRuns`), and induction over sequences (`SequenceByToken`, with a set
in place of a predicate), are proved from the least counterexample in the naturals.
`NoPlaceholderLeft` needs no such condition: `TokenSoFar` says of each token whether it
came with a value or is one of the template that no parameter replaces, and under
`wellDeclared` every placeholder of the template has one that does.

**The start.** `LoadInv` never mentions the order of visiting. Three ideas carry it.
A registry that only `Register` has written to is sorted and has one configuration
for each tool (`Kept`), so it is fixed by its *set* of entries (`SameEntries`), and
`Register` adds one entry to that set (`RegisterAdds`); the loops over `Register`
unite two such sets (`Merged`, from the least turn that would not). An entry is what
some operation of some file gives (`From`), and that file is the first to offer its
name (`FirstWith`, `FromFirst`). And while a file is under way, its names are those
of the operations visited so far. When a start ends, all that is true of its result
and its registry is `Outcome`, and a restart keeps it for the start before
(`EndedBefore`); `RestartSameIfUnambiguous` is then a matter of two outcomes on the
same documents (`OutcomesAgree`), without any induction over two runs.

**The session.** `SessionInv` says that a version is declared only if it is the newest
of its client or was agreed on in that era (`agreeable`), and that the answer under
way is the one `mcpRequestHandler` gives to the request of this phase. Since the
processor keeps nothing, what it answers is a function of phase, version and era
(`answerTo`); one lemma per phase computes it.

**The host check.** `HInv` says that a server that serves has a valid configuration
and the list made from it, and that the verdict is that of `checkHeaders` on the last
headers. `CheckIsPolicy` does the rest: one entry of the list admits a name exactly
if the policy says so of that entry, once normalisation is known to keep the tokens
and to drop the decorations, with the one case where it does not, an address whose
last part looks like a port (`fused`). Proving `FailsClosed` showed that an earlier
statement of the policy was wrong there, and for a host that begins with a dot; the
policy was corrected and both cases were added to the run.

**The lifecycle.** `LInv` holds for any number of processes: `OneContender` (at most
one process with a good configuration has not been told to stop, which is what the
guard of `Start` gives), `WayClear` (if nobody else was on the way to the socket when
that process removed the path, nobody is, and the path is free until it listens) and
`SocketKept` (if nobody was on the way or listening when it listened, nobody is, and the
path is its own), with `Orderly`, what the fields of one process say of each other. A
process that starts later cannot disturb either: while the one in question has not
been told to stop, only broken configurations are started, and those return before
they come to the socket.

**Only model-checked.**

- Liveness: `ProcessReturns`, `CancelEnds`, `SessionSettles` and the fairness part of
  `KeepsPromise`. TLAPS 1.4.5 proves nothing about `ENABLED` and fairness.
- That the interesting cases happen: a theorem holds of a specification that does
  nothing, too, and the runs fire every action.

## 6. Not modelled

- Telemetry and logging (`telemetry.go`, `tracing.go`, `log.go`): no reply depends
  on them and they keep no state another component reads.
- The example server and the end-to-end scripts, apart from the Envoy
  configuration `Exchange` is based on.
- The content of JSON schemas (`openApiSchemaToMap` beyond whether it returns),
  descriptions, titles, and the encoding of the query string.
- In `StreamState`, the names and values of the extra headers an endpoint request
  may carry, which are those of `EndpointRequest`.
- Failures of `json.Marshal` on values that were just decoded.

## 7. Plan

The modules above are written, and all their safety properties are proved. What could
be added:

1. a property on bodies that are declared for other methods than POST, PUT and PATCH
   and dropped, the one hazard in `PROJECT.json` that no property covers;
2. `Gateway` for several requests of one client at a time, which share nothing but the
   registry and the allowlist;
3. the liveness properties, once the prover supports fairness.
