-------------------------- MODULE ExtProcResponse ---------------------------
(***************************************************************************)
(* The ext_proc messages sent to Envoy (extproc_response.go).               *)
(*                                                                         *)
(* A body is an abstract value with a length, and a streamed chunk is the   *)
(* slice (lo, hi] of such a body.  Lengths are counted in units of which a  *)
(* chunk holds streamChunkSize.                                             *)
(***************************************************************************)
EXTENDS Integers, Sequences

CONSTANT streamChunkSize   \* the most a streamed chunk may carry (const.go)

ASSUME ChunkSizeAssumption == streamChunkSize \in Nat \ {0}

(***************************************************************************)
(* Header mutations: the keys set and removed, and the content-length value *)
(* when it is among those set.                                              *)
(***************************************************************************)
NoLength       == -1
contentHeaders == {"content-length", "content-type"}
removeOnRoutingHeaders ==
    contentHeaders \cup {"mcp-protocol-version", "mcp-method", "mcp-name"}

Mutation(set, remove, length) == [set |-> set, remove |-> remove, length |-> length]
EmptyMutation == Mutation({}, {}, NoLength)

(***************************************************************************)
(* The messages.  replace is the whole body that a CONTINUE_AND_REPLACE     *)
(* headers response carries.                                                *)
(***************************************************************************)
NoBody == [form |-> "none"]

HeadersResponse(dir, mutation, replace) ==
    [type |-> "headers", dir |-> dir, mutation |-> mutation, replace |-> replace]

newStreamedBodyResponse(dir, body, length, lo, hi, endOfStream) ==
    [type |-> "body", dir |-> dir, body |-> body, length |-> length, lo |-> lo, hi |-> hi,
     eos |-> endOfStream]

TrailersResponse(dir) == [type |-> "trailers", dir |-> dir]

ImmediateResponse(status, body) == [type |-> "immediate", status |-> status, body |-> body]

\* Every immediate response is preceded by the acknowledgement of the cycle's
\* still unanswered RequestHeaders message.
immediateResponse(immediate) ==
    <<HeadersResponse("request", EmptyMutation, NoBody), immediate>>

httpStatusResponse(status) == immediateResponse(ImmediateResponse(status, NoBody))

methodNotAllowedResponse == httpStatusResponse(405)

forbiddenResponse == httpStatusResponse(403)

newImmediateBodyResponseWithStatus(body, status) ==
    immediateResponse(ImmediateResponse(status, body))

newImmediateBodyResponse(body) == newImmediateBodyResponseWithStatus(body, 200)

\* Faulty variant: the mcp-param-* headers are forwarded.
rerouteWithBodyMutation_NoStrip(body, stripHeaders) ==
    [headers |-> HeadersResponse("request",
                    Mutation({":method", ":path", ":authority", "accept"}, removeOnRoutingHeaders, NoLength),
                    NoBody),
     body |-> body]

\* The request headers of a rewritten tool call: routed to the endpoint, and
\* without the headers that concern MCP only.
rerouteWithBodyMutation(body, stripHeaders) ==
    [headers |-> HeadersResponse("request",
                    Mutation({":method", ":path", ":authority", "accept"},
                             removeOnRoutingHeaders \cup stripHeaders, NoLength),
                    NoBody),
     body |-> body]

\* The response headers that announce a translated body of the given length.
responseMutation(length) ==
    Mutation({"content-type", "content-length"}, contentHeaders, length)

newReplacedResponse(body, length) ==
    <<HeadersResponse("response",
        Mutation({"content-type", "content-length", ":status"}, contentHeaders, length),
        body)>>

(***************************************************************************)
(* frame: the header mutation, the body in chunks of at most                *)
(* streamChunkSize (at least one, possibly empty), and an empty trailers    *)
(* response when the source body ended in trailers.                         *)
(***************************************************************************)
\* Faulty variant: one chunk too many at a multiple of the chunk size.
chunkCount_Floor(length) == length \div streamChunkSize + 1

chunkCount(length) ==
    IF length = 0 THEN 1 ELSE (length + streamChunkSize - 1) \div streamChunkSize

\* Faulty variant: always a full chunk.
lesser_Second(a, b) == b

lesser(a, b) == IF a <= b THEN a ELSE b

\* Faulty variants: the last chunk ends the stream although trailers follow; and
\* what does not fill a chunk is lost.
chunk_EosAndTrailers(m, length, dir, hasTrailers, i) ==
    newStreamedBodyResponse(dir, m.body, length,
        (i - 1) * streamChunkSize, lesser(i * streamChunkSize, length), i = chunkCount(length))
chunk_FullOnly(m, length, dir, hasTrailers, i) ==
    newStreamedBodyResponse(dir, m.body, length, (i - 1) * streamChunkSize,
        lesser(i * streamChunkSize, length - (length % streamChunkSize)),
        i = chunkCount(length) /\ ~hasTrailers)

chunk(m, length, dir, hasTrailers, i) ==
    newStreamedBodyResponse(dir, m.body, length,
        (i - 1) * streamChunkSize, lesser(i * streamChunkSize, length),
        i = chunkCount(length) /\ ~hasTrailers)

frame(m, length, dir, hasTrailers) ==
    <<m.headers>>
      \o [i \in 1 .. chunkCount(length) |-> chunk(m, length, dir, hasTrailers, i)]
      \o (IF hasTrailers THEN <<TrailersResponse(dir)>> ELSE <<>>)
=============================================================================
