------------------------------ MODULE Exchange ------------------------------
(***************************************************************************)
(* One HTTP request through Envoy, the processor and the API.               *)
(*                                                                         *)
(* The processor is the stream of StreamState, run on the messages Envoy    *)
(* sends.  Envoy, the client and the API are external: they are modelled    *)
(* from what src/ relies on (examples/mcp-server/envoy-mcp.yaml and the     *)
(* comments of stream_state.go): one ext_proc stream per HTTP request, both *)
(* bodies FULL_DUPLEX_STREAMED with trailers sent, so body messages do not  *)
(* wait for replies; failure_mode_allow off, so a stream that fails fails   *)
(* the request.  Messages in flight are FIFO queues.                        *)
(***************************************************************************)
EXTENDS StreamState

CONSTANTS
    ClientRequests,   \* HTTP requests: [method, allowed, headers, hasBody, body, trailers]
    ApiReplies        \* HTTP responses: [status, hasBody, body, trailers]

\* What Envoy sends is among what any peer may send to a stream.
ASSUME ExchangeAssumption ==
    /\ ClientRequests \subseteq
          [method : {"POST", "GET", NoMethod}, allowed : BOOLEAN, headers : HeaderLists,
           hasBody : BOOLEAN, body : RequestBodies, trailers : BOOLEAN]
    /\ ApiReplies \subseteq
          [status : Statuses, hasBody : BOOLEAN, body : UpstreamBodies, trailers : BOOLEAN]
    /\ \A b \in RequestBodies \cup UpstreamBodies : \A lo, hi \in 0 .. BodyParts :
          SubSeq(Whole(b), lo + 1, hi) \in Payloads

VARIABLES
    client,           \* the HTTP request
    fed,              \* how much of it Envoy has sent to the processor
    toProc,           \* messages in flight to the processor
    toEnvoy,          \* replies in flight to Envoy
    link,             \* the stream as Envoy sees it
    apiGot,           \* replies Envoy turned into the API's request
    apiReply,         \* the API's response
    relayed,          \* how much of it Envoy has sent to the processor
    clientGot,        \* replies Envoy turned into the client's response
    outcome

envoy    == <<client, fed, toProc, toEnvoy, link, apiGot, apiReply, relayed, clientGot, outcome>>
exchange == <<vars, envoy>>

NoReply   == [status |-> AbsentStatus, hasBody |-> FALSE, body |-> NoBody, trailers |-> FALSE]
EndOfFile == [type |-> "EOF"]
StreamEnd == [type |-> "status"]

\* Positions in a body: before the headers, then the pieces sent, then the end.
Unsent == -1
Ended  == BodyParts + 1

ExchangeInit ==
    /\ Init
    /\ client \in ClientRequests
    /\ fed = Unsent
    /\ toProc = <<>>
    /\ toEnvoy = <<>>
    /\ link = "open"
    /\ apiGot = <<>>
    /\ apiReply = NoReply
    /\ relayed = Unsent
    /\ clientGot = <<>>
    /\ outcome = "pending"

(***************************************************************************)
(* Envoy sends the client's request and the API's response.                 *)
(***************************************************************************)
SendsToProcessor(m) == link = "open" /\ toProc' = Append(toProc, m)

FeedHeaders ==
    /\ fed = Unsent
    /\ SendsToProcessor(RequestHeaders(client.method, client.allowed, client.headers, ~client.hasBody))
    /\ fed' = IF client.hasBody THEN 0 ELSE Ended
    /\ UNCHANGED <<vars, client, toEnvoy, link, apiGot, apiReply, relayed, clientGot, outcome>>

\* The next chunk of a body, of any size; the last one says so, unless an empty
\* one or trailers will.
FeedBody ==
    /\ fed \in 0 .. BodyParts
    /\ \E to \in fed .. BodyParts, eos \in BOOLEAN :
          /\ to > fed \/ eos
          /\ eos => to = BodyParts /\ ~client.trailers
          /\ SendsToProcessor(RequestBody(SubSeq(Whole(client.body), fed + 1, to), eos))
          /\ fed' = IF eos THEN Ended ELSE to
    /\ UNCHANGED <<vars, client, toEnvoy, link, apiGot, apiReply, relayed, clientGot, outcome>>

FeedTrailers ==
    /\ fed = BodyParts /\ client.trailers
    /\ SendsToProcessor(RequestTrailers)
    /\ fed' = Ended
    /\ UNCHANGED <<vars, client, toEnvoy, link, apiGot, apiReply, relayed, clientGot, outcome>>

RelayHeaders ==
    /\ apiReply # NoReply /\ relayed = Unsent
    /\ SendsToProcessor(ResponseHeaders(apiReply.status, ~apiReply.hasBody))
    /\ relayed' = IF apiReply.hasBody THEN 0 ELSE Ended
    /\ UNCHANGED <<vars, client, fed, toEnvoy, link, apiGot, apiReply, clientGot, outcome>>

RelayBody ==
    /\ relayed \in 0 .. BodyParts
    /\ \E to \in relayed .. BodyParts, eos \in BOOLEAN :
          /\ to > relayed \/ eos
          /\ eos => to = BodyParts /\ ~apiReply.trailers
          /\ SendsToProcessor(ResponseBody(SubSeq(Whole(apiReply.body), relayed + 1, to), eos))
          /\ relayed' = IF eos THEN Ended ELSE to
    /\ UNCHANGED <<vars, client, fed, toEnvoy, link, apiGot, apiReply, clientGot, outcome>>

RelayTrailers ==
    /\ relayed = BodyParts /\ apiReply.trailers
    /\ SendsToProcessor(ResponseTrailers)
    /\ relayed' = Ended
    /\ UNCHANGED <<vars, client, fed, toEnvoy, link, apiGot, apiReply, clientGot, outcome>>

(***************************************************************************)
(* The processor.                                                           *)
(***************************************************************************)
\* When Process returns, its status follows the replies already sent.
StatusFollows ==
    toEnvoy' = IF rc' = "running" THEN toEnvoy ELSE Append(toEnvoy, StreamEnd)

ProcessMessage ==
    /\ toProc # <<>>
    /\ toProc' = Tail(toProc)
    /\ IF Head(toProc) = EndOfFile THEN RecvEnds ELSE Handle(Head(toProc))
    /\ StatusFollows
    /\ UNCHANGED <<client, fed, link, apiGot, apiReply, relayed, clientGot, outcome>>

ProcessSend ==
    /\ Send
    /\ toEnvoy' = Append(toEnvoy, Head(reps))
    /\ UNCHANGED <<client, fed, toProc, link, apiGot, apiReply, relayed, clientGot, outcome>>

\* A reset or lost stream overtakes the messages in flight: Recv and Send may
\* report it before they are all delivered.
ProcessSeesReset ==
    /\ \/ link = "reset" /\ (RecvEnds \/ SendFails)
       \/ link = "lost" /\ (RecvFails \/ SendFails)
    /\ StatusFollows
    /\ UNCHANGED <<client, fed, toProc, link, apiGot, apiReply, relayed, clientGot, outcome>>

(***************************************************************************)
(* Envoy applies the replies, in order.                                     *)
(***************************************************************************)
TakesReply ==
    /\ link = "open"
    /\ toEnvoy' = Tail(toEnvoy)
    /\ UNCHANGED <<vars, client, fed, apiReply, relayed>>

ApplyRequestReply(r) ==
    /\ TakesReply
    /\ r.type \in {"headers", "body", "trailers"} /\ r.dir = "request"
    /\ apiGot' = Append(apiGot, r)
    /\ UNCHANGED <<toProc, link, clientGot, outcome>>

\* A response that has ended, or an immediate one, ends Envoy's part: it closes
\* its side of the stream.
ApplyResponseReply(r) ==
    /\ TakesReply
    /\ r.type \in {"headers", "body", "trailers", "immediate"}
    /\ r.type # "immediate" => r.dir = "response"
    /\ clientGot' = Append(clientGot, r)
    /\ IF r.type = "immediate" \/ isTerminator(r)
       THEN /\ outcome' = IF r.type = "immediate" THEN "refused" ELSE "answered"
            /\ link' = "closed"
            /\ toProc' = Append(toProc, EndOfFile)
       ELSE UNCHANGED <<outcome, link, toProc>>
    /\ UNCHANGED apiGot

\* The processor ended the stream before the exchange was over.
ApplyStreamEnd(r) ==
    /\ TakesReply
    /\ r = StreamEnd
    /\ outcome' = "failed"
    /\ link' = "closed"
    /\ UNCHANGED <<toProc, apiGot, clientGot>>

EnvoyReceives ==
    /\ toEnvoy # <<>>
    /\ \/ ApplyRequestReply(Head(toEnvoy))
       \/ ApplyResponseReply(Head(toEnvoy))
       \/ ApplyStreamEnd(Head(toEnvoy))

(***************************************************************************)
(* The API, the client and the connection.                                  *)
(***************************************************************************)
apiCalled == apiGot # <<>> /\ apiGot[1].mutation # EmptyMutation
apiRequestEnded == apiGot # <<>> /\ isTerminator(apiGot[Len(apiGot)])

\* The API answers a request that was routed to it, possibly before it has all
\* of its body.
ApiResponds ==
    /\ apiCalled /\ apiReply = NoReply /\ link = "open"
    /\ apiReply' \in ApiReplies
    /\ UNCHANGED <<vars, client, fed, toProc, toEnvoy, link, apiGot, relayed, clientGot, outcome>>

ClientLeaves ==
    /\ outcome = "pending" /\ link = "open"
    /\ outcome' = "gone"
    /\ link' = "reset"
    /\ UNCHANGED <<vars, client, fed, toProc, toEnvoy, apiGot, apiReply, relayed, clientGot>>

ConnectionLost ==
    /\ link = "open"
    /\ link' = "lost"
    /\ UNCHANGED <<vars, client, fed, toProc, toEnvoy, apiGot, apiReply, relayed, clientGot, outcome>>

\* Envoy notices the loss and fails the request.
EnvoySeesLoss ==
    /\ link = "lost" /\ outcome = "pending"
    /\ outcome' = "failed"
    /\ UNCHANGED <<vars, client, fed, toProc, toEnvoy, link, apiGot, apiReply, relayed, clientGot>>

EnvoySends == FeedHeaders \/ FeedBody \/ FeedTrailers \/ RelayHeaders \/ RelayBody \/ RelayTrailers

Processor == ProcessMessage \/ ProcessSend \/ ProcessSeesReset

ExchangeNext ==
    \/ EnvoySends \/ Processor \/ EnvoyReceives
    \/ ApiResponds \/ ClientLeaves \/ ConnectionLost \/ EnvoySeesLoss

\* The goroutine that runs Process is scheduled, Envoy forwards and applies what
\* it holds, the client finishes its body and the API answers.
Fairness ==
    /\ WF_exchange(Processor)
    /\ WF_exchange(EnvoySends)
    /\ WF_exchange(EnvoyReceives)
    /\ WF_exchange(ApiResponds)
    /\ WF_exchange(EnvoySeesLoss)

ExchangeSpec == ExchangeInit /\ [][ExchangeNext]_exchange /\ Fairness

(***************************************************************************)
(* Properties.                                                              *)
(***************************************************************************)
\* The client asked for something that is to be forwarded.
isCall ==
    /\ client.method \in {"POST", NoMethod} /\ client.allowed /\ client.hasBody
    /\ isAdmissible(client.body, client.headers)

requestKind ==
    CASE isCall /\ client.body.id # NoId -> "call"
      [] isCall /\ client.body.id = NoId -> "notification"
      [] OTHER -> "other"

\* The exchange implements the gateway's promise to the client.
Promise == INSTANCE Gateway WITH
    kind  <- requestKind,
    api   <- IF apiCalled THEN "called" ELSE "idle",
    fault <- link = "lost"

KeepsPromise == Promise!Spec

\* Under a peer that follows the ext_proc protocol the processor reports a
\* protocol violation in two cases only: a refused method whose request has a
\* body, and the response to a tool call that was a notification.
ViolationsAreKnown ==
    rc = "FailedPrecondition" =>
      \/ badMethod(client) /\ client.hasBody
      \/ requestKind = "notification" /\ apiReply # NoReply

\* stream_state.go:124-129: the chunks of a refused request "must be consumed to
\* end_of_stream [...] otherwise the in-flight chunks would be treated as an
\* out-of-sequence message and fail the stream".  No refused request fails the
\* stream.
RefusalNeverFailsStream == outcome = "refused" => rc # "FailedPrecondition"

\* The chunks of w are slices of one body that follow one another from its first
\* byte.
inSlices(w) ==
    \A i \in 2 .. Len(w) : w[i].type = "body" =>
       /\ w[i].lo = (IF i = 2 THEN 0 ELSE w[i - 1].hi)
       /\ w[i].body = w[2].body /\ w[i].length = w[2].length

\* The last of them reaches the end of that body.
reachesEnd(w) ==
    \E i \in 2 .. Len(w) :
       /\ w[i].type = "body" /\ w[i].hi = w[i].length
       /\ \A j \in i + 1 .. Len(w) : w[j].type # "body"

\* The API sees the rewritten call of this client and nothing else: slices that
\* follow one another from the first byte, the end of the request only as the last
\* thing, and by then all that frame was given.
ApiGetsWholeCall ==
    apiCalled =>
      /\ isCall
      /\ inSlices(apiGot)
      /\ \A i \in 2 .. Len(apiGot) : apiGot[i].type = "body" =>
            apiGot[i].body = Endpoint(client.body.params.name, client.body.params)
      /\ \A i \in DOMAIN apiGot : isTerminator(apiGot[i]) => i = Len(apiGot)
      /\ apiRequestEnded => reachesEnd(apiGot)

\* The client's answer is the translation of the API's response to its own
\* request, to its last byte, and it is the only answer.
ClientGetsItsAnswer ==
    outcome = "answered" =>
      /\ \A i \in DOMAIN clientGot : isTerminator(clientGot[i]) <=> i = Len(clientGot)
      /\ clientGot[1].type = "headers"
      /\ inSlices(clientGot)
      /\ clientGot[1].replace = NoBody => reachesEnd(clientGot)
      /\ \A b \in {clientGot[i].body : i \in {j \in DOMAIN clientGot : clientGot[j].type = "body"}}
                   \cup ({clientGot[1].replace} \ {NoBody}) :
            /\ b.id = client.body.id
            /\ b.envelope.result.content =
                  IF apiReply.hasBody THEN BodyText(Whole(apiReply.body))
                  ELSE EmptyText(IF apiReply.status < 0 THEN 0 ELSE apiReply.status)
            /\ b.envelope.result.isError = (apiReply.status \notin 1 .. 399)

\* Process returns: no stream outlives its HTTP request.
ProcessReturns == <>(rc # "running")
=============================================================================
