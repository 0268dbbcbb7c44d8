--------------------------- MODULE RequestHandling ---------------------------
(***************************************************************************)
(* mcpRequestHandler on its own: one call for every combination of a        *)
(* request body and captured headers, and what its result must satisfy.     *)
(***************************************************************************)
EXTENDS McpHandler

CONSTANT CapturedHeaders   \* what captureMCPRequestHeaders can return

VARIABLES body, hdrs, result

handlingVars == <<body, hdrs, result>>

NotCalled == Answer(NoId, <<>>)

HandlingInit ==
    /\ body \in RequestBodies
    /\ hdrs \in CapturedHeaders
    /\ result = NotCalled

Handle ==
    /\ result = NotCalled
    /\ result' = mcpRequestHandler(Whole(body), hdrs)
    /\ UNCHANGED <<body, hdrs>>

HandlingSpec == HandlingInit /\ [][Handle]_handlingVars

(***************************************************************************)
(* Properties.                                                              *)
(***************************************************************************)
Done == result # NotCalled

\* The era a client can tell from what it sent: modern when its body or its
\* header names a modern version, except in the handshake.
speaksModern ==
    /\ body.kind = "request"
    /\ body.method \notin {methodInitialize, methodNotificationsInitialized}
    /\ isModernVersion(metaProtocolVersion(body.params)) \/ isModernVersion(hdrs.protocolVersion)

\* The immediate response, if there is one and its body has the given form.
immediates(form) ==
    {r \in {result.Immediate[i] : i \in DOMAIN result.Immediate} :
        r.type = "immediate" /\ r.body.form = form}

\* No request a client can send is answered with an internal error: every
\* result a served method produces has an envelope in the era that serves it.
NeverInternalError == \A r \in immediates("error") : r.body.code # InternalError

\* Era confusion: a client that speaks modern anywhere is never served as a
\* legacy one (its results are stamped, its call is forwarded as modern), a
\* legacy one is never served as modern, and a modern client is only served
\* when header and body agree on the one modern version that is supported.
ErasNeverMix ==
    /\ result.Reroute # NoReroute => result.Era = (IF speaksModern THEN Modern ELSE Legacy)
    /\ \A r \in immediates("result") : r.body.envelope.stamped = speaksModern
    /\ Done /\ speaksModern =>
         \/ hdrs.protocolVersion = v20260728 /\ body.params.meta = v20260728
         \/ \E r \in immediates("error") : r.status \in {400, 404}

\* Legacy errors travel in a 200 body; a modern protocol error never does
\* (mcp.go:87-88 and 177-179).
ErrorStatusFollowsEra == \A r \in immediates("error") : (r.status = 200) = ~speaksModern
=============================================================================
