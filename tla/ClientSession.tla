---------------------------- MODULE ClientSession ----------------------------
(***************************************************************************)
(* A client that works its way from not knowing the server to calling a     *)
(* tool, request by request, against mcpRequestHandler.                     *)
(*                                                                         *)
(* The processor keeps nothing between two requests, so what a client was   *)
(* told in one answer must hold for its next request.  The client is        *)
(* external and follows the two entry points README.md describes: with      *)
(* server/discover it declares its newest modern version in every request   *)
(* and, when that is refused, goes on with the newest one it shares with    *)
(* the list it was given; otherwise, or from the start, it asks for its     *)
(* newest version in the initialize handshake and from then on declares the *)
(* one it got in the header only.  Answers may be lost, and the client then *)
(* repeats its request.                                                     *)
(***************************************************************************)
EXTENDS McpHandler, FiniteSetsExt

CONSTANTS
    Clients,        \* [modern, legacy, discovers]: the versions a client knows in
                    \* each era, and whether it begins with discover
    MaxLosses       \* bound: lost answers

VARIABLES
    client,
    phase,          \* the next request to make, or how the session ended
    version,        \* the version agreed on, or about to be tried
    era,            \* the era whose entry point the client used
    answer,         \* the answer under way
    losses

sessionVars == <<client, phase, version, era, answer, losses>>

NoAnswer == Answer(NoId, <<>>)
Ends     == {"ready", "incompatible", "refused"}

(***************************************************************************)
(* The client's requests.                                                   *)
(***************************************************************************)
methodOf(p) ==
    CASE p = "discover"    -> methodDiscover
      [] p = "initialize"  -> methodInitialize
      [] p = "initialized" -> methodNotificationsInitialized
      [] p = "list"        -> methodToolsList
      [] OTHER             -> methodToolsCall

SessionRequest(p, v, e) ==
    [kind |-> "request", id |-> IF p = "initialized" THEN NoId ELSE "1", method |-> methodOf(p),
     params |-> [shape |-> "object", meta |-> IF e = Modern THEN v ELSE EmptyVersion,
                 name |-> IF p = "call" THEN "tool" ELSE "", version |-> v, args |-> "valid"]]

\* Modern requests mirror version, method and name; legacy ones the version that
\* was negotiated, once it is.
SessionHeaders(p, v, e) ==
    [protocolVersion  |-> IF p = "initialize" THEN EmptyVersion ELSE v,
     method           |-> IF e = Modern THEN methodOf(p) ELSE "",
     name             |-> IF e = Modern /\ p = "call" THEN "tool" ELSE "",
     enc              |-> "plain",
     paramHeaderNames |-> {}]

newest(versions) == Max(versions)

\* The versions a session can agree on: the supported ones of its era.
agreeable(e) == {v \in Range(supportedProtocolVersions) : isModernVersion(v) <=> e = Modern}

\* There is a tool to call, the modern versions of a client are modern ones, and what
\* clients send is among the request bodies.
ASSUME SessionAssumption ==
    /\ "tool" \in Tools
    /\ \A c \in Clients :
          /\ \A v \in c.modern : isModernVersion(v)
          /\ c.discovers => SessionRequest("discover", newest(c.modern), Modern) \in RequestBodies
          /\ SessionRequest("initialize", newest(c.legacy \cup c.modern), Legacy) \in RequestBodies
    /\ \A v \in agreeable(Legacy) : SessionRequest("initialized", v, Legacy) \in RequestBodies
    /\ \A p \in {"list", "call"}, e \in Eras : \A v \in agreeable(e) :
          SessionRequest(p, v, e) \in RequestBodies

\* Falling back to the handshake.
Handshake ==
    IF client.legacy = {} THEN phase' = "incompatible" /\ UNCHANGED <<version, era>>
    ELSE phase' = "initialize" /\ version' = newest(client.legacy \cup client.modern) /\ era' = Legacy

SessionInit ==
    /\ client \in Clients
    /\ phase = IF client.discovers THEN "discover" ELSE "initialize"
    /\ version = newest(IF client.discovers THEN client.modern ELSE client.legacy \cup client.modern)
    /\ era = IF client.discovers THEN Modern ELSE Legacy
    /\ answer = NoAnswer
    /\ losses = 0

(***************************************************************************)
(* The server answers; the answer arrives or is lost.                       *)
(***************************************************************************)
Request ==
    /\ phase \notin Ends /\ answer = NoAnswer
    /\ answer' = mcpRequestHandler(Whole(SessionRequest(phase, version, era)), SessionHeaders(phase, version, era))
    /\ UNCHANGED <<client, phase, version, era, losses>>

AnswerLost ==
    /\ answer # NoAnswer /\ losses < MaxLosses
    /\ answer' = NoAnswer
    /\ losses' = losses + 1
    /\ UNCHANGED <<client, phase, version, era>>

forwarded == answer.Reroute # NoReroute
reply     == answer.Immediate[Len(answer.Immediate)]
isResult  == ~forwarded /\ reply.body.form = "result"
isCode(c) == ~forwarded /\ reply.body.form = "error" /\ reply.body.code = c

Receives(p) ==
    /\ answer # NoAnswer /\ phase = p
    /\ answer' = NoAnswer
    /\ UNCHANGED <<client, losses>>

\* Both the discover result and the refusal of a version list the versions that
\* are supported.
Discovered ==
    /\ Receives("discover")
    /\ IF isResult \/ isCode(UnsupportedProtocolVersion)
       THEN LET shared == client.modern \cap {supportedProtocolVersions[i] : i \in DOMAIN supportedProtocolVersions}
            IN  IF shared # {} THEN phase' = "list" /\ version' = newest(shared) /\ UNCHANGED era ELSE Handshake
       ELSE Handshake

Initialized ==
    /\ Receives("initialize")
    /\ IF isResult /\ reply.body.envelope.result.version \in client.legacy \cup client.modern
       THEN phase' = "initialized" /\ version' = reply.body.envelope.result.version
       ELSE phase' = "incompatible" /\ UNCHANGED version
    /\ UNCHANGED era

Acknowledged ==
    /\ Receives("initialized")
    /\ phase' = IF ~forwarded /\ reply.status = 202 THEN "list" ELSE "refused"
    /\ UNCHANGED <<version, era>>

\* The list must come in the client's era.
Listed ==
    /\ Receives("list")
    /\ phase' = IF isResult /\ reply.body.envelope.stamped = (era = Modern)
                THEN "call" ELSE "refused"
    /\ UNCHANGED <<version, era>>

Called ==
    /\ Receives("call")
    /\ phase' = IF forwarded /\ answer.Era = era THEN "ready" ELSE "refused"
    /\ UNCHANGED <<version, era>>

Receive == Discovered \/ Initialized \/ Acknowledged \/ Listed \/ Called

SessionNext == Request \/ AnswerLost \/ Receive

\* The client goes on, and an answer that is not lost arrives.
SessionSpec ==
    SessionInit /\ [][SessionNext]_sessionVars /\ WF_sessionVars(Request) /\ WF_sessionVars(Receive)

(***************************************************************************)
(* Properties.                                                              *)
(***************************************************************************)
\* The two can work together: the client discovers and they share a modern
\* version, or the handshake ends in a version the client can use: the one it
\* asked for, or the server's newest legacy one.
compatible ==
    \/ client.discovers /\ v20260728 \in client.modern
    \/ /\ client.legacy # {}
       /\ \/ newest(client.legacy \cup client.modern) \in {v20250618, v20251125}
          \/ latestLegacyVersion \in client.legacy

\* Once a version is agreed on no later request is refused or served in the other
\* era: what discover, a refusal or the handshake told the client stays true, and
\* the version the handshake gave is one the client "can actually use statefully"
\* (mcp.go:42-45).
AgreementHolds == phase # "refused"

\* Every client gets to call a tool if there is a version for it to do so, and
\* learns that there is none otherwise.
SessionSettles == <>(phase = IF compatible THEN "ready" ELSE "incompatible")
=============================================================================
