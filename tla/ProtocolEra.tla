---------------------------- MODULE ProtocolEra ----------------------------
(***************************************************************************)
(* The two generations of the MCP specification (mcp.go).                   *)
(*                                                                         *)
(* A protocol version is an ISO date compared as a string; the model keeps  *)
(* the order and writes 2026-07-28 as 20260728.  0 is the empty string,     *)
(* which sorts below every date, and any other string is a number with the  *)
(* same place in the order.                                                *)
(***************************************************************************)
EXTENDS Integers, Sequences

EmptyVersion == 0
v20250618 == 20250618
v20251125 == 20251125
v20260728 == 20260728
firstModernVersion == v20260728
latestLegacyVersion == v20251125
supportedProtocolVersions == <<v20260728, v20251125, v20250618>>

isModernVersion(v) == v >= firstModernVersion

isSupportedVersion(v) ==
    \E i \in DOMAIN supportedProtocolVersions : supportedProtocolVersions[i] = v

\* Faulty variant: not capped at the legacy era.
negotiateLegacyVersion_Uncapped(clientVersion) ==
    IF isSupportedVersion(clientVersion) THEN clientVersion ELSE latestLegacyVersion

\* Faulty variant: the client's version is not looked at.
negotiateLegacyVersion_Newest(clientVersion) == latestLegacyVersion

\* The version the initialize handshake settles on: the client's if it is a
\* supported legacy one, otherwise the newest legacy one.
negotiateLegacyVersion(clientVersion) ==
    IF isSupportedVersion(clientVersion) /\ ~isModernVersion(clientVersion)
    THEN clientVersion
    ELSE latestLegacyVersion

Legacy == "legacy"
Modern == "modern"
NoEra  == "nil"
Eras   == {Legacy, Modern}

methodInitialize               == "initialize"
methodNotificationsInitialized == "notifications/initialized"
methodDiscover                 == "server/discover"
methodToolsList                == "tools/list"
methodToolsCall                == "tools/call"

legacyMethods ==
    {methodInitialize, methodNotificationsInitialized, methodToolsList, methodToolsCall}
modernMethods == {methodDiscover, methodToolsList, methodToolsCall}

serves(era, method) ==
    method \in (IF era = Modern THEN modernMethods ELSE legacyMethods)

\* JSON-RPC error codes, by name.
ParseError     == "ParseError"
InvalidRequest == "InvalidRequest"
MethodNotFound == "MethodNotFound"
InvalidParams  == "InvalidParams"
InternalError  == "InternalError"
HeaderMismatch == "HeaderMismatch"
UnsupportedProtocolVersion == "UnsupportedProtocolVersion"
ErrorCodes == {ParseError, InvalidRequest, MethodNotFound, InvalidParams,
               InternalError, HeaderMismatch, UnsupportedProtocolVersion}

\* Faulty variant: invalid parameters taken for an application error.
errorStatus_ParamsOK(era, code) ==
    CASE era = Modern /\ code \in {UnsupportedProtocolVersion, HeaderMismatch} -> 400
      [] era = Modern /\ code = MethodNotFound -> 404
      [] OTHER -> 200

\* HTTP status of an immediate JSON-RPC error.
errorStatus(era, code) ==
    CASE era = Modern /\ code \in {UnsupportedProtocolVersion, HeaderMismatch, InvalidParams} -> 400
      [] era = Modern /\ code = MethodNotFound -> 404
      [] OTHER -> 200

\* Faulty variant: the header is not consulted.
resolveEra_BodyOnly(method, declared, mirrored) ==
    IF \/ method \in {methodInitialize, methodNotificationsInitialized}
       \/ ~isModernVersion(declared)
    THEN [era |-> Legacy, requested |-> EmptyVersion, ok |-> TRUE]
    ELSE [era |-> Modern, requested |-> declared, ok |-> isSupportedVersion(declared)]

\* The era of a request, the version that selected it, and whether that version
\* may be served.
resolveEra(method, declared, mirrored) ==
    LET requested == IF isModernVersion(declared) THEN declared ELSE mirrored
    IN  IF \/ method \in {methodInitialize, methodNotificationsInitialized}
           \/ ~isModernVersion(requested)
        THEN [era |-> Legacy, requested |-> EmptyVersion, ok |-> TRUE]
        ELSE [era |-> Modern, requested |-> requested, ok |-> isSupportedVersion(requested)]

\* Faulty variant: the modern era does not know the discover result.
Cacheables_NoDiscover == {"tools"}

\* The result kinds a method can produce.  Only the three that modern methods
\* produce have a modern envelope.
Cacheables == {"tools", "discover"}

\* A JSON-RPC result envelope.  The modern era stamps resultType and the
\* serverInfo entry on every result, and cache hints on the cacheable ones; it
\* refuses a result it has no envelope for.
encodeResult(era, result) ==
    IF era = Modern
    THEN [ok |-> result.of \in Cacheables \cup {"toolCall"}, result |-> result,
          stamped |-> TRUE, cacheable |-> result.of \in Cacheables]
    ELSE [ok |-> TRUE, result |-> result, stamped |-> FALSE, cacheable |-> FALSE]
=============================================================================
