-------------------------- MODULE HeaderValidation --------------------------
(***************************************************************************)
(* The mirrored MCP request headers (header_validation.go): captured when   *)
(* the request headers arrive, validated against the body once it is        *)
(* complete.                                                                *)
(*                                                                         *)
(* A header list is a sequence of [key, value, enc] records, keys           *)
(* lower-cased and values trimmed.  enc says how the value is written:      *)
(* plain, wrapped in the =?base64?...?= sentinel, or wrapped around         *)
(* something that is not Base64.  Only mcp-name is ever unwrapped: the      *)
(* others are compared as they were sent and are plain here.  The value of  *)
(* mcp-protocol-version is a version number, that of the others a string.   *)
(***************************************************************************)
EXTENDS ProtocolEra

headerMCPProtocolVersion == "mcp-protocol-version"
headerMCPMethod          == "mcp-method"
headerMCPName            == "mcp-name"

\* The header keys that begin with mcp-param-; one stands for all of them.
ParamKeys == {"mcp-param-x"}
MCPKeys   == {headerMCPProtocolVersion, headerMCPMethod, headerMCPName} \cup ParamKeys

Encodings == {"plain", "base64", "badBase64"}

\* Faulty variant: the last value of a repeated header wins.
firstHeaderValue_LastWins(headers, key, default) ==
    LET at == {i \in DOMAIN headers : headers[i].key = key}
    IN  IF at = {} THEN default
        ELSE headers[CHOOSE i \in at : \A j \in at : i >= j].value

\* The value of the first header with this key, or the given default.
firstHeaderValue(headers, key, default) ==
    LET at == {i \in DOMAIN headers : headers[i].key = key}
    IN  IF at = {} THEN default
        ELSE headers[CHOOSE i \in at : \A j \in at : i <= j].value

nameEncoding(headers) ==
    LET at == {i \in DOMAIN headers : headers[i].key = headerMCPName}
    IN  IF at = {} THEN "plain"
        ELSE headers[CHOOSE i \in at : \A j \in at : i <= j].enc

captureMCPRequestHeaders(headers) ==
    [protocolVersion  |-> firstHeaderValue(headers, headerMCPProtocolVersion, EmptyVersion),
     method           |-> firstHeaderValue(headers, headerMCPMethod, ""),
     name             |-> firstHeaderValue(headers, headerMCPName, ""),
     enc              |-> nameEncoding(headers),
     paramHeaderNames |-> {headers[i].key : i \in DOMAIN headers} \cap ParamKeys]

(***************************************************************************)
(* Request parameters, by what each of the program's decoders makes of      *)
(* them.  shape:                                                            *)
(*   absent         no params member                                        *)
(*   malformed      not a JSON object                                       *)
(*   mistypedName   an object whose name is not a string                    *)
(*   mistypedField  an object with another field of the wrong type          *)
(*   object         everything decodes                                      *)
(* name "" is an absent or empty name, meta 0 an absent or malformed        *)
(* protocolVersion entry in _meta.                                          *)
(***************************************************************************)
Shapes == {"absent", "malformed", "mistypedName", "mistypedField", "object"}

metaProtocolVersion(params) ==
    IF params.shape \in {"absent", "malformed"} THEN EmptyVersion ELSE params.meta

decodesName(params) == params.shape \in {"mistypedField", "object"}
decodesCall(params) == params.shape = "object"
decodesInitialize(params) == params.shape \in {"mistypedName", "object"}

\* A wrapped name is decoded; FALSE when what is wrapped is not Base64.
decodeHeaderValue(hdrs) == [value |-> hdrs.name, ok |-> hdrs.enc # "badBase64"]

\* The header is absent or empty as it was sent: a wrapped empty name is not.
nameMissing(hdrs) == hdrs.enc = "plain" /\ hdrs.name = ""

\* TRUE when the mirrored headers are present and match the body.
validateModernHeaders(req, metaVersion, hdrs) ==
    /\ hdrs.protocolVersion # EmptyVersion
    /\ metaVersion # EmptyVersion
    /\ hdrs.protocolVersion = metaVersion
    /\ hdrs.method # ""
    /\ hdrs.method = req.method
    /\ req.method = methodToolsCall =>
          /\ ~nameMissing(hdrs)
          /\ decodeHeaderValue(hdrs).ok
          /\ decodesName(req.params)
          /\ req.params.name # ""
          /\ decodeHeaderValue(hdrs).value = req.params.name

\* Faulty variant: no era validates the headers.
validateHeaders_Never(era, req, metaVersion, hdrs) == TRUE

validateHeaders(era, req, metaVersion, hdrs) ==
    era = Modern => validateModernHeaders(req, metaVersion, hdrs)
=============================================================================
