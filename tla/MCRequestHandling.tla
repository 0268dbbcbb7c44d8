-------------------------- MODULE MCRequestHandling --------------------------
(***************************************************************************)
(* Every method with every version in header and body, and for tool calls   *)
(* every shape of parameters against every Mcp-Name header.                 *)
(***************************************************************************)
EXTENDS RequestHandling

Future == 99999999
Versions == {EmptyVersion, v20251125, v20260728, Future}

Params(shapes, metas, names, versions, args) ==
    [shape : shapes, meta : metas, name : names, version : versions, args : args]

Requests(kinds, methods, params) ==
    [kind : kinds, id : {"1", "none"}, method : methods, params : params]

MCRequestBodies ==
    Requests({"request"}, {methodToolsCall},
             Params(Shapes, Versions, {"", "tool", "other"}, {EmptyVersion}, {"valid"}))
    \cup
    Requests({"request"}, {methodToolsCall},
             Params({"object"}, Versions, {"tool"}, {EmptyVersion}, {"rejected"}))
    \cup
    Requests({"request"}, {methodInitialize},
             Params(Shapes, {EmptyVersion, v20260728}, {""},
                    {EmptyVersion, v20250618, v20260728}, {"valid"}))
    \cup
    Requests({"request"}, {methodNotificationsInitialized, methodDiscover, methodToolsList, "ping"},
             Params({"absent", "object"}, Versions, {""}, {EmptyVersion}, {"valid"}))
    \cup
    Requests({"response", "garbage"}, {methodToolsCall},
             Params({"object"}, {v20260728}, {"tool"}, {EmptyVersion}, {"valid"}))

MCCapturedHeaders ==
    [protocolVersion : Versions, method : {"", methodToolsCall, methodToolsList, methodDiscover},
     name : {""}, enc : {"plain"}, paramHeaderNames : {{}}]
    \cup
    [protocolVersion : {EmptyVersion, v20260728}, method : {methodToolsCall},
     name : {"", "tool", "other"}, enc : Encodings, paramHeaderNames : {{}, ParamKeys}]
=============================================================================
