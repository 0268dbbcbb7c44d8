---------------------------- MODULE MCStreamState ----------------------------
(***************************************************************************)
(* Small instances of StreamState: one registered tool with an output       *)
(* schema, one without, and request bodies that take every path of the      *)
(* request handler that leads to a different kind of reply.                 *)
(***************************************************************************)
EXTENDS StreamState

Call(id, meta, name, args) ==
    [kind |-> "request", id |-> id, method |-> methodToolsCall,
     params |-> [shape |-> "object", meta |-> meta, name |-> name,
                 version |-> EmptyVersion, args |-> args]]

MCRequestBodies ==
    {Call("1", EmptyVersion, "plain", "valid"),
     Call("2", v20260728, "schema", "valid"),
     Call("none", EmptyVersion, "plain", "valid"),
     [Call("1", EmptyVersion, "", "valid") EXCEPT !.method = methodToolsList]}

MCUpstreamBodies == {[json |-> TRUE, name |-> "json"]}

Header(key, value) == [key |-> key, value |-> value, enc |-> "plain"]

\* No MCP headers; a modern tool call's; one that contradicts the body; and a
\* repeated header whose first value does.
MirrorOf(name) ==
    <<Header(headerMCPProtocolVersion, v20260728), Header(headerMCPMethod, methodToolsCall),
      Header(headerMCPName, name), Header("mcp-param-x", "")>>

MCHeaderLists == {<<>>, MirrorOf("schema"), <<Header(headerMCPName, "plain")>> \o MirrorOf("schema")}

\* Whole bodies, and for one body of each direction its parts, which arrive in
\* any number and order.
Split == (RequestBodies \cup UpstreamBodies)
           \cap {Call("2", v20260728, "schema", "valid"), [json |-> TRUE, name |-> "json"]}

MCPayloads ==
    {<<>>} \cup {<<p>> : p \in [of : Split, part : 1 .. BodyParts]}
           \cup {Whole(b) : b \in RequestBodies \cup UpstreamBodies}

NotificationOnly == {Call("none", EmptyVersion, "plain", "valid")}
NoHeaderLists == {<<>>}

MCStatuses == {AbsentStatus, 200, 404}
WithRedirect == {200, 302}
=============================================================================
