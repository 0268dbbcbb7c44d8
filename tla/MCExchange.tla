----------------------------- MODULE MCExchange -----------------------------
(***************************************************************************)
(* Instances of Exchange: clients of every kind, and an API that answers    *)
(* with a body, without one, with an error and with trailers.               *)
(***************************************************************************)
EXTENDS Exchange

Call(id, meta, name) ==
    [kind |-> "request", id |-> id, method |-> methodToolsCall,
     params |-> [shape |-> "object", meta |-> meta, name |-> name,
                 version |-> EmptyVersion, args |-> "valid"]]

Legacy1 == Call("1", EmptyVersion, "tool")
Modern2 == Call("2", v20260728, "tool")
Notify  == Call("none", EmptyVersion, "tool")
Listing == [Legacy1 EXCEPT !.method = methodToolsList]

MCRequestBodies  == {Legacy1, Modern2, Notify, Listing}
Reading          == [json |-> TRUE, name |-> "reading"]
MCUpstreamBodies == {Reading}

Header(key, value) == [key |-> key, value |-> value, enc |-> "plain"]
Mirror == <<Header(headerMCPProtocolVersion, v20260728), Header(headerMCPMethod, methodToolsCall),
            Header(headerMCPName, "tool")>>

\* The verdict on the host is that of the default allowlist.
Hosts == INSTANCE HostValidation
Local   == "localhost"
Foreign == "evil"
checked(host) ==
    Hosts!checkHeaders(Hosts!newHostAllowlist({}),
        [authority |-> Hosts!Text(<<host>>), host |-> Hosts!Absent, origin |-> Hosts!Absent])

Http(method, host, headers, hasBody, body, trailers) ==
    [method |-> method, allowed |-> checked(host), headers |-> headers, hasBody |-> hasBody,
     body |-> body, trailers |-> trailers]

Posts == {Http("POST", Local, <<>>, TRUE, Legacy1, FALSE),
          Http("POST", Local, Mirror, TRUE, Modern2, TRUE),
          Http("POST", Local, Mirror, TRUE, Legacy1, FALSE),
          Http("POST", Local, <<>>, FALSE, Legacy1, FALSE),
          Http("POST", Local, <<>>, TRUE, Listing, TRUE),
          Http("POST", Foreign, <<>>, TRUE, Legacy1, TRUE),
          Http("POST", Foreign, <<>>, TRUE, Legacy1, FALSE),
          Http("POST", Foreign, <<>>, FALSE, Legacy1, FALSE)}
Gets  == {Http("GET", Local, <<>>, TRUE, Legacy1, FALSE),
          Http("GET", Local, <<>>, FALSE, Legacy1, FALSE)}
Notifications == {Http("POST", Local, <<>>, TRUE, Notify, FALSE)}

MCClientRequests == Posts \cup Gets \cup Notifications

Reply(status, hasBody, trailers) ==
    [status |-> status, hasBody |-> hasBody, body |-> Reading, trailers |-> trailers]

MCApiReplies == {Reply(200, TRUE, FALSE), Reply(404, TRUE, TRUE), Reply(204, FALSE, FALSE),
                 Reply(AbsentStatus, FALSE, FALSE)}

\* The messages of the exchange are among those a stream may get.
MCHeaderLists == {r.headers : r \in MCClientRequests}
MCStatuses == {r.status : r \in MCApiReplies}
MCPayloads == {SubSeq(Whole(b), lo + 1, hi) :
                  b \in MCRequestBodies \cup MCUpstreamBodies, lo, hi \in 0 .. BodyParts}
=============================================================================
