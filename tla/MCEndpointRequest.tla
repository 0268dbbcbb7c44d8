-------------------------- MODULE MCEndpointRequest --------------------------
(***************************************************************************)
(* Instances of EndpointRequest: operations with two placeholders, one of   *)
(* them twice, with parameters in every place and with a name used twice;   *)
(* arguments of every kind, placeholders in their text included.            *)
(***************************************************************************)
EXTENDS EndpointRequest

Lit(t) == <<"text", t>>
Param(name, in, required) ==
    [name |-> name, in |-> in, required |-> required,
     schema |-> [name |-> "p", object |-> FALSE, circular |-> FALSE]]

Op(method, template, parameters, contents) ==
    [path |-> template, method |-> method, id |-> [rank |-> 1, length |-> 4, clean |-> TRUE],
     parameters |-> parameters, responses |-> {},
     body |-> IF contents = {} THEN NoRequestBody
              ELSE [contents |-> contents, required |-> TRUE, schema |-> [name |-> "s", object |-> TRUE, circular |-> FALSE]]]

Nested == <<Lit("users"), Placeholder("id"), Lit("pets"), Placeholder("pet"), Placeholder("id")>>
IdAndPet == <<Param("id", "path", TRUE), Param("pet", "path", TRUE)>>

MCOperations ==
    {Op("get", Nested, IdAndPet \o <<Param("tag", "query", FALSE)>>, {}),
     Op("post", Nested, IdAndPet \o <<Param("tag", "header", TRUE)>>, {jsonType}),
     Op("put", <<Lit("users")>>, <<Param("id", "query", TRUE), Param("pet", "cookie", FALSE),
                                   Param("tag", "query", FALSE)>>, {"application/json; charset=utf-8"}),
     Op("get", Nested, IdAndPet \o <<Param("id", "query", FALSE), Param("accept", "header", FALSE)>>, {}),
     Op("delete", Nested, <<Param("id", "path", FALSE)>>, {jsonType})}

Scalar(text) == [kind |-> "scalar", text |-> text, items |-> <<>>]
Array(items) == [kind |-> "array", text |-> NoText, items |-> items]
Other        == [kind |-> "other", text |-> NoText, items |-> <<>>]

One == Scalar(<<Lit("1")>>)
Two == Scalar(<<Lit("2")>>)
Sly == Scalar(<<Lit("s"), Placeholder("pet")>>)

Ids    == {One, Sly, Other, Array(<<One, Two>>)}
Pets   == {Two, Array(<<One>>), Scalar(<<Placeholder("id")>>), Scalar(NoText)}
Tags   == {One, Array(<<>>), Array(<<Two, One, Two>>), Array(<<One, Array(<<>>)>>), Other}

\* Every subset of the names, with every value each may have.
MCCalls ==
    UNION {{f \in [names -> Ids \cup Pets \cup Tags] :
              /\ "id" \in names => f["id"] \in Ids
              /\ "pet" \in names => f["pet"] \in Pets
              /\ "tag" \in names => f["tag"] \in Tags
              /\ \A n \in names \ {"id", "pet", "tag"} : f[n] = One}
           : names \in {{}, {"id"}, {"id", "pet"}, {"id", "tag"}, {"id", "pet", "tag"},
                        {"pet", "tag"}, {"id", "pet", "accept"}, {"id", "pet", "tag", "body"}}}
=============================================================================
