---------------------------- MODULE MCToolLoading ----------------------------
(***************************************************************************)
(* Instances of ToolLoading: documents that share names with each other and *)
(* within themselves, names at the limits, bodies and responses of every    *)
(* kind, and files that cannot be used.                                     *)
(***************************************************************************)
EXTENDS ToolLoading

Name(rank, length, clean) == [rank |-> rank, length |-> length, clean |-> clean]
Nameless == Name(0, 0, TRUE)
Alpha    == Name(1, 1, TRUE)
Beta     == Name(2, maxToolNameLength, TRUE)
Gamma    == Name(3, 7, TRUE)
TooLong  == Name(4, maxToolNameLength + 1, TRUE)
Unclean  == Name(5, 7, FALSE)

Schema(name, object) == [name |-> name, object |-> object, circular |-> FALSE]
Dog  == Schema("dog", TRUE)
Cat  == Schema("cat", TRUE)
List == Schema("list", FALSE)
Loop == [name |-> "loop", object |-> TRUE, circular |-> TRUE]

Body(contents, schema) == [contents |-> contents, required |-> TRUE, schema |-> schema]
Json      == Body({jsonType}, Dog)
JsonUtf8  == Body({"application/json; charset=utf-8", "application/xml"}, NoSchema)
Xml       == Body({"application/xml"}, NoSchema)
BareJson  == Body({jsonType}, NoSchema)

Response(status, schemas) == [status |-> status, schemas |-> schemas]
Ok(schemas)   == {Response(200, schemas), Response(DefaultStatus, {Cat})}
TwoSuccesses  == {Response(200, {}), Response(201, {Dog}), Response(202, {Cat}), Response(404, {Cat})}
OnlyDefault   == {Response(204, {}), Response(DefaultStatus, {Cat}), Response(404, {Dog})}
OnlyErrors    == {Response(400, {Cat}), Response(500, {Dog})}
Ranged        == {Response(RangeStatus, {Dog})}
TwoJsonTypes  == {Response(200, {Dog, List})}

With(parameters, path, method, id, body, responses) ==
    [path |-> path, method |-> method, id |-> id, body |-> body, responses |-> responses,
     parameters |-> parameters]
Op(path, method, id, body, responses) == With(<<>>, path, method, id, body, responses)
Param(schema) == [name |-> "p", in |-> "query", required |-> FALSE, schema |-> schema]

Spec(host, operations) ==
    [kind |-> "spec", servers |-> IF host = "" THEN <<"", "other">> ELSE <<host>>, operations |-> operations]
Unusable(kind) == [kind |-> kind, servers |-> <<>>, operations |-> {}]

Clear  == Spec("one", {Op("/a", "get", Gamma, NoRequestBody, TwoSuccesses),
                       Op("/a", "post", Beta, Json, Ok({Dog})),
                       Op("/a", "put", Alpha, Xml, Ok({Dog})),
                       Op("/b", "get", TooLong, NoRequestBody, Ok({})),
                       Op("/b", "put", Nameless, NoRequestBody, Ok({Dog}))})
Later  == Spec("", {Op("/b", "get", Alpha, JsonUtf8, Ok({List})),
                    Op("/c", "get", Beta, NoRequestBody, Ranged),
                    Op("/c", "put", Unclean, NoRequestBody, Ok({Cat}))})
Double == Spec("two", {Op("/a", "get", Alpha, NoRequestBody, Ok({Dog})),
                       Op("/a", "put", Gamma, NoRequestBody, Ok({List})),
                       Op("/b", "get", Alpha, NoRequestBody, Ok({Cat}))})
Vague  == Spec("three", {Op("/a", "get", Alpha, NoRequestBody, OnlyErrors),
                         Op("/b", "get", Gamma, NoRequestBody, TwoJsonTypes)})
Error  == Spec("four", {Op("/a", "get", Beta, NoRequestBody, OnlyDefault)})
Fatal  == Spec("five", {Op("/a", "get", Alpha, BareJson, Ok({})),
                        Op("/b", "get", Beta, NoRequestBody, Ok({Loop}))})
Fickle == Spec("seven", {Op("/a", "get", Alpha, NoRequestBody, {Response(200, {Dog, Loop})}),
                         With(<<Param(Dog)>>, "/b", "get", Beta, NoRequestBody, OnlyErrors)})
Knot   == Spec("eight", {With(<<Param(Dog), Param(Loop)>>, "/a", "get", Alpha, NoRequestBody, Ok({Dog}))})
Empty  == Spec("six", {Op("/a", "get", Nameless, NoRequestBody, Ok({Dog}))})

FileLists == {<<Clear>>, <<Clear, Later>>, <<Later, Unusable("dir"), Clear>>, <<Double, Later>>,
              <<Unusable("unreadable"), Later, Double>>, <<Vague, Error>>, <<Unusable("broken"), Error, Later>>,
              <<Later, Fatal>>, <<Fickle, Clear>>, <<Knot>>, <<Empty, Unusable("dir")>>}

MCDeployments ==
    [files : FileLists, allowlist : {{}, {Beta}, {Alpha, Beta, Gamma}}, structured : BOOLEAN]
=============================================================================
