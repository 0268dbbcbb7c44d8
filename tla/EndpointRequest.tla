--------------------------- MODULE EndpointRequest ---------------------------
(***************************************************************************)
(* From the arguments of a tool call to the request to the API              *)
(* (endpoint_request.go), for an operation of an OpenAPI document.          *)
(*                                                                         *)
(* endpoint.Parameters is a map, so parameters are applied in any order; a  *)
(* step applies one.  A path is a sequence of tokens, text or placeholder,  *)
(* and so is the text of a scalar argument.  An argument is                 *)
(* [kind, text, items]: a scalar with a text, an array with items, or       *)
(* another value (an object or null).                                       *)
(***************************************************************************)
EXTENDS OpenApi

CONSTANTS
    Operations,     \* the operations called, with paths as token sequences
    Calls           \* the arguments of calls: functions on sets of names

VARIABLES
    endpoint,       \* the tool's configuration
    operation,      \* history: the operation it was made from
    arguments,
    todo,           \* parameters not visited yet
    path, query, extraHeaders,   \* the endpointRequest
    body,           \* of marshalRequestBody
    err             \* the parameter that was refused

requestVars == <<endpoint, operation, arguments, todo, path, query, extraHeaders, body, err>>

Placeholder(name) == <<"placeholder", name>>
NoParam  == "none"
NoText   == <<>>
Unsent   == [kind |-> "unsent", text |-> NoText, items |-> <<>>]

\* Operations have a list of parameters, none with the name that stands for no
\* parameter; arguments are JSON values, of which only an array has items.  Paths
\* and texts are sequences, and what is no text in a path is a pair as Placeholder
\* makes them.
ASSUME RequestAssumption ==
    /\ \A op \in Operations :
          /\ Len(op.parameters) \in Nat
          /\ DOMAIN op.parameters = 1 .. Len(op.parameters)
          /\ \A i \in DOMAIN op.parameters : op.parameters[i].name # NoParam
          /\ op.path \in Seq({op.path[i] : i \in DOMAIN op.path})
          /\ \A i \in DOMAIN op.path : op.path[i] = <<op.path[i][1], op.path[i][2]>>
    /\ \A args \in Calls : \A n \in DOMAIN args :
          /\ args[n].kind \in {"scalar", "array", "other"}
          /\ args[n].kind # "array" => args[n].items = <<>>
          /\ args[n].text \in Seq({args[n].text[i] : i \in DOMAIN args[n].text})

isScalar(v) == v.kind = "scalar"

\* Faulty variant: strings.Replace with a count of one.
replaceAll_FirstOnly(tokens, name, text) ==
    FlattenSeq([i \in DOMAIN tokens |->
       IF tokens[i] = Placeholder(name) /\ \A j \in 1 .. i - 1 : tokens[j] # Placeholder(name)
       THEN text ELSE <<tokens[i]>>])

\* strings.ReplaceAll(path, "{name}", text).
replaceAll(tokens, name, text) ==
    FlattenSeq([i \in DOMAIN tokens |-> IF tokens[i] = Placeholder(name) THEN text ELSE <<tokens[i]>>])

\* Faulty variant: an array in the path is formatted instead of refused.
refused_LaxPath(in, v) ==
    CASE in = "header" -> ~isScalar(v)
      [] in = "query" -> IF v.kind = "array" THEN \E i \in DOMAIN v.items : ~isScalar(v.items[i])
                         ELSE ~isScalar(v)
      [] OTHER -> FALSE

\* What applyEndpointArgument refuses: only a query parameter may be an array.
refused(in, v) ==
    CASE in \in {"path", "header"} -> ~isScalar(v)
      [] in = "query" -> IF v.kind = "array" THEN \E i \in DOMAIN v.items : ~isScalar(v.items[i])
                         ELSE ~isScalar(v)
      [] OTHER -> FALSE

\* Faulty variant: only the last element of an array is kept (Set for Add).
queryParamValues_Last(v) ==
    IF v.kind = "array" THEN (IF v.items = <<>> THEN <<>> ELSE <<v.items[Len(v.items)].text>>)
    ELSE <<v.text>>

queryParamValues(v) ==
    IF v.kind = "array" THEN [i \in DOMAIN v.items |-> v.items[i].text] ELSE <<v.text>>

initialHeaders(e) ==
    [h \in {"accept"} \cup (IF e.contentType # "" THEN {"content-type"} ELSE {}) |->
       IF h = "accept" THEN <<"*/*">> ELSE <<e.contentType>>]

supportsBody(e) == e.method \in {"post", "put", "patch"}

marshalRequestBody(e, args) ==
    IF supportsBody(e) /\ "body" \in DOMAIN args THEN args["body"] ELSE Unsent

RequestInit ==
    /\ operation \in Operations
    /\ endpoint = generatedConfig(operation, "host", generatedTool(operation, NoSchema, FALSE))
    /\ arguments \in Calls
    /\ todo = DOMAIN endpoint.parameters
    /\ path = endpoint.path
    /\ query = [n \in {} |-> <<>>]
    /\ extraHeaders = initialHeaders(endpoint)
    /\ body = Unsent
    /\ err = NoParam

Visit(n) ==
    /\ err = NoParam /\ n \in todo
    /\ todo' = todo \ {n}

\* Faulty variant: a required argument may be missing.
MissingArgument_Tolerated(n) ==
    /\ Visit(n) /\ n \notin DOMAIN arguments
    /\ UNCHANGED <<endpoint, operation, arguments, path, query, extraHeaders, body, err>>

\* A missing argument is an error if it is required, and nothing otherwise.
MissingArgument(n) ==
    /\ Visit(n) /\ n \notin DOMAIN arguments
    /\ err' = IF endpoint.parameters[n].required THEN n ELSE err
    /\ UNCHANGED <<endpoint, operation, arguments, path, query, extraHeaders, body>>

RefuseArgument(n) ==
    /\ Visit(n) /\ n \in DOMAIN arguments
    /\ refused(endpoint.parameters[n].in, arguments[n])
    /\ err' = n
    /\ UNCHANGED <<endpoint, operation, arguments, path, query, extraHeaders, body>>

\* A parameter that is neither path, query nor header (a cookie) is passed over.
applyEndpointArgument(n) ==
    /\ Visit(n) /\ n \in DOMAIN arguments
    /\ ~refused(endpoint.parameters[n].in, arguments[n])
    /\ LET in     == endpoint.parameters[n].in
           values == queryParamValues(arguments[n])
       IN  /\ path' = IF in = "path" THEN replaceAll(path, n, arguments[n].text) ELSE path
           /\ query' = IF in = "query" /\ values # <<>>
                       THEN [q \in DOMAIN query \cup {n} |-> IF q = n THEN values ELSE query[q]]
                       ELSE query
           /\ extraHeaders' = IF in = "header"
                              THEN [h \in DOMAIN extraHeaders \cup {n} |->
                                      IF h = n THEN arguments[n].text ELSE extraHeaders[h]]
                              ELSE extraHeaders
    /\ UNCHANGED <<endpoint, operation, arguments, body, err>>

MarshalBody ==
    /\ err = NoParam /\ todo = {} /\ body = Unsent
    /\ body' = marshalRequestBody(endpoint, arguments)
    /\ UNCHANGED <<endpoint, operation, arguments, todo, path, query, extraHeaders, err>>

RequestNext ==
    \/ \E n \in todo : MissingArgument(n) \/ RefuseArgument(n) \/ applyEndpointArgument(n)
    \/ MarshalBody

RequestSpec == RequestInit /\ [][RequestNext]_requestVars

(***************************************************************************)
(* The request without any order.                                           *)
(***************************************************************************)
done == err # NoParam \/ todo = {}
built == err = NoParam /\ todo = {}

given(in) == {n \in DOMAIN endpoint.parameters \cap DOMAIN arguments : endpoint.parameters[n].in = in}

unacceptable(n) ==
    IF n \in DOMAIN arguments
    THEN \/ endpoint.parameters[n].in \in {"path", "header"} /\ arguments[n].kind # "scalar"
         \/ /\ endpoint.parameters[n].in = "query"
            /\ \/ arguments[n].kind = "other"
               \/ \E i \in DOMAIN arguments[n].items : arguments[n].items[i].kind # "scalar"
    ELSE endpoint.parameters[n].required

placeholdersIn(tokens) == {n \in DOMAIN endpoint.parameters : Contains(tokens, Placeholder(n))}

\* No value brings a placeholder of its own.
plainValues == \A n \in given("path") : placeholdersIn(arguments[n].text) = {}

\* All placeholders of the template at once.
simultaneous(template) ==
    FlattenSeq([i \in DOMAIN template |->
       LET owners == {n \in given("path") : template[i] = Placeholder(n)}
       IN  IF owners = {} THEN <<template[i]>> ELSE arguments[CHOOSE n \in owners : TRUE].text])

\* As OpenAPI demands: parameters have distinct names, and every placeholder is
\* declared as a required path parameter.
wellDeclared ==
    /\ \A i, j \in DOMAIN operation.parameters :
          operation.parameters[i].name = operation.parameters[j].name => i = j
    /\ \A k \in DOMAIN operation.path : operation.path[k][1] = "placeholder" =>
          \E i \in DOMAIN operation.parameters :
             LET p == operation.parameters[i]
             IN  p.name = operation.path[k][2] /\ p.in = "path" /\ p.required

(***************************************************************************)
(* Properties.                                                              *)
(***************************************************************************)
\* A call is refused if and only if one of its arguments is, in whatever order
\* the parameters are visited, and the error names such an argument.
VerdictFixed ==
    done => /\ err # NoParam => unacceptable(err)
            /\ err = NoParam => \A n \in DOMAIN endpoint.parameters : ~unacceptable(n)

\* Without placeholders in the values, replacing one parameter after the other
\* gives what replacing all at once does, so the path does not depend on the order.
PathIsSubstitution == built /\ plainValues => path = simultaneous(endpoint.path)

\* Query and headers are those of the arguments, element by element and in order,
\* over the headers every request has.
QueryAndHeadersComplete ==
    built =>
      /\ \A n \in given("query") :
            LET values == IF arguments[n].kind = "array"
                          THEN [i \in DOMAIN arguments[n].items |-> arguments[n].items[i].text]
                          ELSE <<arguments[n].text>>
            IN  IF values = <<>> THEN n \notin DOMAIN query ELSE n \in DOMAIN query /\ query[n] = values
      /\ DOMAIN query \subseteq given("query")
      /\ \A n \in given("header") : extraHeaders[n] = arguments[n].text
      /\ "accept" \notin given("header") => extraHeaders["accept"] = <<"*/*">>

\* The API never sees a placeholder of a well-declared operation: each is a
\* required parameter, so it is replaced or the call is refused, and what is left
\* that looks like one came with a value, whatever the values are.
NoPlaceholderLeft ==
    built /\ wellDeclared =>
      \A k \in DOMAIN path : path[k][1] = "placeholder" =>
         \E n \in given("path") : Contains(arguments[n].text, path[k])

\* endpoint_request_test.go:48, TestNewEndpointRequest_ReturnsErrorForMissingRequiredArgument:
\* a call without an argument that the tool's input schema lists as required is
\* refused.  The exceptions are the body, which is listed and never checked, and a
\* name that several parameters have, of which the last one's flag counts.
RequiredAsListed ==
    built => \A n \in requiredFields(operation) \ DOMAIN arguments :
       \/ n = "body"
       \/ \E i, j \in DOMAIN operation.parameters :
             /\ i < j /\ operation.parameters[i].name = n /\ operation.parameters[j].name = n
             /\ ~operation.parameters[j].required
=============================================================================
