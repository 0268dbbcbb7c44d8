------------------------------- MODULE OpenApi -------------------------------
(***************************************************************************)
(* From an operation of an OpenAPI document to a tool (openapi.go).         *)
(*                                                                         *)
(* An operation is [path, method, id, parameters, body, responses], where   *)
(*   parameters  is a sequence of [name, in, required, schema];             *)
(*   body        is NoRequestBody or [contents, required, schema], schema   *)
(*               being the one under "application/json";                    *)
(*   responses   is a set of [status, schemas], one per status, schemas     *)
(*               being those of its JSON content types.                     *)
(* A status that is no number is a negative one here.  A schema is          *)
(* [name, object, circular]: what it is, whether its type is an object, and *)
(* whether it refers to itself.                                             *)
(***************************************************************************)
EXTENDS ToolRegistry

DefaultStatus == -1          \* the response "default"
RangeStatus   == -2          \* a range such as "2XX"
NoSchema      == [name |-> "none", object |-> FALSE, circular |-> FALSE]
NoRequestBody == [contents |-> {"none"}, required |-> FALSE, schema |-> NoSchema]

jsonType     == "application/json"
jsonVariants == {jsonType, "application/json; charset=utf-8"}

hasSupportedRequestBody(op) == op.body = NoRequestBody \/ op.body.contents \cap jsonVariants # {}

shouldSkipOperation(op) == op.id.length = 0 \/ ~hasSupportedRequestBody(op)

\* The host of the first server, if its URL has one ("" otherwise).
extractHostFromOpenAPISpec(spec) ==
    IF spec.servers # <<>> /\ Head(spec.servers) # "" THEN Head(spec.servers) ELSE "localhost"

(***************************************************************************)
(* The response schema.  Responses and content types are visited in map     *)
(* order, so the result is any member of a set.                             *)
(***************************************************************************)
isSuccess(r) == r.status \in 200 .. 299

\* Faulty variant: the last success response instead of the lowest.
findJSONSchemaFromResponses_AnySuccess(responses) ==
    LET described == {r \in responses : r.schemas # {}}
        success   == {r \in described : isSuccess(r)}
        fallback  == {r \in described : r.status = DefaultStatus}
        chosen    == IF success # {} THEN success
                     ELSE IF fallback # {} THEN fallback ELSE described
    IN  IF chosen = {} THEN {NoSchema} ELSE UNION {r.schemas : r \in chosen}

\* Faulty variant: the default response is preferred.
findJSONSchemaFromResponses_DefaultFirst(responses) ==
    LET described == {r \in responses : r.schemas # {}}
        success   == {r \in described : isSuccess(r)}
        fallback  == {r \in described : r.status = DefaultStatus}
        chosen    == IF fallback # {} THEN fallback
                     ELSE IF success # {} THEN {r \in success : \A s \in success : r.status <= s.status}
                     ELSE described
    IN  IF chosen = {} THEN {NoSchema} ELSE UNION {r.schemas : r \in chosen}

findJSONSchemaFromResponses(responses) ==
    LET described == {r \in responses : r.schemas # {}}
        success   == {r \in described : isSuccess(r)}
        fallback  == {r \in described : r.status = DefaultStatus}
        chosen    == IF success # {} THEN {r \in success : \A s \in success : r.status <= s.status}
                     ELSE IF fallback # {} THEN fallback ELSE described
    IN  IF chosen = {} THEN {NoSchema} ELSE UNION {r.schemas : r \in chosen}

\* Only objects become output schemas.
outputSchema(schema) == IF schema.object THEN schema ELSE NoSchema

(***************************************************************************)
(* The tool and its configuration.                                          *)
(***************************************************************************)
parameterNames(op) == {op.parameters[i].name : i \in DOMAIN op.parameters}

\* Faulty variant: "required" is not taken over.
endpointParams_Optional(op) ==
    [n \in parameterNames(op) |->
       LET i == Max({j \in DOMAIN op.parameters : op.parameters[j].name = n})
       IN  [in |-> op.parameters[i].in, required |-> FALSE]]

\* Parameters are keyed by name: of several with one name the last is kept.
endpointParams(op) ==
    [n \in parameterNames(op) |->
       LET i == Max({j \in DOMAIN op.parameters : op.parameters[j].name = n})
       IN  [in |-> op.parameters[i].in, required |-> op.parameters[i].required]]

requiredFields(op) ==
    {op.parameters[i].name : i \in {j \in DOMAIN op.parameters : op.parameters[j].required}}
    \cup (IF op.body.required THEN {"body"} ELSE {})

contentType(op) == IF jsonType \in op.body.contents THEN jsonType ELSE ""

\* The conversion follows properties and items and remembers nothing of the way:
\* of a schema that contains itself it does not return.
openApiSchemaToMapNeverReturns(schema) == schema.circular

parametersFail(op) ==
    \E i \in DOMAIN op.parameters : openApiSchemaToMapNeverReturns(op.parameters[i].schema)

\* A JSON body without a schema is a nil pointer that is dereferenced.
bodyFails(op) ==
    /\ jsonType \in op.body.contents
    /\ op.body.schema = NoSchema \/ openApiSchemaToMapNeverReturns(op.body.schema)

\* generateMCPToolFromApiOperation does not return.
conversionFails(op, schema) ==
    \/ parametersFail(op)
    \/ bodyFails(op)
    \/ openApiSchemaToMapNeverReturns(outputSchema(schema))

\* Faulty variant: the output schema is listed although structured output is off.
generatedTool_SchemaKept(op, schema, structured) ==
    [name |-> op.id, required |-> requiredFields(op), output |-> outputSchema(schema)]

generatedTool(op, schema, structured) ==
    [name |-> op.id, required |-> requiredFields(op),
     output |-> IF structured THEN outputSchema(schema) ELSE NoSchema]

\* UseStructuredOutput is set from the schema that is left.
generatedConfig(op, host, tool) ==
    [host |-> host, method |-> op.method, path |-> op.path, parameters |-> endpointParams(op),
     contentType |-> contentType(op), structured |-> tool.output # NoSchema]

\* One turn of the loops of generateMCPToolsFromSpec.
registerOperation(r, op, host, schema, structured) ==
    LET tool == generatedTool(op, schema, structured)
    IN  Register(r, tool, generatedConfig(op, host, tool))
=============================================================================
