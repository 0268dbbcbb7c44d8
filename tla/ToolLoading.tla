----------------------------- MODULE ToolLoading -----------------------------
(***************************************************************************)
(* newToolRegistryFromConfig and the allowlist of RunServer: the documents  *)
(* are read in the order of the file names, the operations of a document in *)
(* the order of Go's maps, which is any order and another one at the next   *)
(* start.  A process may be restarted on the same documents.                *)
(***************************************************************************)
EXTENDS OpenApi

CONSTANTS
    Deployments,   \* [files, allowlist, structured]: documents and configuration
    MaxStarts      \* bound: starts of the process

\* A name is its rank; the responses of an operation are keyed by status.
ASSUME LoadAssumption ==
    /\ \A d \in Deployments :
          /\ Len(d.files) \in Nat
          /\ DOMAIN d.files = 1 .. Len(d.files)
    /\ \A d1, d2 \in Deployments : \A i \in DOMAIN d1.files, j \in DOMAIN d2.files :
          \A o1 \in d1.files[i].operations, o2 \in d2.files[j].operations :
             /\ o1.id.rank \in Int
             /\ o1.id.rank = o2.id.rank => o1.id = o2.id
    /\ \A d \in Deployments : \A i \in DOMAIN d.files : \A op \in d.files[i].operations :
          /\ IsFiniteSet(op.responses)
          /\ \A r, s \in op.responses :
                /\ r.status \in Int
                /\ r.status = s.status => r = s
                /\ IsFiniteSet(r.schemas)

VARIABLES
    deployment,
    pc,            \* "files", "operations" or "done"
    at,            \* the file under way
    item,          \* the path item under way
    todo,          \* operations of the file not visited yet
    loaded,        \* the registry of the file
    registry,      \* the registry of all files
    result,        \* "none", "serving", "noTools", "notInAllowlist" or "crashed"
    starts,
    before         \* history: result and registry of the start before

loadVars == <<deployment, pc, at, item, todo, loaded, registry, result, starts, before>>

NoPath == "none"

Fresh ==
    /\ pc' = "files"
    /\ at' = 1
    /\ item' = NoPath
    /\ todo' = {}
    /\ loaded' = newToolRegistry
    /\ registry' = newToolRegistry
    /\ result' = "none"

LoadInit ==
    /\ deployment \in Deployments
    /\ pc = "files"
    /\ at = 1
    /\ item = NoPath
    /\ todo = {}
    /\ loaded = newToolRegistry
    /\ registry = newToolRegistry
    /\ result = "none"
    /\ starts = 1
    /\ before = [result |-> "none", registry |-> newToolRegistry]

file == deployment.files[at]

\* A file that cannot be accessed, a directory and a document that does not load
\* are passed over.
SkipFile ==
    /\ pc = "files" /\ at <= Len(deployment.files)
    /\ file.kind # "spec"
    /\ at' = at + 1
    /\ UNCHANGED <<deployment, pc, item, todo, loaded, registry, result, starts, before>>

OpenFile ==
    /\ pc = "files" /\ at <= Len(deployment.files)
    /\ file.kind = "spec"
    /\ pc' = "operations"
    /\ item' = NoPath
    /\ todo' = file.operations
    /\ loaded' = newToolRegistry
    /\ UNCHANGED <<deployment, at, registry, result, starts, before>>

\* The inner loop is over the methods of one path.
next(op) == op \in todo /\ (op.path = item \/ ~\E o \in todo : o.path = item)

SkipOperation(op) ==
    /\ pc = "operations" /\ next(op) /\ shouldSkipOperation(op)
    /\ item' = op.path
    /\ todo' = todo \ {op}
    /\ UNCHANGED <<deployment, pc, at, loaded, registry, result, starts, before>>

VisitOperation(op) ==
    /\ pc = "operations" /\ next(op) /\ ~shouldSkipOperation(op)
    /\ \E schema \in findJSONSchemaFromResponses(op.responses) :
          /\ ~conversionFails(op, schema)
          /\ loaded' = registerOperation(loaded, op, extractHostFromOpenAPISpec(file), schema,
                                         deployment.structured)
    /\ item' = op.path
    /\ todo' = todo \ {op}
    /\ UNCHANGED <<deployment, pc, at, registry, result, starts, before>>

CrashOnOperation(op) ==
    /\ pc = "operations" /\ next(op) /\ ~shouldSkipOperation(op)
    /\ \E schema \in findJSONSchemaFromResponses(op.responses) : conversionFails(op, schema)
    /\ pc' = "done"
    /\ result' = "crashed"
    /\ UNCHANGED <<deployment, at, item, todo, loaded, registry, starts, before>>

MergeFile ==
    /\ pc = "operations" /\ todo = {}
    /\ registry' = registerLoadedTools(registry, loaded)
    /\ pc' = "files"
    /\ at' = at + 1
    /\ UNCHANGED <<deployment, item, todo, loaded, result, starts, before>>

\* All files are read: there must be tools, and those of the allowlist if there
\* is one.
Finish ==
    /\ pc = "files" /\ at > Len(deployment.files)
    /\ pc' = "done"
    /\ result' = IF registered(registry) = {} THEN "noTools"
                 ELSE IF allowlistMissing(registry, deployment.allowlist) # {} THEN "notInAllowlist"
                 ELSE "serving"
    /\ registry' = IF result' = "serving" /\ deployment.allowlist # {}
                   THEN FilterByAllowlist(registry, deployment.allowlist) ELSE registry
    /\ UNCHANGED <<deployment, at, item, todo, loaded, starts, before>>

\* The process ends and is started again, nothing else having changed.
Restart ==
    /\ pc = "done" /\ starts < MaxStarts
    /\ before' = [result |-> result, registry |-> registry]
    /\ starts' = starts + 1
    /\ Fresh
    /\ UNCHANGED deployment

Visit == \E op \in todo : SkipOperation(op) \/ VisitOperation(op) \/ CrashOnOperation(op)

Load == SkipFile \/ OpenFile \/ Visit \/ MergeFile \/ Finish

LoadNext == Load \/ Restart

LoadSpec == LoadInit /\ [][LoadNext]_loadVars

(***************************************************************************)
(* What the documents offer, without any order.                             *)
(***************************************************************************)
specFiles == {i \in DOMAIN deployment.files : deployment.files[i].kind = "spec"}

\* The operations of a file that have a name of 1 to 128 allowed characters and no
\* body, or one that can be JSON.
offeredBy(i) ==
    {op \in deployment.files[i].operations :
       /\ op.id.length \in 1 .. 128 /\ op.id.clean
       /\ op.body = NoRequestBody \/ op.body.contents \cap jsonVariants # {}}
offered(i)   == {op.id : op \in offeredBy(i)}
allOffered   == UNION {offered(i) : i \in specFiles}

\* Nothing is left to the order of a map: names are unique within a file, a
\* response has one schema, and if no success or default response has one, then
\* at most one other response does.
unambiguous ==
    \A i \in specFiles :
       /\ \A o1, o2 \in offeredBy(i) : o1.id = o2.id => o1 = o2
       /\ \A op \in deployment.files[i].operations :
             LET described == {r \in op.responses : r.schemas # {}}
             IN  /\ \A r \in described : Cardinality(r.schemas) = 1
                 /\ \/ \E r \in described : isSuccess(r) \/ r.status = DefaultStatus
                    \/ Cardinality(described) <= 1

\* Operations that crash a start for some choice of the response schema, and for
\* every choice.
allOperations == UNION {deployment.files[i].operations : i \in specFiles}
mayCrash(op)  == /\ ~shouldSkipOperation(op)
                 /\ \E schema \in findJSONSchemaFromResponses(op.responses) : conversionFails(op, schema)
mustCrash(op) == /\ ~shouldSkipOperation(op)
                 /\ \A schema \in findJSONSchemaFromResponses(op.responses) : conversionFails(op, schema)

toolNames(r) == {r.tools[i].name : i \in DOMAIN r.tools}

(***************************************************************************)
(* Properties.                                                              *)
(***************************************************************************)
\* Both registries are in strict order of names, which the binary search needs,
\* and hold a configuration for exactly the tools they list.
wellKept(r) ==
    /\ \A i, j \in DOMAIN r.tools : i < j => r.tools[i].name.rank < r.tools[j].name.rank
    /\ registered(r) = toolNames(r)

RegistriesKept == wellKept(loaded) /\ wellKept(registry)

\* A start that does not crash has a result and serves tools under names that depend
\* on the documents and the allowlist alone, not on any order of visiting.  It
\* crashes only on an operation that can crash it, and always if one must; in
\* between, the order in which Go visits responses and content types decides.
NamesFixedByDocuments ==
    /\ pc = "done" /\ result = "crashed" => \E op \in allOperations : mayCrash(op)
    /\ pc = "done" /\ result # "crashed" =>
      /\ \A op \in allOperations : ~mustCrash(op)
      /\ result = IF allOffered = {} THEN "noTools"
                  ELSE IF deployment.allowlist \subseteq allOffered THEN "serving" ELSE "notInAllowlist"
      /\ result = "serving" =>
            toolNames(registry) = IF deployment.allowlist = {} THEN allOffered ELSE deployment.allowlist

\* A tool calls an operation of the first file that offers its name, at that
\* file's host, and later files never take a name over.
FirstFileWins ==
    pc = "done" /\ result = "serving" =>
      \A n \in toolNames(registry) :
         LET first == Min({i \in specFiles : n \in offered(i)})
             conf  == registry.configs[n]
         IN  /\ conf.host = extractHostFromOpenAPISpec(deployment.files[first])
             /\ \E op \in offeredBy(first) : op.id = n /\ op.path = conf.path /\ op.method = conf.method

\* The response side uses structured content for exactly the tools that are
\* listed with an output schema, and for none when it is switched off.
StructuredAsListed ==
    \A r \in {loaded, registry} : \A i \in DOMAIN r.tools :
       /\ r.configs[r.tools[i].name].structured <=> r.tools[i].output # NoSchema
       /\ r.tools[i].output # NoSchema => deployment.structured

\* A restart on the same documents serves the same tools with the same
\* configurations, if the documents leave nothing to the order of a map.
RestartSameIfUnambiguous ==
    pc = "done" /\ starts > 1 /\ unambiguous =>
      result = before.result /\ (result # "crashed" => registry = before.registry)

\* mcp_handler.go:403: "outputSchema is defined for 2xx responses only".  The listed
\* schema is that of the lowest 2xx response with one, for every order; only an
\* operation without any takes it from the default or another response.
OutputSchemaFromSuccess ==
    \A i \in DOMAIN registry.tools : registry.tools[i].output # NoSchema =>
       \E f \in specFiles : \E op \in offeredBy(f) :
          LET success == {r \in op.responses : r.status \in 200 .. 299 /\ r.schemas # {}}
              lowest  == Min({r.status : r \in success})
          IN  /\ op.id = registry.tools[i].name
              /\ \E r \in op.responses :
                    registry.tools[i].output \in r.schemas /\ (success # {} => r.status = lowest)
=============================================================================
