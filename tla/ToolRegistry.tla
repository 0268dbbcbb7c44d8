---------------------------- MODULE ToolRegistry ----------------------------
(***************************************************************************)
(* The tool registry (registry.go): the list of tools kept in the order of  *)
(* their names, and the configuration of each.                              *)
(*                                                                         *)
(* A name is [rank, length, clean]: its place in the order of               *)
(* strings.Compare, its length in bytes, and whether every character is one *)
(* that tool names may have.  Names with the same rank are the same.        *)
(***************************************************************************)
EXTENDS Integers, FiniteSets, SequencesExt

maxToolNameLength == 128

newToolRegistry == [tools |-> <<>>, configs |-> [n \in {} |-> {}]]

registered(r) == DOMAIN r.configs

\* Faulty variant: the limit itself is refused.
validToolName_OffByOne(name) == name.length \in 1 .. maxToolNameLength - 1 /\ name.clean

validToolName(name) == name.length \in 1 .. maxToolNameLength /\ name.clean

\* slices.BinarySearchFunc on a sorted list: where name is or belongs.
position(tools, name) == 1 + Cardinality({i \in DOMAIN tools : tools[i].name.rank < name.rank})
found(tools, name)    == \E i \in DOMAIN tools : tools[i].name = name

canRegister(r, tool) == validToolName(tool.name) /\ ~found(r.tools, tool.name)

\* Faulty variant: tools are appended.
Register_Appends(r, tool, config) ==
    IF ~canRegister(r, tool) THEN r
    ELSE [tools   |-> Append(r.tools, tool),
          configs |-> [n \in registered(r) \cup {tool.name} |->
                         IF n = tool.name THEN config ELSE r.configs[n]]]

\* Faulty variant: the configuration of a duplicate replaces the first one's.
Register_Replaces(r, tool, config) ==
    IF ~validToolName(tool.name) THEN r
    ELSE [tools   |-> IF found(r.tools, tool.name) THEN r.tools
                      ELSE InsertAt(r.tools, position(r.tools, tool.name), tool),
          configs |-> [n \in registered(r) \cup {tool.name} |->
                         IF n = tool.name THEN config ELSE r.configs[n]]]

\* A tool that cannot be registered leaves the registry as it is: every caller
\* logs the error and goes on.
Register(r, tool, config) ==
    IF ~canRegister(r, tool) THEN r
    ELSE [tools   |-> InsertAt(r.tools, position(r.tools, tool.name), tool),
          configs |-> [n \in registered(r) \cup {tool.name} |->
                         IF n = tool.name THEN config ELSE r.configs[n]]]

\* Registering those tools of another registry that have one of the names, in its
\* order.
registerAll(r, tools, configs, names) ==
    LET after[i \in 0 .. Len(tools)] ==
          IF i = 0 THEN r
          ELSE IF tools[i].name \in names
               THEN Register(after[i - 1], tools[i], configs[tools[i].name])
               ELSE after[i - 1]
    IN  after[Len(tools)]

\* registerLoadedTools.  A tool without a configuration is passed over.
registerLoadedTools(r, loaded) == registerAll(r, loaded.tools, loaded.configs, registered(loaded))

\* FilterByAllowlist refuses an allowlist with a name that is not registered.
allowlistMissing(r, allowlist) == allowlist \ registered(r)

FilterByAllowlist(r, allowlist) == registerAll(newToolRegistry, r.tools, r.configs, allowlist)
=============================================================================
