---------------------------- MODULE PackageSpecs ----------------------------
(***************************************************************************)
(* The file ipcraft.json of a package: what PackageSpecReader insists on,  *)
(* the specification it reads, and how packages are collected from         *)
(* directories and resolved.                                               *)
(*                                                                         *)
(* A text that is a path is "inside" or "outside" the package, and so is   *)
(* what a block holds: "{outside}" is an object with a path that leaves    *)
(* the package.  Extensions given as an object declare nothing; they are   *)
(* the block "extension payloads" here.  A string in the list of           *)
(* extensions says the same as an object with that id.  The editor's part  *)
(* of native is kept in native itself.                                     *)
(***************************************************************************)
EXTENDS GraphConfigs, TLC

CONSTANT Lowercase(_)

Blank == ""

Flags == {"true", "false"}

PathFields == {"file", "output_path", "library"}

PackageType ==
  [Plain EXCEPT !.text = {"schema", "id", "version", "name"},
                !.block = {"display", "diagnostics", "native_schema", "metadata",
                           "plugin", "extension payloads"},
                !.list = [extensions |-> "extension", interfaces |-> "interface",
                          emitters |-> "declaration", flows |-> "flow",
                          artifacts |-> "declaration", views |-> "declaration"],
                !.part = [config_schema |-> "config section",
                          connection_rules |-> "rules",
                          graph_config |-> "package graph", native |-> "native"],
                !.must = {"schema", "id", "version", "name"},
                !.filled = {"schema", "id", "version", "name"},
                !.enum = [schema |-> {"package.v1"}], !.free = TRUE]

ExtensionType ==
  [Plain EXCEPT !.text = {"id", "required", "version"}, !.block = {"metadata", "native"},
                !.must = {"id"}, !.filled = {"id"}, !.checked = {"version"},
                !.enum = [required |-> Flags]]

InterfaceType ==
  [Plain EXCEPT !.text = {"id", "name", "label", "kind", "protocol", "role",
                          "direction", "required", "fanout"},
                !.block = {"properties", "metadata", "native"},
                !.must = {"id"},
                !.filled = {"id", "kind", "protocol", "role", "direction", "fanout"},
                !.checked = {"name", "label"}, !.enum = [required |-> Flags]]

(* Entries nobody looks into further, but for the paths in them.           *)
DeclarationType == [Plain EXCEPT !.text = {"file", "output_path"}, !.free = TRUE]

FlowType ==
  [Plain EXCEPT !.text = {"scope"}, !.enum = [scope |-> {"instance", "project"}],
                !.free = TRUE]

ConfigSectionType ==
  [Plain EXCEPT !.list = [k \in {"parameters", "tables", "documents", "files"} |->
                            "declaration"],
                !.block = {"metadata", "native"}]

RulesType ==
  [Plain EXCEPT !.map = {"protocol_aliases", "kind_aliases"},
                !.list = [compatibility |-> "compatibility rule"],
                !.block = {"metadata", "native"}]

CompatibilityRuleType ==
  [Plain EXCEPT !.text = {"connection_type", "arity"}, !.block = {"metadata"},
                !.part = [k \in {"from", "to"} |-> "endpoint match"],
                !.must = {"connection_type", "from", "to", "arity"},
                !.filled = {"connection_type", "arity"},
                !.enum = [arity |-> {"binary", "fanout"}]]

EndpointMatchType ==
  [Plain EXCEPT !.text = {"kind", "protocol", "role", "direction"},
                !.filled = {"kind", "protocol", "role", "direction"}]

(* The number of instances an editor allows is positive and whole.         *)
NativeType == [Plain EXCEPT !.text = {"max"}, !.enum = [max |-> {"1", "2"}], !.free = TRUE]

(* The reader of packages has checks of its own for a graph_config.        *)
PackageGraphType ==
  [Plain EXCEPT !.text = {"schema"}, !.block = {"properties", "native"},
                !.list = [objects |-> "package object",
                          relationships |-> "package relationship"],
                !.must = {"schema", "objects", "relationships"},
                !.filled = {"schema"}, !.enum = [schema |-> {"graph.v1"}]]

PackageObjectType ==
  [Plain EXCEPT !.text = {"id", "type"}, !.block = {"properties"},
                !.must = {"id", "type"}, !.filled = {"id", "type"}]

PackageRelationshipType ==
  [Plain EXCEPT !.text = {"id", "type"}, !.block = {"properties"},
                !.list = [endpoints |-> "package endpoint"],
                !.must = {"id", "type", "endpoints"}, !.filled = {"id", "type"},
                !.pairs = {"endpoints"}]

PackageEndpointType ==
  [Plain EXCEPT !.text = {"object", "role"}, !.block = {"properties"},
                !.must = {"object", "role"}, !.filled = {"object", "role"}]

(* A mutant: the ends of relationships are not looked up.                  *)
PackageGraphFitsLoosely(graph) ==
  DistinctIds(graph.objects) /\ DistinctIds(graph.relationships)

PackageGraphFits(graph) ==
  /\ DistinctIds(graph.objects)
  /\ DistinctIds(graph.relationships)
  /\ \A i \in DOMAIN graph.relationships :
       \A end \in ToSet(graph.relationships[i].endpoints) :
         end.object \in IdsOf(graph.objects)

PackageSchema ==
  [t \in {"package", "extension", "interface", "declaration", "flow", "config section",
          "rules", "compatibility rule", "endpoint match", "native", "package graph",
          "package object", "package relationship", "package endpoint"} |->
     CASE t = "package" -> PackageType
       [] t = "extension" -> ExtensionType
       [] t = "interface" -> InterfaceType
       [] t = "declaration" -> DeclarationType
       [] t = "flow" -> FlowType
       [] t = "config section" -> ConfigSectionType
       [] t = "rules" -> RulesType
       [] t = "compatibility rule" -> CompatibilityRuleType
       [] t = "endpoint match" -> EndpointMatchType
       [] t = "native" -> NativeType
       [] t = "package graph" -> PackageGraphType
       [] t = "package object" -> PackageObjectType
       [] t = "package relationship" -> PackageRelationshipType
       [] t = "package endpoint" -> PackageEndpointType]

Field(json, k, missing) == IF k \in DOMAIN json THEN json[k] ELSE missing

(* Somewhere in the object is a path that leaves the package.              *)
Escapes(type, json) ==
  \E part \in AllParts(PackageSchema, type, json) :
    LET s == PartType(PackageSchema, part)
        Given(fields) == fields \cap DOMAIN JsonOf(part)
    IN  \/ \E k \in Given(s.text \cap PathFields) : JsonOf(part)[k] = "outside"
        \/ \E k \in Given(s.block) : JsonOf(part)[k] = "{outside}"

(* Table ids occur once; one that is missing or no text counts as blank.   *)
TablesDistinct(tables) ==
  LET Id(i) == Field(tables[i], "id", Blank)
  IN  \A i, j \in DOMAIN tables : Id(i) = Id(j) /\ Id(i) \notin {Blank, "5"} => i = j

(* Aliases are not blank, and do not depend on upper and lower case.       *)
AliasesFit(aliases) ==
  /\ \A k \in DOMAIN aliases : aliases[k] \notin {Blank, "5"}
  /\ \A k, l \in DOMAIN aliases : Lowercase(k) = Lowercase(l) => aliases[k] = aliases[l]

RulesFit(rules) ==
  \A k \in {"protocol_aliases", "kind_aliases"} \cap DOMAIN rules : AliasesFit(rules[k])

(* Sections that need an extension, those of the config_schema first.      *)
ConfigExtension ==
  [parameters |-> "ipcraft.config.params", tables |-> "ipcraft.config.tables",
   documents |-> "ipcraft.config.documents", files |-> "ipcraft.config.files"]

SectionExtension ==
  [interfaces |-> "ipcraft.interfaces", connection_rules |-> "ipcraft.composition",
   emitters |-> "ipcraft.emitters", flows |-> "ipcraft.flows",
   artifacts |-> "ipcraft.artifacts", diagnostics |-> "ipcraft.diagnostics",
   views |-> "ipcraft.views", graph_config |-> "ipcraft.graph_config"]

ExtensionList(json) == Field(json, "extensions", <<>>)

SectionsDeclared(json) ==
  LET declared == IdsOf(ExtensionList(json))
      config == Field(json, "config_schema", NoFields)
  IN  /\ \A k \in DOMAIN config \cap DOMAIN ConfigExtension : ConfigExtension[k] \in declared
      /\ \A k \in DOMAIN json \cap DOMAIN SectionExtension : SectionExtension[k] \in declared

(* The reader finds nothing to say against the file.                       *)
PackageReadable(json) ==
  /\ Sound(PackageSchema, "package", json)
  /\ DistinctIds(Field(json, "interfaces", <<>>))
  /\ RulesFit(Field(json, "connection_rules", NoFields))
  /\ TablesDistinct(Field(Field(json, "config_schema", NoFields), "tables", <<>>))
  /\ "graph_config" \in DOMAIN json => PackageGraphFits(json.graph_config)
  /\ SectionsDeclared(json)
  /\ ~Escapes("package", json)

(* An extension is needed unless its first declaration says otherwise.     *)
RequiredExtensions(list) ==
  {id \in IdsOf(list) :
     Field(Head(SelectSeq(list, LAMBDA e : e.id = id)), "required", "true") = "true"}

InterfaceOf(json) ==
  [k \in {"id", "kind", "protocol", "role", "direction"} |-> Field(json, k, Blank)]
    @@ [required |-> Field(json, "required", "false") = "true"]

MatchOf(json) ==
  [k \in {"kind", "protocol", "role", "direction"} |-> Field(json, k, Blank)]

RulesOf(json) ==
  [protocolAliases |-> Field(json, "protocol_aliases", NoFields),
   kindAliases |-> Field(json, "kind_aliases", NoFields),
   compatibility |->
     LET rules == Field(json, "compatibility", <<>>)
     IN  [i \in DOMAIN rules |->
            [type |-> rules[i].connection_type, arity |-> rules[i].arity,
             from |-> MatchOf(rules[i].from), to |-> MatchOf(rules[i].to)]]]

(* What readers of packages make of a file without errors.                 *)
SpecOf(json) ==
  [id |-> json.id, version |-> json.version, name |-> json.name,
   extensions |-> IdsOf(ExtensionList(json)),
   required |-> RequiredExtensions(ExtensionList(json)),
   configSchema |-> Field(json, "config_schema", NoFields),
   interfaces |-> LET list == Field(json, "interfaces", <<>>)
                  IN  [i \in DOMAIN list |-> InterfaceOf(list[i])],
   rules |-> RulesOf(Field(json, "connection_rules", NoFields)),
   views |-> Field(json, "views", <<>>),
   editor |-> Field(json, "native", NoFields)]

(***************************************************************************)
(* Directories.  disk tells of each what its ipcraft.json is and which     *)
(* directories it holds, by name.  The file is an object, or missing, or   *)
(* it fails: too large, not to be opened, no JSON object, or one with a    *)
(* key given twice.                                                        *)
(***************************************************************************)
HasPackage(disk, d) == disk[d].file # "missing"

Readable(disk, d) == disk[d].file = "object" /\ PackageReadable(disk[d].json)

VersionKey(json) == <<json.id, json.version>>

(* A root that is a package is read alone, any other is looked into.       *)
PackagesUnder(disk, root) ==
  IF HasPackage(disk, root) THEN <<root>>
  ELSE SelectSeq(disk[root].children, LAMBDA d : HasPackage(disk, d))

(* The collection: every package that can be read and whose version is not *)
(* there yet, and whether there was nothing to complain about.             *)
CollectPackage(disk, so, d) ==
  IF ~Readable(disk, d) THEN [so EXCEPT !.clean = FALSE]
  ELSE IF \E i \in DOMAIN so.packages :
            VersionKey(so.packages[i]) = VersionKey(disk[d].json)
  THEN [so EXCEPT !.clean = FALSE]
  ELSE [so EXCEPT !.packages = Append(@, SpecOf(disk[d].json))]

CollectPackages(disk, root) ==
  IF root \notin DOMAIN disk THEN [packages |-> <<>>, clean |-> FALSE]
  ELSE FoldLeft(LAMBDA so, d : CollectPackage(disk, so, d),
                [packages |-> <<>>, clean |-> TRUE], PackagesUnder(disk, root))

(* The packages of an id in exactly the version asked for.                 *)
Resolve(packages, id, version) ==
  SelectSeq(packages, LAMBDA p : id # Blank /\ p.id = id /\ p.version = version)
=============================================================================
