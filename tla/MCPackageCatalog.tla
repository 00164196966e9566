-------------------------- MODULE MCPackageCatalog --------------------------
(***************************************************************************)
(* Four families of directories: a package that uses every section beside  *)
(* each that comes of it by spoiling one field; a schema of configs and    *)
(* what comes of it, for many configs; two packages whose interfaces are   *)
(* connected in many ways; and packages that are there twice, in other     *)
(* places, or with views that do not fit.                                  *)
(***************************************************************************)
EXTENDS PackageCatalog, JsonForms

MCHandled == {"ipcraft.interfaces", "ipcraft.views"}

MCQualified == {"noc::mesh"}

MCOutside == {"outside"}

Lowered == ("APB" :> "apb") @@ ("Apb" :> "apb") @@ ("Master" :> "master") @@ (".SV" :> ".sv")

MCLowercase(s) == Field(Lowered, s, s)

SuffixOf == ("a.v" :> ".v") @@ ("a.sv" :> ".sv") @@ ("a.txt" :> ".txt")

MCSuffix(path) == Field(SuffixOf, path, Blank)

MCHalves == ("1" :> 2) @@ ("3" :> 6) @@ ("2.5" :> 5) @@ ("4" :> 8)

-----------------------------------------------------------------------------
(* Parts of packages.                                                      *)
Num(s) == [kind |-> "number", is |-> s]

Txt(s) == [kind |-> "text", is |-> s]

Always(flag) == "(bool)" :> flag

Width == [id |-> "width", type |-> "int", required |-> "true",
          range |-> [min |-> Num("1"), max |-> Num("3")]]

Mode == [id |-> "mode", type |-> "enum", value_type |-> "string",
         values |-> <<Txt("fast"), Txt("slow")>>]

IsFast == [op |-> "eq", left |-> [param |-> "mode"], right |-> [literal |-> Txt("fast")]]

Depth == [id |-> "depth", type |-> "double",
          visible_when |-> Always("true"), enabled_when |-> [op |-> "not", arg |-> Always("false")],
          required_when |-> [op |-> "or", args |-> <<IsFast, [op |-> "exists", param |-> "lib"]>>]]

Lib == [id |-> "lib", type |-> "path"]

FullSchema ==
  [parameters |-> <<Width, Mode, Depth, Lib>>,
   tables |-> <<[id |-> "map", preserve_unknown_columns |-> "false",
                 columns |-> <<[id |-> "name", type |-> "string", required |-> "true"],
                               [id |-> "base", type |-> "int"]>>]>>,
   documents |-> <<[id |-> "doc", format |-> "yaml", preserve_unknown_fields |-> "true",
                    output_path |-> "inside"]>>,
   files |-> <<[id |-> "rtl", kind |-> "verilog", required |-> "false",
                allowed_extensions |-> <<Txt(".v")>>, extensions |-> <<Txt(".SV")>>]>>,
   metadata |-> "{}"]

SmallGraph(ends) ==
  [schema |-> "graph.v1",
   objects |-> <<[id |-> "r0", type |-> "router"], [id |-> "r1", type |-> "router"]>>,
   relationships |-> <<[id |-> "l0", type |-> "link", properties |-> "{..}",
                        endpoints |-> <<[object |-> "r0", role |-> "out"],
                                        [object |-> ends, role |-> "in"]>>]>>]

AllExtensions ==
  FoldSet(LAMBDA id, so : Append(so, IF id \in MCHandled THEN [id |-> id]
                                     ELSE [id |-> id, required |-> "false"]),
          <<>>, {ConfigExtension[k] : k \in DOMAIN ConfigExtension}
                  \cup {SectionExtension[k] : k \in DOMAIN SectionExtension})

Rule == [connection_type |-> "bus", arity |-> "binary",
         from |-> [protocol |-> "apb", role |-> "Master"], to |-> [protocol |-> "apb"]]

FullPackage ==
  [schema |-> "package.v1", id |-> "noc", version |-> "1", name |-> "n",
   extensions |-> AllExtensions,
   interfaces |-> <<[id |-> "out", name |-> "o", kind |-> "bus", protocol |-> "apb",
                     role |-> "master", direction |-> "output", required |-> "false",
                     fanout |-> "1"]>>,
   emitters |-> <<[file |-> "inside", output_path |-> "inside"]>>,
   flows |-> <<[scope |-> "instance"]>>,
   artifacts |-> <<[output_path |-> "inside"]>>,
   views |-> <<[file |-> "noc.xml", module |-> "router"]>>,
   diagnostics |-> "{..}",
   config_schema |-> FullSchema,
   connection_rules |-> [protocol_aliases |-> "APB" :> "apb", compatibility |-> <<Rule>>],
   graph_config |-> SmallGraph("r1"),
   native |-> [max |-> "2",
               modules |-> <<[id |-> "router", interfaces |-> {"p"}, zone |-> Blank, hosts |-> {}],
                             [id |-> "ni", interfaces |-> {}, zone |-> "edge", hosts |-> {"router"}]>>]]

RouterView == [state |-> "well-formed", element |-> "module-view", module |-> "router",
               interfaces |-> {"p"}, zones |-> {"edge"}]

PlainPackage(id, version) ==
  [schema |-> "package.v1", id |-> id, version |-> version, name |-> id]

-----------------------------------------------------------------------------
(* Directories.                                                            *)
Holding(children) ==
  [file |-> "missing", json |-> NoFields, children |-> children, xml |-> NoFields]

Package(json) ==
  [file |-> "object", json |-> json, children |-> <<>>, xml |-> "noc.xml" :> RouterView]

Broken == [file |-> "broken", json |-> NoFields, children |-> <<>>, xml |-> NoFields]

Alone == [connections |-> <<>>, ports |-> <<>>]

ProjectOf(config) ==
  [instances |-> <<[id |-> "i0", package |-> "noc", version |-> "1", config |-> config]>>,
   composition |-> Alone]

FullConfig ==
  [parameters |-> [width |-> Num("1")],
   tables |-> [map |-> [rows |-> <<[name |-> Txt("a"), base |-> Num("1")]>>]],
   documents |-> [doc |-> [format |-> "yaml", content |-> [kind |-> "object", is |-> "{..}"]]],
   files |-> [rtl |-> [path |-> "a.sv"]]]

(* The first family.                                                       *)
OddPackages ==
  Spoiled(PackageSchema, "package", FullPackage)
  \cup {[FullPackage EXCEPT !.graph_config = SmallGraph("r2")],
        [FullPackage EXCEPT !.graph_config.objects[2].id = "r0"],
        [FullPackage EXCEPT !.interfaces = @ \o @],
        [FullPackage EXCEPT !.emitters[1].file = "outside"],
        [FullPackage EXCEPT !.artifacts[1].output_path = "outside"],
        [FullPackage EXCEPT !.diagnostics = "{outside}"],
        [FullPackage EXCEPT !.flows[1].scope = "nowhere"],
        [FullPackage EXCEPT !.extensions = @ \o @],
        [FullPackage EXCEPT !.extensions = Tail(@)],
        [FullPackage EXCEPT !.config_schema.tables = @ \o @],
        [FullPackage EXCEPT !.connection_rules.protocol_aliases = "APB" :> Blank],
        [FullPackage EXCEPT !.connection_rules.protocol_aliases = ("APB" :> "a") @@ ("Apb" :> "b")]}

FileDisks ==
  {[dirs |-> [r |-> Holding(<<"a", "b">>), a |-> Package(json), b |-> Package(PlainPackage("other", "1"))],
    roots |-> {<<"r">>}, searched |-> "r", projects |-> {ProjectOf(FullConfig)}] :
      json \in OddPackages \cup {FullPackage}}

(* The second: schemas and configs.                                        *)
Conditional(condition) == [FullSchema EXCEPT !.parameters = <<Width, Lib>> \o
                             <<("required_when" :> condition) @@ Mode>>]

OddConditions ==
  {Odd, NoFields, [literal |-> Txt("x")], [literal |-> BoolValue("false")],
   [op |-> "exists", param |-> "5"], [op |-> "exists", param |-> "lib"],
   [op |-> "ne", left |-> [param |-> "lib"], right |-> [literal |-> Txt("inside")]],
   [op |-> "eq", left |-> [param |-> Blank], right |-> [param |-> "lib"]],
   [op |-> "eq", left |-> Odd, right |-> [param |-> "lib"]],
   [op |-> "and", args |-> <<>>], [op |-> "and", args |-> NoArray], [op |-> "not", arg |-> Odd],
   [op |-> "and", args |-> <<[op |-> "exists", param |-> "lib"], [op |-> "less"]>>],
   [op |-> "or", args |-> <<[op |-> "not", arg |-> [op |-> "exists", param |-> "lib"]],
                            [op |-> "less"]>>],
   [op |-> "and", args |-> <<[op |-> "exists", param |-> "lib"], Always("true")>>]}

OddSchemas ==
  Spoiled(ConfigTypes, "config schema", FullSchema)
  \cup {Conditional(c) : c \in OddConditions}
  \cup {[FullSchema EXCEPT !.parameters = @ \o @],
        [FullSchema EXCEPT !.parameters[2].values = NoArray],
        [FullSchema EXCEPT !.parameters[2].values = <<Num("1")>>],
        [FullSchema EXCEPT !.parameters[2].value_type = "int64"],
        [FullSchema EXCEPT !.parameters[2] =
           [@ EXCEPT !.value_type = "int64", !.values = <<Num("1"), Num("3")>>]],
        [FullSchema EXCEPT !.files[1].extensions = NoArray],
        [FullSchema EXCEPT !.files[1].extensions = <<Num("1")>>],
        [FullSchema EXCEPT !.files[1].required = "true"],
        [FullSchema EXCEPT !.tables[1].preserve_unknown_columns = "true"],
        [FullSchema EXCEPT !.documents[1].preserve_unknown_fields = "false"]}

Parameters ==
  {NoFields, Odd, [width |-> Num("2.5")], [width |-> Num("4")], [width |-> Txt("1")],
   [width |-> Num("1"), mode |-> Txt("fast")],
   [width |-> Num("1"), mode |-> Txt("fast"), depth |-> Num("2.5")],
   [width |-> Num("1"), mode |-> Txt("none")], [width |-> Num("1"), mode |-> Num("1")],
   [width |-> Num("1"), mode |-> Null],
   [width |-> Num("1"), lib |-> Txt("inside"), depth |-> Num("1")],
   [width |-> Num("1"), lib |-> Txt("inside"), mode |-> Txt("slow")],
   [width |-> Num("1"), lib |-> Txt("outside"), depth |-> Num("1")],
   [width |-> Num("1"), other |-> Num("1")]}

Tables ==
  {NoFields, [map |-> Odd], [map |-> [rows |-> NoArray]], [map |-> [rows |-> <<Odd>>]],
   [map |-> [rows |-> <<[base |-> Num("1")]>>]],
   [map |-> [rows |-> <<[name |-> Num("1")]>>]],
   [map |-> [rows |-> <<[name |-> Txt("a"), extra |-> Null]>>]],
   [map |-> [rows |-> <<>>], other |-> [rows |-> <<[x |-> Num("1")]>>]]}

Documents ==
  {NoFields, [doc |-> Odd], [doc |-> [format |-> "json"]], [doc |-> [format |-> "5"]],
   [doc |-> [content |-> Txt("text")]], [other |-> NoFields]}

Files ==
  {NoFields, [rtl |-> Odd], [rtl |-> NoFields], [rtl |-> [path |-> "5"]],
   [rtl |-> [path |-> "a.txt"]], [rtl |-> [path |-> "outside"]], [other |-> NoFields]}

Configs ==
  {FullConfig, NoFields}
  \cup {[FullConfig EXCEPT !.parameters = p] : p \in Parameters}
  \cup {[FullConfig EXCEPT !.tables = t] : t \in Tables}
  \cup {[FullConfig EXCEPT !.documents = d] : d \in Documents}
  \cup {[FullConfig EXCEPT !.files = f] : f \in Files}

SchemaDisks ==
  {[dirs |-> "a" :> Package([FullPackage EXCEPT !.config_schema = schema]),
    roots |-> {}, searched |-> "a", projects |-> {ProjectOf(config)}] :
      schema \in OddSchemas, config \in Configs}

(* The third: interfaces and connections.                                  *)
Interface(id, protocol, role, direction, required) ==
  [id |-> id, kind |-> "bus", protocol |-> protocol, role |-> role, direction |-> direction,
   required |-> required]

Extension(ids) == [i \in DOMAIN ids |-> [id |-> ids[i]]]

Initiator ==
  PlainPackage("m", "1")
    @@ [extensions |-> Extension(<<"ipcraft.interfaces">>),
        interfaces |-> <<Interface("out", "APB", "Master", "output", "false"),
                         Interface("io", "apb", "master", "input", "false")>>]

Target(protocol, rules) ==
  PlainPackage("s", "1")
    @@ [extensions |-> Extension(<<"ipcraft.interfaces", "ipcraft.composition">>),
        interfaces |-> <<Interface("in", protocol, "slave", "input", "true")>>,
        connection_rules |-> rules]

Rules ==
  {NoFields,
   [compatibility |-> <<Rule>>],
   [compatibility |-> <<[Rule EXCEPT !.arity = "fanout"], [Rule EXCEPT !.connection_type = "link"]>>,
    protocol_aliases |-> "axi" :> "APB"],
   [protocol_aliases |-> ("axi" :> "ahb") @@ ("ahb" :> "axi"), kind_aliases |-> "bus" :> "link"]}

End(instance, interface) == [instance |-> instance, interface |-> interface, role |-> Blank]

Out == End("i0", "out")
In(i) == End(i, "in")

Connection(type, endpoints) == [type |-> type, endpoints |-> endpoints]

Connections ==
  {Connection("bus", <<Out, In("i1")>>), Connection("bus", <<In("i2"), Out>>),
   Connection("bus", <<Out, In("i1"), In("i2")>>), Connection("bus", <<In("i1"), In("i2")>>),
   Connection("bus", <<End("i0", "io"), In("i2")>>), Connection("link", <<Out, In("i2")>>),
   Connection("bus", <<[Out EXCEPT !.role = "sink"], In("i1")>>),
   Connection("bus", <<Out, End("i1", "gone")>>)}

Instance(id, package, version) ==
  [id |-> id, package |-> package, version |-> version, config |-> NoFields]

ConnectedProjects(instances) ==
  {[instances |-> instances, composition |-> [connections |-> connections, ports |-> ports]] :
     connections \in BoundedSeq(Connections, 2),
     ports \in {<<>>, <<In("i2")>>, <<In("i3")>>}}

ConnectionDisks ==
  {[dirs |-> [r |-> Holding(<<"a", "b">>), a |-> Package(Initiator),
              b |-> Package(Target(protocol, rules))],
    roots |-> {<<"r">>}, searched |-> "r",
    projects |-> {project}] :
     protocol \in {"apb", "axi"}, rules \in Rules,
     project \in ConnectedProjects(<<Instance("i0", "m", "1"), Instance("i1", "s", "1"),
                                     Instance("i2", "s", "1")>>)}

(* The fourth: what is where, and which views there are.                   *)
Mesh(id, version, module) ==
  PlainPackage(id, version)
    @@ [extensions |-> Extension(<<"vendor.tool">>),
        native |-> [max |-> "1",
                    modules |-> <<[id |-> module, interfaces |-> {}, zone |-> Blank, hosts |-> {}],
                                  Odd>>]]

Viewed(xml) == [Package(FullPackage) EXCEPT !.xml = xml, !.children = <<"d">>]

Views ==
  {"noc.xml" :> RouterView, NoFields}
  \cup {"noc.xml" :> [RouterView EXCEPT ![k] = v] :
          k \in {"state", "element", "module"}, v \in {"ni"}}
  \cup {"noc.xml" :> [RouterView EXCEPT !.interfaces = {"q"}],
        "noc.xml" :> [RouterView EXCEPT !.zones = {Blank}],
        "noc.xml" :> [RouterView EXCEPT !.zones = {"corner"}]}

Places == {<<"r1">>, <<"r1", "r2">>, <<"r2", "r1">>, <<"a", "none", "r1">>}

PlaceDisk(xml, c, searched) ==
  [dirs |-> [r1 |-> Holding(<<"a", "b">>), r2 |-> Holding(<<"c">>), a |-> Viewed(xml),
             b |-> Package(Mesh("other", "1", "ni")), c |-> c,
             d |-> Package(Mesh("inner", "1", "noc::mesh"))],
   roots |-> Places, searched |-> searched,
   projects |-> {[instances |-> <<Instance("i0", id, version)>>, composition |-> Alone] :
                   <<id, version>> \in {<<"noc", "1">>, <<"noc", "2">>, <<"inner", "1">>}}]

PlaceDisks ==
  {PlaceDisk(xml, Broken, "r1") : xml \in Views}
  \cup {PlaceDisk("noc.xml" :> RouterView, c, searched) :
          c \in {Package(Mesh("noc", version, module)) :
                   version \in {"1", "2"}, module \in {"router", "noc::mesh"}}
                \cup {Package(Mesh("other", "1", "ni")), Package(Mesh("third", "1", "noc::mesh")),
                      Holding(<<>>)},
          searched \in {"r1", "r2", "none"}}

MCDisks == FileDisks \cup SchemaDisks \cup ConnectionDisks \cup PlaceDisks

(* A bound: only what is where changes.                                    *)
MCRevised(d) ==
  IF d.roots = Places
  THEN {PlaceDisk(NoFields, Package(Mesh("third", "1", "noc::mesh")), "r1"),
        PlaceDisk("noc.xml" :> RouterView, Package(Mesh("noc", "2", "gate")), "r1")}
  ELSE {}
=============================================================================
