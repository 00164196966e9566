---------------------------- MODULE LegacyProject ----------------------------
(***************************************************************************)
(* The project files of an earlier editor, which ProjectReader still reads *)
(* and ProjectWriter never writes: instances with bundled configs, a       *)
(* composition of connections and external ports, a layout.  Any of the    *)
(* reader's refusals refuses the whole file.                               *)
(*                                                                         *)
(* A graph_config of null is not told apart from none.                     *)
(***************************************************************************)
EXTENDS FlatProject

LegacyEndpointType ==
  [Plain EXCEPT !.text = {"instance", "interface", "port", "role"}, !.block = {"properties"},
                !.must = {"instance", "interface"},
                !.filled = {"instance", "interface", "port", "role"}]

LegacyConnectionType ==
  [Plain EXCEPT !.text = {"id", "type", "source"}, !.block = {"properties", "native"},
                !.list = [endpoints |-> "endpoint"],
                !.must = {"id", "endpoints"}, !.filled = {"id", "type", "source"},
                !.enum = [source |-> {"user", "generated", "imported"}],
                !.pairs = {"endpoints"}]

ExternalPortType ==
  [Plain EXCEPT !.text = {"id", "name"}, !.block = {"properties", "native"},
                !.part = [interface |-> "endpoint"],
                !.must = {"id"}, !.filled = {"id"}, !.checked = {"name"}]

CompositionType ==
  [Plain EXCEPT !.list = [connections |-> "connection", external_ports |-> "external port",
                          groups |-> "anything"],
                !.block = {"properties", "native"}]

MigrationType ==
  [Plain EXCEPT !.text = {"from_schema", "from_version"},
                !.block = {"preserved", "metadata", "native"},
                !.checked = {"from_schema", "from_version"}]

(* The field named project.                                                *)
HeadType ==
  [Plain EXCEPT !.text = {"id", "name", "description"}, !.block = {"display", "native"},
                !.map = {"metadata"}, !.must = {"id", "name"},
                !.filled = {"id", "name"}, !.checked = {"description"}]

PackageRefType ==
  [Plain EXCEPT !.text = {"id", "version"}, !.must = {"id", "version"},
                !.filled = {"id", "version"}]

BundleType ==
  [Plain EXCEPT !.map = {"parameters"},
                !.block = {"tables", "documents", "files", "preserved"}, !.whole = TRUE]

DiagnosticsType ==
  [Plain EXCEPT !.text = {"schema"}, !.list = [records |-> "diagnostic"],
                !.must = {"schema", "records"}, !.enum = [schema |-> {"diagnostics.v1"}]]

DiagnosticType ==
  [Plain EXCEPT !.text = {"severity", "source", "rule_id", "category", "message"},
                !.block = {"details"}, !.list = [locations |-> "location"],
                !.must = {"severity", "source", "rule_id", "message", "locations"},
                !.filled = {"severity", "source", "rule_id"}, !.checked = {"message"},
                !.enum = [severity |-> {"error", "warning", "info"}]]

LocationType ==
  [Plain EXCEPT !.text = {"kind"}, !.must = {"kind"}, !.filled = {"kind"}, !.free = TRUE]

InstanceType ==
  [Plain EXCEPT !.text = {"id", "display_name"}, !.map = {"native"},
                !.block = {"last_runs", "artifacts", "view"},
                !.part = [package |-> "package", config |-> "bundle",
                          graph_config |-> "graph", diagnostics |-> "diagnostics"],
                !.must = {"id", "package"}, !.filled = {"id"}, !.checked = {"display_name"}]

RootType ==
  [Plain EXCEPT !.text = {"schema"}, !.block = {"artifacts", "native"},
                !.list = [instances |-> "instance"],
                !.part = [project |-> "head", composition |-> "composition",
                          layout |-> "anything", diagnostics |-> "diagnostics",
                          migration |-> "migration"],
                !.must = {"schema", "project"}, !.enum = [schema |-> {V1}]]

LegacySchema ==
  [t \in DOMAIN GraphSchema \cup
         {"root", "head", "instance", "package", "bundle", "diagnostics", "diagnostic",
          "location", "composition", "connection", "endpoint", "external port",
          "migration", "anything"} |->
     CASE t \in DOMAIN GraphSchema -> GraphSchema[t]
       [] t = "root" -> RootType
       [] t = "head" -> HeadType
       [] t = "instance" -> InstanceType
       [] t = "package" -> PackageRefType
       [] t = "bundle" -> BundleType
       [] t = "diagnostics" -> DiagnosticsType
       [] t = "diagnostic" -> DiagnosticType
       [] t = "location" -> LocationType
       [] t = "composition" -> CompositionType
       [] t = "connection" -> LegacyConnectionType
       [] t = "endpoint" -> LegacyEndpointType
       [] t = "external port" -> ExternalPortType
       [] t = "migration" -> MigrationType
       [] t = "anything" -> [Plain EXCEPT !.free = TRUE]]

-----------------------------------------------------------------------------
HasInterface(port) == port.interface.instance # ""

(* The ends of connections and of external ports are instances of the file.*)
CompositionFits(composition, ids) ==
  /\ DistinctIds(composition.connections) /\ DistinctIds(composition.external_ports)
  /\ \A c \in ToSet(composition.connections) :
       \A end \in ToSet(c.endpoints) : end.instance \in ids
  /\ \A port \in ToSet(composition.external_ports) :
       HasInterface(port) => port.interface.instance \in ids

(* The graph_config of an instance, of which NoFields is none.             *)
InstanceFits(i) == i.graph_config = NoFields \/ GraphFits(i.graph_config)

(* The legacy branch of ProjectReader::readFile; NoFields is no project.   *)
ReadLegacy(json) ==
  IF ~Sound(LegacySchema, "root", json) THEN NoFields
  ELSE LET root == Read(LegacySchema, "root", json)
       IN  IF /\ DistinctIds(root.instances)
              /\ \A i \in ToSet(root.instances) : InstanceFits(i)
              /\ CompositionFits(root.composition, IdsOf(root.instances))
           THEN root ELSE NoFields
=============================================================================
