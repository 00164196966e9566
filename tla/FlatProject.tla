----------------------------- MODULE FlatProject -----------------------------
(***************************************************************************)
(* The project files of today: ProjectDocumentV1 reads an object whose     *)
(* fields are lists of packages, components, connections and so on into a  *)
(* ProjectDesign and writes a ProjectDesign as one.  A design is kept here *)
(* as what Read makes of its file.                                         *)
(*                                                                         *)
(* Nodes and links of a topology, diagnostics and artifacts are kept as    *)
(* they are.  Of the objects inside components and views only those are    *)
(* told apart that other code looks into.                                  *)
(***************************************************************************)
EXTENDS GraphConfigs, JsonForms

V1 == "project.v1"

PackageType == [Plain EXCEPT !.text = {"id", "version"}, !.always = {"id", "version"}]

ComponentType ==
  [Plain EXCEPT !.text = {"id", "type", "packageRef"}, !.block = {"identity"},
                !.map = {"config", "metadata", "extensionData"}, !.always = {"id"}]

InterfaceType ==
  [Plain EXCEPT !.text = {"id", "ownerComponentId", "type", "role", "direction",
                          "protocol", "clockRef", "resetRef"},
                !.block = {"config", "metadata"}, !.always = {"id"}]

EndpointType ==
  [Plain EXCEPT !.text = {"component", "interface"}, !.always = {"component", "interface"}]

(* A kind that is not there is that of an interface; a blank one is kept   *)
(* blank and not written.                                                  *)
ConnectionType ==
  [Plain EXCEPT !.text = {"id", "kind"}, !.block = {"config", "constraints"},
                !.map = {"metadata"},
                !.part = [from |-> "endpoint", to |-> "endpoint"],
                !.always = {"id", "from", "to"}, !.defaults = [kind |-> "interface"]]

AttachmentType ==
  [Plain EXCEPT !.text = {"id", "topologyId", "componentRef", "interfaceRef", "adapterRef"},
                !.block = {"attachmentPoint", "config"}, !.always = {"id"}]

(* A topology of any schema but the parametric one.                        *)
TopologyType ==
  [Plain EXCEPT !.text = {"id", "schema", "ownerComponentId", "kind", "family", "providerRef"},
                !.block = {"parameters", "constraints", "routing", "metadata"},
                !.list = [nodes |-> "anything", links |-> "anything",
                          attachments |-> "attachment"],
                !.always = {"id", "nodes", "links", "attachments"},
                !.variants = [p \in {"parametric.v1", "graph.v1"} |->
                                IF p = "graph.v1" THEN "graph topology"
                                                  ELSE "parametric topology"]]

GraphTopologyType == [TopologyType EXCEPT !.must = {"nodes", "links"}]

ParametricTopologyType ==
  [TopologyType EXCEPT !.list = [attachments |-> "attachment"], !.must = {"parameters"},
                       !.always = {"id", "parameters", "attachments"}]

ViewType ==
  [Plain EXCEPT !.text = {"id", "schema", "kind", "targetRef", "providerRef", "sourceRef"},
                !.block = {"templates", "portGrouping", "labels", "badges", "propertyGroups",
                           "layoutPreference", "interactionAffordances",
                           "diagnosticsOverlay", "icons", "presentationState"},
                !.map = {"layout", "metadata"}, !.always = {"id"}]

(* version is a number: "" stands for zero.                                *)
ExtensionType ==
  [Plain EXCEPT !.text = {"ownerPackageId", "schemaId", "version"},
                !.block = {"data", "validationState"}]

Lists ==
  [packages |-> "package", components |-> "component", interfaces |-> "interface",
   connections |-> "connection", topologies |-> "topology", views |-> "view",
   diagnostics |-> "anything", artifacts |-> "anything", extensions |-> "extension"]

(* Mutant: lists that are empty are left out.                              *)
ProjectWithoutEmptyLists ==
  [Plain EXCEPT !.text = {"schema", "id", "name"}, !.block = {"constraints"},
                !.map = {"metadata"}, !.list = Lists,
                !.must = {"packages", "components"}, !.enum = [schema |-> {V1}],
                !.always = {"schema", "id", "name"}]

ProjectType ==
  [Plain EXCEPT !.text = {"schema", "id", "name"}, !.block = {"constraints"},
                !.map = {"metadata"}, !.list = Lists,
                !.must = {"packages", "components"}, !.enum = [schema |-> {V1}],
                !.always = {"schema", "id", "name"} \cup DOMAIN Lists]

FlatSchema ==
  [t \in {"project", "endpoint", "attachment", "graph topology", "parametric topology"}
         \cup {Lists[k] : k \in DOMAIN Lists} |->
     CASE t = "project" -> ProjectType
       [] t = "package" -> PackageType
       [] t = "component" -> ComponentType
       [] t = "interface" -> InterfaceType
       [] t = "connection" -> ConnectionType
       [] t = "endpoint" -> EndpointType
       [] t = "topology" -> TopologyType
       [] t = "graph topology" -> GraphTopologyType
       [] t = "parametric topology" -> ParametricTopologyType
       [] t = "attachment" -> AttachmentType
       [] t = "view" -> ViewType
       [] t = "extension" -> ExtensionType
       [] t = "anything" -> [Plain EXCEPT !.free = TRUE]]

-----------------------------------------------------------------------------
(* validateProjectDesign.                                                  *)
NoneBlank(record, fields) == \A k \in fields : record[k] # ""

PackageKey(id, version) == id \o "@" \o version

LayoutKeys == {"x", "y", "node_width", "node_height", "collapsed", "waypoints", "zoom", "pan"}

(* Keys of the config and of the parameters in it; other objects in it are *)
(* not looked into here.                                                   *)
KeysOf(config) ==
  DOMAIN config \cup (IF "parameters" \in DOMAIN config THEN DOMAIN config.parameters ELSE {})

ComponentFits(d, c) ==
  /\ NoneBlank(c, {"id", "type", "packageRef"})
  /\ c.packageRef \in {PackageKey(p.id, p.version) : p \in ToSet(d.packages)}
  /\ KeysOf(c.config) \cap LayoutKeys = {}

InterfaceFits(d, i) ==
  /\ NoneBlank(i, {"id", "ownerComponentId", "type", "role", "direction", "protocol"})
  /\ i.ownerComponentId \in IdsOf(d.components)

(* If any interface is declared, that of an end has to be.                 *)
ConnectionFits(d, c) ==
  LET declared == {<<i.ownerComponentId, i.id>> : i \in ToSet(d.interfaces)}
  IN  /\ c.id # "" /\ c.kind # "attachment"
      /\ \A end \in {c.from, c.to} :
           /\ NoneBlank(end, {"component", "interface"})
           /\ end.component \in IdsOf(d.components)
           /\ declared # {} => <<end.component, end.interface>> \in declared

(* Ids of nodes and links that are not given are not compared.             *)
NoIdTwice(items) ==
  \A i, j \in DOMAIN items :
    (/\ {"id"} \subseteq DOMAIN items[i] \cap DOMAIN items[j]
     /\ items[i].id = items[j].id) => i = j

TopologyFits(t) ==
  /\ NoneBlank(t, {"id", "kind"})
  /\ \/ t.schema = "parametric.v1" /\ t.kind = "parametric" /\ t.family # ""
     \/ /\ t.schema = "graph.v1" /\ t.kind \in {"explicit_graph", "expanded_parametric"}
        /\ NoIdTwice(t.nodes) /\ NoIdTwice(t.links)
  /\ DistinctIds(t.attachments)
  /\ \A a \in ToSet(t.attachments) : a.id # ""

ViewFits(v) == NoneBlank(v, {"id", "kind", "targetRef", "providerRef"}) /\ v.schema = "view.v1"

ExtensionFits(e) == NoneBlank(e, {"ownerPackageId", "schemaId", "version"}) /\ e.data # "{}"

Valid(d) ==
  /\ NoneBlank(d, {"id", "name"})
  /\ \A p \in ToSet(d.packages) : NoneBlank(p, {"id", "version"})
  /\ \A k \in {"components", "connections", "topologies", "views"} : DistinctIds(d[k])
  /\ \A c \in ToSet(d.components) : ComponentFits(d, c)
  /\ \A i \in ToSet(d.interfaces) : InterfaceFits(d, i)
  /\ \A c \in ToSet(d.connections) : ConnectionFits(d, c)
  /\ \A t \in ToSet(d.topologies) : TopologyFits(t)
  /\ \A v \in ToSet(d.views) : ViewFits(v)
  /\ \A e \in ToSet(d.extensions) : ExtensionFits(e)

-----------------------------------------------------------------------------
(* ProjectDocumentV1::readObject; NoFields is no design.                   *)
ReadFlat(json) ==
  IF ~Sound(FlatSchema, "project", json) THEN NoFields
  ELSE LET d == Read(FlatSchema, "project", json)
       IN  IF Valid(d) THEN d ELSE NoFields

(* ProjectDocumentV1::writeObject.                                         *)
WriteFlat(d) == Write(FlatSchema, "project", [d EXCEPT !.schema = V1])
=============================================================================
