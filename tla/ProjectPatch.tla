---------------------------- MODULE ProjectPatch ----------------------------
(***************************************************************************)
(* The operations of a project patch on a ProjectDesign, and the check a   *)
(* design has to pass before a patch is committed.  An operation maps a    *)
(* design to the design it makes of it, or to Refused.                     *)
(*                                                                         *)
(* A design keeps what these tell apart:                                   *)
(*   packages     the declared packages [id, version], a sequence;         *)
(*   components   [id, package, config, graph]; config is the set of keys  *)
(*                in it, graph the graph_config of its extension data:     *)
(*                objects [id, formed] and relationships [id, ends];       *)
(*   interfaces   the declared interfaces, pairs <<component, interface>>; *)
(*   connections  [id, from, to, attachment, settings]; ends are pairs     *)
(*                <<component, interface>>;                                *)
(*   topologies   [id, fit, parts, attachments]; parts are nodes and links,*)
(*                pairs of "node" or "link" and an id, and fit says that   *)
(*                schema, kind and family agree;                           *)
(*   views        [id, fit, nodes]; nodes are the ids that have a place;   *)
(*   sound        whether all that no operation touches is as it should be *)
(*                (project id and name, extensions, types and packages).   *)
(* A key whose value holds a layout key counts as a layout key; no design  *)
(* starts with one.  Values, types, labels and metadata of components are  *)
(* left out.  An operation whose target, path or payload has not the form  *)
(* it needs has formed = FALSE.                                            *)
(***************************************************************************)
EXTENDS Naturals, Sequences, FiniteSets, SequencesExt

CONSTANTS
  LayoutKeys,   \* x, y, zoom ...: keys that config must not have
  NoVersion,    \* the version of a package named without one
  NotObject,    \* an entry of an endpoint list that is no JSON object
  NoRole,       \* an endpoint that lacks its object or its role
  Refused       \* what an operation returns that does not apply

At(list, id) == SelectInSeq(list, LAMBDA entry : entry.id = id)

Has(list, id) == At(list, id) # 0

Without(list, id) == RemoveAt(list, At(list, id))

(* Replaces the entry of that id, or appends it.                           *)
Upsert(list, entry) ==
  IF Has(list, entry.id) THEN [list EXCEPT ![At(list, entry.id)] = entry]
                         ELSE Append(list, entry)

(* The entries at some positions of a list, in their order.                *)
Kept(list, positions) ==
  LET kept[n \in 0 .. Len(list)] ==
        IF n = 0 THEN << >>
        ELSE IF n \in positions THEN Append(kept[n - 1], list[n])
        ELSE kept[n - 1]
  IN  kept[Len(list)]

-----------------------------------------------------------------------------
(* Components.                                                             *)

(* resolveComponentPackageRef: a package named without version is the      *)
(* declared one of that name, if there is only one.                        *)
Resolve(packages, ref) ==
  LET named == {i \in DOMAIN packages :
                  packages[i].id = ref.id /\ packages[i].version # NoVersion}
  IN  IF ref.version = NoVersion /\ Cardinality(named) = 1
      THEN packages[CHOOSE i \in named : TRUE] ELSE ref

AddComponent(d, component) ==
  IF ~Has(d.components, component.id) /\ component.config \cap LayoutKeys = {}
  THEN [d EXCEPT !.components =
          Append(@, [component EXCEPT !.package = Resolve(d.packages, @)])]
  ELSE Refused

RemoveComponent(d, id) ==
  IF Has(d.components, id) THEN [d EXCEPT !.components = Without(@, id)] ELSE Refused

SetConfig(d, id, key) ==
  IF Has(d.components, id) /\ key \notin LayoutKeys
  THEN [d EXCEPT !.components[At(d.components, id)].config = @ \cup {key}]
  ELSE Refused

UnsetConfig(d, id, key) ==
  IF Has(d.components, id) /\ key \notin LayoutKeys
  THEN [d EXCEPT !.components[At(d.components, id)].config = @ \ {key}]
  ELSE Refused

-----------------------------------------------------------------------------
(* The graph_config of a component.  Each operation reads it anew, which   *)
(* drops whatever entry has not the form the reader wants.                 *)
WellFormed(relationship) ==
  Len(relationship.ends) >= 2 /\ ~Contains(relationship.ends, NoRole)

(* Mutant: an operation that reads nothing but what it is about.           *)
GraphReadEmpty(graph) == [objects |-> graph.objects, relationships |-> << >>]

GraphRead(graph) ==
  LET objects       == graph.objects
      relationships == graph.relationships
  IN  [objects       |-> Kept(objects, {n \in DOMAIN objects : objects[n].formed}),
       relationships |-> Kept(relationships,
                              {n \in DOMAIN relationships : WellFormed(relationships[n])})]

GraphOf(d, id) == GraphRead(d.components[At(d.components, id)].graph)

WithGraph(d, id, graph) == [d EXCEPT !.components[At(d.components, id)].graph = graph]

AddGraphObject(d, id, objectId) ==
  IF Has(d.components, id) /\ ~Has(GraphOf(d, id).objects, objectId)
  THEN WithGraph(d, id, [GraphOf(d, id) EXCEPT !.objects =
                           Append(@, [id |-> objectId, formed |-> TRUE])])
  ELSE Refused

(* The payload needs two entries; those that are no objects are not kept.  *)
ObjectEnds(ends) == Kept(ends, {n \in DOMAIN ends : ends[n] # NotObject})

AddGraphRelationship(d, id, relationship) ==
  IF /\ Has(d.components, id)
     /\ Len(relationship.ends) >= 2
     /\ ~Has(GraphOf(d, id).relationships, relationship.id)
  THEN WithGraph(d, id, [GraphOf(d, id) EXCEPT !.relationships =
                           Append(@, [relationship EXCEPT !.ends = ObjectEnds(@)])])
  ELSE Refused

RemoveGraphRelationship(d, id, relationshipId) ==
  IF Has(d.components, id) /\ Has(GraphOf(d, id).relationships, relationshipId)
  THEN WithGraph(d, id, [GraphOf(d, id) EXCEPT !.relationships = Without(@, relationshipId)])
  ELSE Refused

-----------------------------------------------------------------------------
(* Connections, views and topologies.                                      *)
AddConnection(d, connection) ==
  IF ~Has(d.connections, connection.id)
  THEN [d EXCEPT !.connections = Append(@, connection)] ELSE Refused

RemoveConnection(d, id) ==
  IF Has(d.connections, id) THEN [d EXCEPT !.connections = Without(@, id)] ELSE Refused

(* config.set, metadata.set and class.set: a setting is <<part, key>>.     *)
SetConnection(d, id, setting) ==
  IF Has(d.connections, id)
  THEN [d EXCEPT !.connections[At(d.connections, id)].settings = @ \cup {setting}]
  ELSE Refused

(* view.layout.set with the target "view" takes a whole view, with         *)
(* "view:<id>" only the layout of one.                                     *)
SetView(d, view) == [d EXCEPT !.views = Upsert(@, view)]

SetViewLayout(d, id, nodes) ==
  IF Has(d.views, id)
  THEN [d EXCEPT !.views[At(d.views, id)].nodes = nodes] ELSE Refused

(* The node need not be one of the design.                                 *)
SetNodePosition(d, id, node) ==
  IF Has(d.views, id)
  THEN [d EXCEPT !.views[At(d.views, id)].nodes = @ \cup {node}] ELSE Refused

SetTopology(d, topology) == [d EXCEPT !.topologies = Upsert(@, topology)]

RemoveTopology(d, id) ==
  IF Has(d.topologies, id) THEN [d EXCEPT !.topologies = Without(@, id)] ELSE Refused

-----------------------------------------------------------------------------
Operation(d, o) ==
  IF ~o.formed THEN Refused ELSE
  CASE o.op = "component.add" -> AddComponent(d, o.component)
    [] o.op = "component.remove" -> RemoveComponent(d, o.id)
    [] o.op = "component.config.set" -> SetConfig(d, o.id, o.key)
    [] o.op = "component.config.unset" -> UnsetConfig(d, o.id, o.key)
    [] o.op = "component.graph_object.add" -> AddGraphObject(d, o.id, o.object)
    [] o.op = "component.graph_relationship.add" -> AddGraphRelationship(d, o.id, o.relationship)
    [] o.op = "component.graph_relationship.remove" -> RemoveGraphRelationship(d, o.id, o.relationship)
    [] o.op = "connection.add" -> AddConnection(d, o.connection)
    [] o.op = "connection.remove" -> RemoveConnection(d, o.id)
    [] o.op = "connection.set" -> SetConnection(d, o.id, o.setting)
    [] o.op = "view.set" -> SetView(d, o.view)
    [] o.op = "view.layout.set" -> SetViewLayout(d, o.id, o.nodes)
    [] o.op = "view.node_position.set" -> SetNodePosition(d, o.id, o.node)
    [] o.op = "topology.add_or_update" -> SetTopology(d, o.topology)
    [] o.op = "topology.remove" -> RemoveTopology(d, o.id)
    [] OTHER -> Refused

-----------------------------------------------------------------------------
(* validateProjectDesign reports no issue.                                 *)
DistinctIds(list) ==
  \A i, j \in DOMAIN list : list[i].id = list[j].id => i = j

IdsOf(list) == {list[i].id : i \in DOMAIN list}

(* An interface of an end is looked up only if any interface is declared.  *)
(* Mutant: the far end is not looked at.                                   *)
NearEndIsThere(d, connection) ==
  /\ connection.from[1] \in IdsOf(d.components)
  /\ d.interfaces # {} => connection.from \in d.interfaces

EndsAreThere(d, connection) ==
  \A end \in {connection.from, connection.to} :
    /\ end[1] \in IdsOf(d.components)
    /\ d.interfaces # {} => end \in d.interfaces

ValidComponent(d, component) ==
  /\ component.package \in ToSet(d.packages)
  /\ component.config \cap LayoutKeys = {}

ValidTopology(topology) ==
  /\ topology.fit
  /\ \A i, j \in DOMAIN topology.parts : topology.parts[i] = topology.parts[j] => i = j
  /\ DistinctIds(topology.attachments)

Valid(d) ==
  /\ d.sound
  /\ DistinctIds(d.components) /\ DistinctIds(d.connections)
  /\ DistinctIds(d.topologies) /\ DistinctIds(d.views)
  /\ \A component \in ToSet(d.components) : ValidComponent(d, component)
  /\ \A interface \in d.interfaces : interface[1] \in IdsOf(d.components)
  /\ \A connection \in ToSet(d.connections) :
       ~connection.attachment /\ EndsAreThere(d, connection)
  /\ \A topology \in ToSet(d.topologies) : ValidTopology(topology)
  /\ \A view \in ToSet(d.views) : view.fit
=============================================================================
