--------------------------- MODULE MCDesignEditing --------------------------
(***************************************************************************)
(* Two components of one declared package, one connection, one view and    *)
(* one topology; patches as the node editor and the topology presets send  *)
(* them, one for each operation, and as the tests of the patch API do:     *)
(* several operations, of which a late one may fail.                       *)
(***************************************************************************)
EXTENDS DesignEditing, TLC

CONSTANTS a, b, k, x, iface, o1, o2, pkg, other, v1

MCLayoutKeys == {x}

EmptyGraph == [objects |-> << >>, relationships |-> << >>]

Component(id, package, config) ==
  [id |-> id, package |-> [id |-> package, version |-> v1],
   config |-> config, graph |-> EmptyGraph]

NewB(package) ==
  [Component(b, package, {}) EXCEPT !.package.version = NoVersion]

Wire(attachment) ==
  [id |-> "wire", from |-> <<a, iface>>, to |-> <<b, iface>>,
   attachment |-> attachment, settings |-> {}]

View(fit) == [id |-> "graph", fit |-> fit, nodes |-> {}]

Topology(attachments) ==
  [id |-> "mesh", fit |-> TRUE, parts |-> <<<<"node", o1>>, <<"link", o1>>>>, attachments |-> attachments]

Attachment(component) == [id |-> "slot", component |-> component]

Relationship(id, ends) == [id |-> id, ends |-> ends]

(* A project with one component; one whose components are wired over       *)
(* declared interfaces; one with two components of one id, as redo can     *)
(* leave it, and entries of a graph_config the reader will not accept.     *)
Plain ==
  [packages |-> <<[id |-> pkg, version |-> v1]>>,
   components |-> <<Component(a, pkg, {})>>, interfaces |-> {},
   connections |-> << >>, topologies |-> << >>, views |-> << >>, sound |-> TRUE]

Wired ==
  [Plain EXCEPT !.components = @ \o <<Component(b, pkg, {k})>>,
                !.interfaces = {<<a, iface>>, <<b, iface>>},
                !.connections = <<Wire(FALSE)>>]

OddGraph ==
  [objects |-> <<[id |-> o1, formed |-> FALSE]>>,
   relationships |-> <<Relationship("link", <<o1, o2>>), Relationship("stub", <<o1, NoRole>>)>>]

Doubled ==
  [Plain EXCEPT !.components =
     <<[Component(a, pkg, {}) EXCEPT !.graph = OddGraph], Component(a, pkg, {k})>>]

MCSeeds == {Plain, Wired, Doubled}

Op(name, id) == [op |-> name, id |-> id, formed |-> TRUE]

AddB      == [op |-> "component.add", component |-> NewB(pkg), formed |-> TRUE]
AddOther  == [AddB EXCEPT !.component = NewB(other)]
AddPlaced == [AddB EXCEPT !.component.config = {x}]
SetKey    == Op("component.config.set", a) @@ [key |-> k]
SetX      == Op("component.config.set", a) @@ [key |-> x]
AddObject == Op("component.graph_object.add", a) @@ [object |-> o1]
AddLink   == Op("component.graph_relationship.add", a)
               @@ [relationship |-> Relationship("link", <<o1, o2>>)]
AddStub   == Op("component.graph_relationship.add", a)
               @@ [relationship |-> Relationship("stub", <<o1, NotObject>>)]
AddWire   == [op |-> "connection.add", connection |-> Wire(FALSE), formed |-> TRUE]
SetGraph  == [op |-> "view.set", view |-> View(TRUE), formed |-> TRUE]
Place     == Op("view.node_position.set", "graph") @@ [node |-> o1]
SetMesh   == [op |-> "topology.add_or_update", topology |-> Topology(<<Attachment(a)>>), formed |-> TRUE]

MCPatches ==
  { <<AddB, AddWire>>,
    <<AddB, AddB>>,
    <<AddPlaced>>,
    <<SetKey, AddOther>>,
    <<SetKey, SetX>>,
    <<SetKey, Op("component.config.unset", a) @@ [key |-> k], SetKey>>,
    <<Op("component.remove", a)>>,
    <<Op("connection.remove", "wire"), Op("component.remove", b)>>,
    <<Op("component.remove", b)>>,
    <<AddObject, SetGraph, Place>>,
    <<AddObject, Place>>,
    <<AddLink>>,
    <<AddStub>>,
    <<Op("component.graph_relationship.remove", a) @@ [relationship |-> "link"]>>,
    <<[AddWire EXCEPT !.connection = Wire(TRUE)]>>,
    <<Op("connection.set", "wire") @@ [setting |-> <<"metadata", "class">>]>>,
    <<[SetGraph EXCEPT !.view = View(FALSE)]>>,
    <<Op("view.layout.set", "graph") @@ [nodes |-> {o1, o2}], [SetMesh EXCEPT !.formed = FALSE]>>,
    <<SetMesh>>,
    <<SetMesh, [SetMesh EXCEPT !.topology = Topology(<<Attachment(a), Attachment(b)>>)]>>,
    <<Op("topology.remove", "mesh"), Op("component.unknown", a)>>,
    <<Op("topology.remove", "mesh"), SetGraph>> }
=============================================================================
