-------------------------- MODULE EditorProjection --------------------------
(***************************************************************************)
(* How the graph the node editor works on comes about from the project's   *)
(* design, and the scene from the graph.                                   *)
(*                                                                         *)
(* A design keeps, of each component, its graph_config: NoGraph or         *)
(* [objects, relationships], where objects are [id, type, fits] and        *)
(* relationships [id, ends, class, status]; of the view "graph" the nodes  *)
(* that are expanded and those whose place is no whole number; and the     *)
(* topologies presets have made.  fits is FALSE for an object with a       *)
(* parameter its type does not know.                                       *)
(***************************************************************************)
EXTENDS ConnectionRules

CONSTANTS
  NoGraph,        \* a component without graph_config
  OwnType(_),     \* the module type a component is of
  Misfits,        \* components configured with what is no parameter of it
  HostTypes,      \* types with the graph role host
  AttachedTypes,  \* types with the graph role attached
  Attachments,    \* <<type, port>>: ports in an attachment zone
  Collapsible,    \* types that support collapsing
  WholePlaced     \* types that declare their coordinates as int

(* What is attached is not itself a host; the editor's restoring of a      *)
(* host's modules would call itself.                                       *)
ASSUME EditorTypesAssumption ==
  AttachedTypes \cap Collapsible = {}

-----------------------------------------------------------------------------
(* projectDesignIntoEditorProjectionFields: a component without            *)
(* graph_config is a module of its own, with the component's id.           *)
OwnModule(i) == [id |-> i, type |-> OwnType(i), fits |-> i \notin Misfits]

ObjectsOf(design, i) ==
  IF design.graph[i] = NoGraph THEN <<OwnModule(i)>> ELSE design.graph[i].objects

RelationshipsOf(design, i) ==
  IF design.graph[i] = NoGraph THEN <<>> ELSE design.graph[i].relationships

(* graphConfigFromJsonOrDefault, by which a patch edits a graph_config.    *)
GraphConfigOf(design, i) ==
  IF design.graph[i] = NoGraph THEN [objects |-> <<>>, relationships |-> <<>>]
  ELSE design.graph[i]

Record(design, i, object) ==
  [id |-> object.id, instance |-> i, type |-> object.type,
   fits |-> object.fits, expanded |-> object.id \in design.expanded,
   whole |-> object.id \notin design.fractional]

(* The records of the modules: those of their own come first.              *)
RecordsOf(design, i) ==
  [n \in DOMAIN ObjectsOf(design, i) |-> Record(design, i, ObjectsOf(design, i)[n])]

ModuleRecords(design) ==
  LET Graphless(i)  == design.graph[i] = NoGraph
      Own(i)        == IF Graphless(i) THEN RecordsOf(design, i) ELSE <<>>
      Configured(i) == IF Graphless(i) THEN <<>> ELSE RecordsOf(design, i)
      is            == design.components
  IN  FlattenSeq([n \in DOMAIN is |-> Own(is[n])]) \o
      FlattenSeq([n \in DOMAIN is |-> Configured(is[n])])

ConnectionRecords(design) ==
  FlattenSeq([n \in DOMAIN design.components |->
                RelationshipsOf(design, design.components[n])])

-----------------------------------------------------------------------------
(* GraphProjectSerializer::loadProject.  The first pass looks at the       *)
(* records alone.                                                          *)
ParametersFit(record) ==
  /\ record.fits
  /\ record.type \in WholePlaced => record.whole
  /\ record.expanded => record.type \in Collapsible

RecordsFit(modules, connections) ==
  LET TypesOf(id) == {m.type : m \in {n \in ToSet(modules) : n.id = id}}
  IN  /\ \A m, n \in DOMAIN modules : modules[m].id = modules[n].id => m = n
      /\ \A m \in DOMAIN modules : ParametersFit(modules[m])
      /\ \A m, n \in DOMAIN connections :
           connections[m].id = connections[n].id => m = n
      /\ \A n \in DOMAIN connections : \A k \in 1..2 :
           LET end == connections[n].ends[k]
           IN  \E type \in TypesOf(end[1]) : end[2] \in Ports(type)

ModuleOf(record) ==
  [instance |-> record.instance, type |-> record.type, expanded |-> record.expanded]

(* instantiateModule for each record, in the order of the records.         *)
ModulesOf(records) ==
  LET order     == [n \in DOMAIN records |-> records[n].id]
      Module(id) == ModuleOf(records[CHOOSE n \in DOMAIN order : order[n] = id])
  IN  [order |-> order, modules |-> [id \in ToSet(order) |-> Module(id)],
       connections |-> <<>>]

Connected(record, source, target) ==
  [id |-> record.id, source |-> source, target |-> target,
   class |-> record.class, status |-> record.status]

(* Mutant: a record that fits only turned round is kept as it is written.  *)
AddAsWritten(loading, record) ==
  LET Fits(source, target) ==
        PortToPort(loading.graph, source, target, record.class) # {}
      a == record.ends[1]
      b == record.ends[2]
  IN  IF loading.ok /\ (Fits(a, b) \/ Fits(b, a))
      THEN [loading EXCEPT !.graph.connections = Append(@, Connected(record, a, b))]
      ELSE [loading EXCEPT !.ok = FALSE]

(* populateGraph takes the connections one by one, each by the rules for   *)
(* the graph with those before it, turned round when it fits only so.      *)
AddRecord(loading, record) ==
  LET Fits(source, target) ==
        PortToPort(loading.graph, source, target, record.class) # {}
      a == record.ends[1]
      b == record.ends[2]
      Take(source, target) ==
        [loading EXCEPT !.graph.connections = Append(@, Connected(record, source, target))]
  IN  IF ~loading.ok THEN loading
      ELSE IF Fits(a, b) THEN Take(a, b)
      ELSE IF Fits(b, a) THEN Take(b, a)
      ELSE [loading EXCEPT !.ok = FALSE]

Populated(modules, connections) ==
  LET loading[n \in 0 .. Len(connections)] ==
        IF n = 0 THEN [ok |-> TRUE, graph |-> ModulesOf(modules)]
        ELSE AddRecord(loading[n - 1], connections[n])
  IN  loading[Len(connections)]

(* Whether the design's project can be loaded, and the graph it makes.     *)
Loaded(design) ==
  LET modules     == ModuleRecords(design)
      connections == ConnectionRecords(design)
  IN  IF RecordsFit(modules, connections) THEN Populated(modules, connections)
      ELSE [ok |-> FALSE]

-----------------------------------------------------------------------------
(* The scene: the nodes and edges the node editor shows, as ids of modules *)
(* and connections.  Only those of the active instance are shown.          *)
EmptyView == [nodes |-> {}, edges |-> {}]

Belongs(graph, active, id) == graph.modules[id].instance = active

ConnectionBelongs(graph, active, c) ==
  Belongs(graph, active, c.source[1]) /\ Belongs(graph, active, c.target[1])

(* ensureConnectionInView asks for the nodes alone, so that those of a list *)
(* may be taken at once.                                                   *)
EnsureConnections(graph, active, view, connections) ==
  [view EXCEPT !.edges = @ \cup
     {c.id : c \in {d \in connections : /\ ConnectionBelongs(graph, active, d)
                                       /\ {d.source[1], d.target[1]} \subseteq view.nodes}}]

TypeWith(graph, id) == graph.modules[id].type

(* isEndpointAttachmentConnection: the modules <<host, attached>> of a     *)
(* connection that attaches one to the other, in either direction.         *)
Attaches(graph, c, host, attached) ==
  /\ {<<host, attached>>, <<attached, host>>} \cap {<<c.source[1], c.target[1]>>} # {}
  /\ TypeWith(graph, host) \in HostTypes
  /\ TypeWith(graph, attached) \in AttachedTypes
  /\ \A end \in {c.source, c.target} :
       <<TypeWith(graph, end[1]), end[2]>> \in Attachments

OtherEnd(c, id) == IF c.source[1] = id THEN c.target[1] ELSE c.source[1]

(* Without a node go the edges at it.                                      *)
HideNodes(graph, view, ids) ==
  [nodes |-> view.nodes \ ids,
   edges |-> view.edges \
     {c.id : c \in {d \in ToSet(graph.connections) :
                      {d.source[1], d.target[1]} \cap ids # {}}}]

(* Mutant: the attached modules come back without their connections.       *)
ExpandedWithoutEdges(graph, active, view, attached, connections) ==
  [view EXCEPT !.nodes = @ \cup attached]

ApplyExpanded(graph, active, view, attached, connections) ==
  EnsureConnections(graph, active, [view EXCEPT !.nodes = @ \cup attached], connections)

ApplyCollapsed(graph, active, view, attached, connections) ==
  EnsureConnections(graph, active, HideNodes(graph, view, attached), connections)

(* collectModulePresentationState: the connections at a module, those that *)
(* attach others to it, and these.                                         *)
ConnectionsAt(graph, active, host) ==
  {c \in ToSet(graph.connections) :
     ConnectionBelongs(graph, active, c) /\ host \in {c.source[1], c.target[1]}}

AttachmentsAt(graph, active, host) ==
  {c \in ConnectionsAt(graph, active, host) : Attaches(graph, c, host, OtherEnd(c, host))}

AttachedTo(graph, active, host) ==
  {OtherEnd(c, host) : c \in AttachmentsAt(graph, active, host)}

(* refreshModulePresentation: a collapsed host absorbs what is attached.   *)
Presentation(graph, active, view, host) ==
  LET atHost   == ConnectionsAt(graph, active, host)
      attached == AttachedTo(graph, active, host)
      hidden   == [view EXCEPT !.edges = @ \ {c.id : c \in atHost}]
  IN  IF TypeWith(graph, host) \notin Collapsible THEN view
      ELSE IF graph.modules[host].expanded
      THEN ApplyExpanded(graph, active, hidden, attached, atHost)
      ELSE ApplyCollapsed(graph, active, hidden, attached,
                          atHost \ AttachmentsAt(graph, active, host))

EnsureModule(graph, active, view, id) ==
  IF ~Belongs(graph, active, id) \/ id \in view.nodes THEN view
  ELSE Presentation(graph, active, [view EXCEPT !.nodes = @ \cup {id}], id)

(* onConnectionAdded, for the last connection of the graph.                *)
ShowAdded(graph, active, view, c) ==
  LET shown == EnsureConnections(graph, active, view, {c})
      hosts == {h \in {c.source[1], c.target[1]} : Attaches(graph, c, h, OtherEnd(c, h))}
  IN  IF hosts = {} THEN shown
      ELSE Presentation(graph, active, shown, CHOOSE h \in hosts : TRUE)

(* The scene follows signals one by one, each in the graph there is then:  *)
(* a module or a connection came, or a host is to be shown once more.      *)
Signal(kind, graph, what) == [kind |-> kind, graph |-> graph, what |-> what]

Follow(active, view, signal) ==
  CASE signal.kind = "module"     -> EnsureModule(signal.graph, active, view, signal.what)
    [] signal.kind = "connection" -> ShowAdded(signal.graph, active, view, signal.what)
    [] signal.kind = "host"       -> Presentation(signal.graph, active, view, signal.what)

Followed(active, start, signals) ==
  LET view[n \in 0 .. Len(signals)] ==
        IF n = 0 THEN start ELSE Follow(active, view[n - 1], signals[n])
  IN  view[Len(signals)]

(* A load: all goes, then modules and connections come as they are added.  *)
Upto(graph, m, n) ==
  [order       |-> SubSeq(graph.order, 1, m),
   modules     |-> [id \in ToSet(SubSeq(graph.order, 1, m)) |-> graph.modules[id]],
   connections |-> SubSeq(graph.connections, 1, n)]

LoadedView(graph, active) ==
  LET all         == Len(graph.order)
      modules     == [m \in DOMAIN graph.order |->
                        Signal("module", Upto(graph, m, 0), graph.order[m])]
      connections == [n \in DOMAIN graph.connections |->
                        Signal("connection", Upto(graph, all, n), graph.connections[n])]
  IN  Followed(active, Followed(active, EmptyView, modules), connections)

(* refreshVisibleGraphState: all anew, and every host once more.           *)
RefreshedView(graph, active) ==
  LET Each(kind) == [m \in DOMAIN graph.order |-> Signal(kind, graph, graph.order[m])]
      modules    == Followed(active, EmptyView, Each("module"))
      edges      == EnsureConnections(graph, active, modules, ToSet(graph.connections))
  IN  Followed(active, edges, Each("host"))

=============================================================================
