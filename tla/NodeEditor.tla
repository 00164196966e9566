----------------------------- MODULE NodeEditor -----------------------------
(***************************************************************************)
(* The node editor: gestures on the scene become patches of the design,    *)
(* the main window rebuilds the graph from the patched design, and the     *)
(* scene follows the graph.  A design that cannot be loaded leaves the     *)
(* graph as it is and the projection stale.                                *)
(*                                                                         *)
(* Each action is one handler, with the synchronous calls it ends in: the  *)
(* patch, the main window's synchronisation, the rebuild, the signals of   *)
(* the graph and of the selection, and the handler's own refresh.          *)
(***************************************************************************)
EXTENDS EditorProjection

CONSTANTS
  Instances,         \* ids of the components there are or may come
  FreshIds,          \* ids generateEntityId may still return
  Creatable(_),      \* bound: types of its package the user makes modules of
  InitialDesign,     \* the design of the project as opened
  Presettable,       \* instances whose package has a topology preset
  MaxSize            \* bound: relationships, and what else was added

(* What a design is: only a component may have a graph_config.             *)
IsList(s) == s \in Seq(ToSet(s))

(* A relationship joins two ends, each a module and a port.                *)
IsRelationship(r) ==
  /\ ToSet(r.ends) = {r.ends[1], r.ends[2]}
  /\ \A end \in ToSet(r.ends) : end = <<end[1], end[2]>>

IsGraphConfig(config) ==
  /\ config = [objects |-> config.objects, relationships |-> config.relationships]
  /\ IsList(config.objects) /\ IsList(config.relationships)
  /\ \A object \in ToSet(config.objects) : object.type \in Types
  /\ \A r \in ToSet(config.relationships) : IsRelationship(r)

IsDesign(d) ==
  /\ d = [components |-> d.components, graph |-> d.graph, expanded |-> d.expanded,
          fractional |-> d.fractional, topologies |-> d.topologies]
  /\ d.components \in Seq(Instances) \ {<<>>}
  /\ d.graph = [i \in Instances |-> d.graph[i]]
  /\ \A i \in Instances :
       d.graph[i] = NoGraph \/ (i \in ToSet(d.components) /\ IsGraphConfig(d.graph[i]))

ASSUME NodeEditorAssumption ==
  /\ IsDesign(InitialDesign) /\ Loaded(InitialDesign).ok
  /\ \A i \in Instances : OwnType(i) \in Types /\ Creatable(i) \subseteq Types

VARIABLES
  design,    \* the project's design
  drawn,     \* components the document has a module record of their own of
  graph,     \* the graph the editor works on
  stale,     \* m_projectionStale
  active,    \* the instance whose workspace is shown
  view       \* the scene

vars == <<design, drawn, graph, stale, active, view>>

Graphless(d) == {i \in ToSet(d.components) : d.graph[i] = NoGraph}

Init ==
  /\ design = InitialDesign
  /\ drawn = {}
  /\ graph = Loaded(InitialDesign).graph
  /\ stale = FALSE
  /\ active = Head(InitialDesign.components)
  /\ view = RefreshedView(graph, active)

-----------------------------------------------------------------------------
UsedIds(d) == UNION {{o.id : o \in ToSet(ObjectsOf(d, i))} : i \in Instances}

(* The bound counts relationships, flags and fractional places of nodes,   *)
(* topologies, and components and objects that were added.                 *)
Size(d) ==
  Len(ConnectionRecords(d)) + Cardinality(d.expanded) + Cardinality(d.fractional)
    + Cardinality(d.topologies) + Cardinality(FreshIds \cap UsedIds(d))
    + Len(d.components) - Len(InitialDesign.components)

(* What follows a patch.                                                   *)
OnlyViewsChanged(d, e) ==
  [d EXCEPT !.expanded = {}, !.fractional = {}] =
  [e EXCEPT !.expanded = {}, !.fractional = {}]

(* Mutant: the graph is cleared before the candidate is tried.             *)
RebuildClearing(next) ==
  LET loaded == Loaded(next)
  IN  /\ stale' = ~loaded.ok
      /\ graph' = IF loaded.ok THEN loaded.graph ELSE ModulesOf(<<>>)
      /\ active' = IF loaded.ok THEN Head(next.components) ELSE active

(* rebuildProjectionViewOnly: on success the first instance is selected.   *)
Rebuild(next) ==
  LET loaded == Loaded(next)
  IN  \/ /\ loaded.ok
         /\ graph' = loaded.graph
         /\ active' = Head(next.components)
         /\ stale' = FALSE
      \/ /\ ~loaded.ok
         /\ stale' = TRUE
         /\ UNCHANGED <<graph, active>>

(* The scene after a rebuild: by the signals of the graph, and anew if the *)
(* selection changed with it.                                              *)
SignalledView ==
  IF stale' THEN view
  ELSE IF active' = active THEN LoadedView(graph', active)
  ELSE RefreshedView(graph', active')

(* applyPatch, and syncProjectServiceFromDesignEditingService: a patch of  *)
(* the views alone counts as shown already.                                *)
Commit(next) ==
  /\ design' = next
  /\ drawn' = Graphless(next)
  /\ IF OnlyViewsChanged(design, next)
     THEN stale' = FALSE /\ UNCHANGED <<graph, active, view>>
     ELSE Rebuild(next) /\ view' = SignalledView

(* A patch of more than views by a handler that refreshes the scene in any *)
(* case.                                                                   *)
CommitAndRefresh(next) ==
  /\ design' = next
  /\ drawn' = Graphless(next)
  /\ Rebuild(next)
  /\ view' = RefreshedView(graph', active')

(* A handler that finds the projection stale shows the graph again.        *)
OnlyRefresh ==
  /\ view' = RefreshedView(graph, active)
  /\ UNCHANGED <<design, drawn, graph, stale, active>>

-----------------------------------------------------------------------------
(* Connections.                                                            *)

(* existingConnectionIds *)
ExistingIds ==
  {c.id : c \in ToSet(graph.connections)} \cup
  UNION {{r.id : r \in ToSet(RelationshipsOf(design, i))} : i \in ToSet(design.components)}

(* Mutant: the id of the ends is taken as it is.                           *)
BaseConnectionId(source, target) == <<source, target, 1>>

(* uniqueConnectionId: the ends, then a suffix from 2 on.                  *)
UniqueConnectionId(source, target) ==
  LET Id(n) == <<source, target, n>>
      free  == {n \in 1..(Cardinality(ExistingIds) + 1) : Id(n) \notin ExistingIds}
  IN  Id(CHOOSE n \in free : \A m \in free : n <= m)

(* graphRelationshipAddPatch.  Both ends are in the active instance: the   *)
(* scene shows no others.  A relationship without class is "interface".    *)
Relationship(option) ==
  [id     |-> UniqueConnectionId(option.source, option.target),
   ends   |-> <<option.source, option.target>>,
   class  |-> IF option.class = "" THEN "interface" ELSE option.class,
   status |-> IF option.status = "" THEN "valid" ELSE option.status]

WithRelationship(relationship) ==
  [design EXCEPT !.graph[active] =
     [GraphConfigOf(design, active) EXCEPT !.relationships = Append(@, relationship)]]

ExecuteAddConnection(option) ==
  IF stale THEN OnlyRefresh
  ELSE CommitAndRefresh(WithRelationship(Relationship(option)))

(* onConnectionCreated: an edge drawn from an output to an input.  What    *)
(* the rules do not take vanishes again.                                   *)
ConnectionCreated(source, target) ==
  /\ ~stale
  /\ Size(design) < MaxSize
  /\ Semantics(graph, source).output /\ Semantics(graph, target).input
  /\ \E option \in PortToPort(graph, source, target, "") : ExecuteAddConnection(option)

(* tryCompleteDraftConnection: the user lets go over the body of a module  *)
(* and chooses, if there are several ways to connect.                      *)
CompleteDraft(start, side, module) ==
  /\ Size(design) < MaxSize
  /\ start[1] # module
  /\ IF side = "output" THEN Semantics(graph, start).output
                        ELSE Semantics(graph, start).input
  /\ \E option \in PortToNode(graph, start, side, module) : ExecuteAddConnection(option)

(* onConnectionDeleted.  The patch is refused when the instance has no such *)
(* relationship (any more).                                                *)
WithoutRelationship(id) ==
  LET HasId(list, n) == list[n].id = id
      First(list)    == CHOOSE n \in DOMAIN list :
                          HasId(list, n) /\ \A m \in 1 .. n - 1 : ~HasId(list, m)
  IN  [design EXCEPT !.graph[active] =
         [GraphConfigOf(design, active) EXCEPT !.relationships = RemoveAt(@, First(@))]]

ConnectionDeleted(id) ==
  /\ id \in view.edges
  /\ IF stale \/ id \notin {r.id : r \in ToSet(RelationshipsOf(design, active))}
     THEN OnlyRefresh
     ELSE CommitAndRefresh(WithoutRelationship(id))

-----------------------------------------------------------------------------
(* Modules.                                                                *)
(* onNodeMoved.  The place is that of the scene: whole only if the scene   *)
(* is not zoomed.                                                          *)
Placed(id, whole) ==
  [design EXCEPT !.fractional = IF whole THEN @ \ {id} ELSE @ \cup {id}]

NodeMoved(id, whole) ==
  /\ id \in view.nodes
  /\ Size(Placed(id, whole)) <= MaxSize
  /\ IF stale THEN OnlyRefresh ELSE Commit(Placed(id, whole))

(* setParameter: by its signal the presentation, as toggleCollapsed once   *)
(* more.                                                                   *)
SetExpanded(id, expanded) ==
  [graph EXCEPT !.modules[id].expanded = expanded]

(* Mutant: the patch alone, the module keeps its flag.                     *)
ToggleInDesignOnly(id, expanded) ==
  /\ design' = [design EXCEPT !.expanded = IF expanded THEN @ \cup {id} ELSE @ \ {id}]
  /\ drawn' = Graphless(design)
  /\ view' = Presentation(SetExpanded(id, expanded), active, view, id)
  /\ UNCHANGED <<graph, stale, active>>

SetCollapsed(id, expanded) ==
  /\ design' = [design EXCEPT !.expanded = IF expanded THEN @ \cup {id} ELSE @ \ {id}]
  /\ drawn' = Graphless(design)
  /\ graph' = SetExpanded(id, expanded)
  /\ view' = Presentation(graph', active, view, id)
  /\ UNCHANGED <<stale, active>>

(* toggleCollapsed: the patch, of the view alone, then the module.         *)
ToggleCollapsed(id) ==
  /\ id \in view.nodes
  /\ TypeWith(graph, id) \in Collapsible
  /\ IF stale THEN OnlyRefresh
     ELSE LET expanded == ~graph.modules[id].expanded
          IN  /\ SetCollapsed(id, expanded)
              /\ Size(design') <= MaxSize

(* createModuleAt.  It does not ask whether the projection is stale.  The  *)
(* component has a graph_config from then on.                              *)
WithObject(object, whole) ==
  [Placed(object.id, whole) EXCEPT !.graph[active] =
     [GraphConfigOf(design, active) EXCEPT !.objects = Append(@, object)]]

CreateModule(id, type, whole) ==
  /\ id \in FreshIds \ UsedIds(design)
  /\ type \in Creatable(active)
  /\ LET next == WithObject([id |-> id, type |-> type, fits |-> TRUE], whole)
     IN  Size(next) <= MaxSize /\ CommitAndRefresh(next)

-----------------------------------------------------------------------------
(* What else changes the design or the selection.                          *)

(* The preset's topology has the id instance.preset, so that the same once *)
(* more changes nothing; the handler leaves the scene to the rebuild.      *)
ApplyTopologyPreset ==
  /\ active \in Presettable
  /\ LET next == [design EXCEPT !.topologies = @ \cup {active}]
     IN  Size(next) <= MaxSize /\ Commit(next)

SelectInstance(i) ==
  /\ i \in ToSet(design.components) \ {active}
  /\ active' = i
  /\ view' = RefreshedView(graph, i)
  /\ UNCHANGED <<design, drawn, graph, stale>>

(* A change of the instance records: writeToDocument makes objects of the  *)
(* modules the document has, those of a component's own among them.        *)
Materialized ==
  [i \in Instances |->
     IF i \in drawn /\ design.graph[i] = NoGraph
     THEN [objects |-> <<OwnModule(i)>>, relationships |-> <<>>]
     ELSE design.graph[i]]

EditRecord ==
  /\ design' = [design EXCEPT !.graph = Materialized]
  /\ drawn' = {}
  /\ UNCHANGED <<graph, stale, active, view>>

(* An instance added from the catalog is a component without graph_config, *)
(* and selected; nothing rebuilds the graph.                               *)
AddInstance(i) ==
  /\ i \in Instances \ ToSet(design.components)
  /\ design' = [design EXCEPT !.components = Append(@, i), !.graph = Materialized]
  /\ Size(design') <= MaxSize
  /\ drawn' = {}
  /\ active' = i
  /\ view' = RefreshedView(graph, i)
  /\ UNCHANGED <<graph, stale>>

(* A project that cannot be opened marks the one that stays open.          *)
OpenFails ==
  /\ stale' = TRUE
  /\ UNCHANGED <<design, drawn, graph, active, view>>

-----------------------------------------------------------------------------
VisibleEnds ==
  UNION {{<<id, p>> : p \in Ports(TypeWith(graph, id))} : id \in view.nodes}

Gesture ==
  \/ \E s, t \in VisibleEnds : ConnectionCreated(s, t)
  \/ \E s \in VisibleEnds, side \in {"output", "input"}, id \in view.nodes :
       CompleteDraft(s, side, id)
  \/ \E id \in view.edges : ConnectionDeleted(id)
  \/ \E id \in view.nodes, whole \in BOOLEAN : NodeMoved(id, whole)
  \/ \E id \in view.nodes : ToggleCollapsed(id)
  \/ \E id \in FreshIds, type \in Creatable(active), whole \in BOOLEAN :
       CreateModule(id, type, whole)
  \/ ApplyTopologyPreset

Next ==
  \/ Gesture
  \/ \E i \in Instances : SelectInstance(i)
  \/ EditRecord
  \/ \E i \in Instances : AddInstance(i)
  \/ OpenFails

Spec == Init /\ [][Next]_vars

-----------------------------------------------------------------------------
(* Properties.                                                             *)

(* Whatever way the scene came to be as it is (signals of a load, of the   *)
(* selection, a toggled host, a refresh), it is what a full refresh would  *)
(* show: no order of events hides a connection or leaves one behind.       *)
ViewIsCanonical == view = RefreshedView(graph, active)

(* Every connection of the graph is one the rules would still take with    *)
(* all the others there, not only with those loaded before it: no          *)
(* interface that takes one connection has two, no side meets its own.     *)
(* One a file says to be invalid takes no interface from a later one.      *)
GraphIsLegal ==
  \A n \in DOMAIN graph.connections :
    LET c == graph.connections[n]
    IN  c.status # "invalid" =>
          PortToPort([graph EXCEPT !.connections = RemoveAt(@, n)],
                     c.source, c.target, c.class) # {}

(* The graph shows the design: the objects and flags, and all connections. *)
(* Modules a component has of its own are left out; an added instance or a *)
(* changed record rebuilds nothing.                                        *)
InStep ==
  LET records == ConnectionRecords(design)
  IN  /\ {<<r.id, ModuleOf(r)>> : r \in {m \in ToSet(ModuleRecords(design)) :
                                         m.id \notin Instances}} =
         {<<id, graph.modules[id]>> : id \in DOMAIN graph.modules \ Instances}
      /\ {<<r.id, r.class, r.status, ToSet(r.ends)>> : r \in ToSet(records)} =
         {<<c.id, c.class, c.status, {c.source, c.target}>> : c \in ToSet(graph.connections)}

(* A step that leaves the editor open to edits leaves the graph showing    *)
(* the design, if it did before: whether the step rebuilt the graph or     *)
(* patched design and graph separately.                                    *)
EditsAreShown == [][design' # design /\ ~stale' /\ InStep => InStep']_vars

(* What keeps an up-to-date editor from rebuilding its graph is never a    *)
(* connection or a flag the editor let through, only a place that is no    *)
(* whole number or an instance whose own module does not fit.              *)
Unloadable(d) ==
  \/ \E r \in ToSet(ModuleRecords(d)) : ~r.fits
  \/ \E r \in ToSet(ModuleRecords(d)) : r.type \in WholePlaced /\ ~r.whole

AcceptedEditsLoad ==
  [][~stale /\ stale' /\ design' # design /\ InStep => Unloadable(design')]_vars

(* A design that cannot be rebuilt or opened leaves the graph as it was,   *)
(* whatever the loader had read of it before it failed.  (That the scene   *)
(* then still shows that graph is ViewIsCanonical.)                        *)
FailureKeepsGraph == [][stale' => graph' = graph]_vars

(* Whenever the design could not be shown, the editor is marked stale.     *)
(* (The design rule of the hard cut; the code does not keep it.)           *)
FailureIsMarked == stale \/ InStep

(* An edit of the layout alone never makes the design one the graph cannot *)
(* be rebuilt from.  (A rule of the architecture; the code breaks it.)     *)
LayoutNeverBlocks ==
  [][OnlyViewsChanged(design, design') /\ Loaded(design).ok => Loaded(design').ok]_vars

=============================================================================
