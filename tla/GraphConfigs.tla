---------------------------- MODULE GraphConfigs ----------------------------
(***************************************************************************)
(* The graph_config of a component: what GraphConfig::fromJson insists on, *)
(* and what validateGraphConfig asks of the whole.                         *)
(***************************************************************************)
EXTENDS JsonRecords

GraphType ==
  [Plain EXCEPT !.text = {"schema"}, !.block = {"properties", "native"},
                !.list = [objects |-> "graph object", relationships |-> "relationship"],
                !.must = {"schema", "objects", "relationships"},
                !.enum = [schema |-> {"graph.v1"}],
                !.always = {"objects", "relationships"},
                !.whole = TRUE]

GraphObjectType ==
  [Plain EXCEPT !.text = {"id", "type"}, !.block = {"properties"},
                !.must = {"id", "type"}, !.filled = {"id", "type"}]

RelationshipType ==
  [Plain EXCEPT !.text = {"id", "type"}, !.block = {"properties"},
                !.list = [endpoints |-> "graph endpoint"],
                !.must = {"id", "type", "endpoints"}, !.filled = {"id", "type"},
                !.pairs = {"endpoints"}]

GraphEndpointType ==
  [Plain EXCEPT !.text = {"object", "role"}, !.block = {"properties"},
                !.must = {"object", "role"}, !.filled = {"object", "role"}]

GraphSchema ==
  [t \in {"graph", "graph object", "relationship", "graph endpoint"} |->
     CASE t = "graph" -> GraphType
       [] t = "graph object" -> GraphObjectType
       [] t = "relationship" -> RelationshipType
       [] t = "graph endpoint" -> GraphEndpointType]

DistinctIds(list) == \A i, j \in DOMAIN list : list[i].id = list[j].id => i = j

IdsOf(list) == {list[i].id : i \in DOMAIN list}

(* No id twice, and every end of a relationship is an object of the graph. *)
GraphFits(graph) ==
  /\ DistinctIds(graph.objects)
  /\ DistinctIds(graph.relationships)
  /\ \A r \in ToSet(graph.relationships) :
       \A end \in ToSet(r.endpoints) : end.object \in IdsOf(graph.objects)

GraphSound(graph) == Sound(GraphSchema, "graph", graph) /\ GraphFits(graph)
=============================================================================
