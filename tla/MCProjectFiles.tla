--------------------------- MODULE MCProjectFiles ---------------------------
(***************************************************************************)
(* A project of today that uses every field of its schema, one with a      *)
(* broken graph_config, two legacy ones, and every file that comes of the  *)
(* full ones by spoiling one field.                                        *)
(***************************************************************************)
EXTENDS ProjectFiles

Graph(ends) ==
  [schema |-> "graph.v1",
   objects |-> <<[id |-> "r0", type |-> "router"], [id |-> "r1", type |-> "router"]>>,
   relationships |-> <<[id |-> "l0", type |-> "link",
                        endpoints |-> <<[object |-> "r0", role |-> "out"],
                                        [object |-> ends, role |-> "in"]>>]>>]

FlatFile(ends) ==
  [schema |-> V1, id |-> "p", name |-> "n",
   metadata |-> "note" :> "1",
   packages |-> <<[id |-> "a", version |-> "1"], [id |-> "a", version |-> "1"],
                  [id |-> "b", version |-> "2"]>>,
   components |->
     <<[id |-> "c0", type |-> "noc", packageRef |-> "a@1", identity |-> "{..}",
        config |-> "width" :> "w0", metadata |-> "note" :> "1",
        extensionData |-> "graph_config" :> Graph(ends)],
       [id |-> "c1", type |-> "cpu", packageRef |-> "b@2",
        config |-> ("parameters" :> ("width" :> "w1")) @@ ("tables" :> "{..}")]>>,
   interfaces |->
     <<[id |-> "i", ownerComponentId |-> "c0", type |-> "t", role |-> "r",
        direction |-> "out", protocol |-> "p"],
       [id |-> "i", ownerComponentId |-> "c1", type |-> "t", role |-> "r",
        direction |-> "in", protocol |-> "p", clockRef |-> "k", config |-> "{..}"]>>,
   connections |->
     <<[id |-> "x0", kind |-> "bus", config |-> "{..}",
        from |-> [component |-> "c0", interface |-> "i"],
        to |-> [component |-> "c1", interface |-> "i"]]>>,
   constraints |-> "{..}",
   topologies |->
     <<[id |-> "t0", schema |-> "graph.v1", kind |-> "explicit_graph",
        nodes |-> <<[id |-> "n0"]>>, links |-> <<>>,
        attachments |-> <<[id |-> "a0", componentRef |-> "c1", attachmentPoint |-> "{..}"]>>],
       [id |-> "t1", schema |-> "parametric.v1", kind |-> "parametric", family |-> "mesh",
        parameters |-> "{}"]>>,
   views |-> <<[id |-> "graph", schema |-> "view.v1", kind |-> "canvas",
                targetRef |-> "project", providerRef |-> "e", icons |-> "{..}",
                layout |-> "canvas" :> ("nodes" :> ("r0" :> "at 0"))]>>,
   diagnostics |-> <<[note |-> "1"]>>,
   extensions |-> <<[ownerPackageId |-> "a", schemaId |-> "s", version |-> "1",
                     data |-> "{..}", validationState |-> "{}"]>>]

LegacyFile(type) ==
  [schema |-> V1,
   project |-> [id |-> "p", name |-> "n", description |-> "d", display |-> "{..}",
                metadata |-> "note" :> "1"],
   instances |->
     <<[id |-> "c0", display_name |-> "d", package |-> [id |-> "a", version |-> "1"],
        config |-> [parameters |-> "width" :> "w0", tables |-> "{..}"],
        graph_config |-> Graph("r1"), native |-> "componentType" :> "noc",
        last_runs |-> "{..}"],
       [id |-> "c1", package |-> [id |-> "a", version |-> "1"], native |-> "type" :> "cpu"]>>,
   composition |->
     [connections |->
        <<[id |-> "x0", type |-> type, source |-> "user",
           endpoints |-> <<[instance |-> "c0", interface |-> "i", role |-> "r"],
                           [instance |-> "c1", interface |-> "i"]>>]>>,
      external_ports |-> <<[id |-> "e0", name |-> "",
                            interface |-> [instance |-> "c0", interface |-> "j"]]>>,
      groups |-> <<[name |-> "g"]>>],
   layout |-> "views" :>
     <<[id |-> "graph", canvas |-> "nodes" :> ("r0" :> "at 0"), native |-> "{..}"],
       "kind" :> "canvas">>,
   diagnostics |-> [schema |-> "diagnostics.v1",
                    records |-> <<[severity |-> "error", source |-> "s", rule_id |-> "r",
                                   message |-> "", locations |-> <<[kind |-> "document"]>>]>>],
   migration |-> [from_schema |-> "old", preserved |-> "{..}"]]

(* An old file whose instances have no types and no connections.           *)
PlainLegacyFile ==
  [schema |-> V1, project |-> [id |-> "p", name |-> "n"],
   instances |-> <<[id |-> "c0", package |-> [id |-> "a", version |-> "1"]]>>]

MCFiles ==
  {FlatFile("r1"), FlatFile("r2"), LegacyFile("bus"), LegacyFile("attachment"), PlainLegacyFile}
  \cup Spoiled(FlatSchema, "project", [FlatFile("r1") EXCEPT !.name = "spoiled"])
  \cup Spoiled(LegacySchema, "root", [LegacyFile("bus") EXCEPT !.project.name = "spoiled"])

-----------------------------------------------------------------------------
(* The patches: a connection more or less, a component less with its       *)
(* connections and interfaces, a parameter, a place on the canvas.         *)
Without(list, Gone(_)) == SelectSeq(list, LAMBDA item : ~Gone(item))

Connect(d) ==
  [d EXCEPT !.connections =
     Append(@, [id |-> "x1", from |-> [component |-> "c1", interface |-> "i"],
                to |-> [component |-> "c0", interface |-> "i"], kind |-> "interface",
                config |-> "{}", constraints |-> "{}", metadata |-> "status" :> "valid"])]

Disconnect(d, id) == [d EXCEPT !.connections = Without(@, LAMBDA c : c.id = id)]

RemoveComponent(d, id) ==
  [d EXCEPT !.components = Without(@, LAMBDA c : c.id = id),
            !.interfaces = Without(@, LAMBDA i : i.ownerComponentId = id),
            !.connections = Without(@, LAMBDA c : id \in {c.from.component, c.to.component})]

Configure(d) == [d EXCEPT !.components[1].config = ("width" :> "w2") @@ @]

Place(d) ==
  [d EXCEPT !.views[1].layout =
     ("nodes" :> ("r0" :> "at 1")) @@ @]

(* A bound: only a removal is tried on what comes of a spoiled file.       *)
MCEdited(d) ==
  IF d.name = "spoiled" THEN {RemoveComponent(d, "c1")}
  ELSE {Connect(d), Disconnect(d, "x0"), Disconnect(d, "x1"), RemoveComponent(d, "c1")}
       \cup (IF d.components = <<>> THEN {} ELSE {Configure(d)})
       \cup (IF d.views = <<>> THEN {} ELSE {Place(d)})
=============================================================================
