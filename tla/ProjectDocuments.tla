-------------------------- MODULE ProjectDocuments --------------------------
(***************************************************************************)
(* The copies of one project, and the conversions between them:            *)
(*                                                                         *)
(*   records   the IP-instance records of ProjectStateService (a sequence  *)
(*             of [core, inst, value], see ProjectInstances);              *)
(*   document  ProjectService::m_document: instances that hold a parameter *)
(*             twice, as config.parameters and, unless NoState, as         *)
(*             state.global_parameters; the modules the graph is built     *)
(*             from; the views;                                            *)
(*   design    ipcraft::core::ProjectDesign: components and views;         *)
(*   file      the .fpproj on disk, in the shape of a design.              *)
(*                                                                         *)
(* Kept of each: which instances there are, of which IP core, in which     *)
(* order, with which value of one parameter.  A module is represented by   *)
(* the instance that owns it; parameters and connections of modules are    *)
(* left out.                                                               *)
(***************************************************************************)
EXTENDS InstanceCommands

CONSTANTS
  Views,     \* layouts of the canvas
  NoState    \* an instance without state.global_parameters

RefsIn(list) == {Ref(list[i]) : i \in DOMAIN list}
IdsIn(list)  == {list[i].inst : i \in DOMAIN list}

WithId(list, id) == list[CHOOSE i \in DOMAIN list : list[i].inst = id]

(* ProjectDesignSerializer::fromDocument.  A design and the file of a      *)
(* project, which ProjectWriter writes, take the parameter from config.    *)
DesignOf(doc) ==
  [components |-> [i \in DOMAIN doc.instances |->
                     [core  |-> doc.instances[i].core,
                      inst  |-> doc.instances[i].inst,
                      value |-> doc.instances[i].config]],
   views      |-> doc.views]

FileOf(doc) == DesignOf(doc)

(* ProjectReader fills state.global_parameters from config.parameters and  *)
(* makes modules of the graph_config of the instances that have one.       *)
Reading(file, drawn) ==
  [instances |-> [i \in DOMAIN file.components |->
                    [core   |-> file.components[i].core,
                     inst   |-> file.components[i].inst,
                     config |-> file.components[i].value,
                     state  |-> file.components[i].value]],
   modules   |-> drawn,
   views     |-> file.views]

(* ProjectStateService::loadFromDocument: the state of an instance wins    *)
(* over its config.  An instance without state takes it from config.       *)
RecordsIn(doc) ==
  [i \in DOMAIN doc.instances |->
     [core  |-> doc.instances[i].core,
      inst  |-> doc.instances[i].inst,
      value |-> IF doc.instances[i].state = NoState THEN doc.instances[i].config
                                                    ELSE doc.instances[i].state]]

(* ProjectStateService::writeToDocument replaces the instances.            *)
WriteToDocument(doc, records) ==
  [doc EXCEPT !.instances =
     [i \in DOMAIN records |-> [core   |-> records[i].core,
                                inst   |-> records[i].inst,
                                config |-> records[i].value,
                                state  |-> records[i].value]]]

(* ProjectService::replaceDesign: the design's components become the       *)
(* instances; one that was there keeps its state.  The modules are made    *)
(* anew, one or more for every component; one whose graph_config lists no  *)
(* object would get none and is left out.                                  *)
OwnedInstance(doc, component) ==
  [core   |-> component.core,
   inst   |-> component.inst,
   config |-> component.value,
   state  |-> IF component.inst \in IdsIn(doc.instances)
              THEN WithId(doc.instances, component.inst).state ELSE NoState]

(* Mutant: the layout stays the document's.                                *)
MergeComponents(doc, design) ==
  [instances |-> [i \in DOMAIN design.components |-> OwnedInstance(doc, design.components[i])],
   modules   |-> RefsIn(design.components),
   views     |-> doc.views]

MergeDesign(doc, design) ==
  [instances |-> [i \in DOMAIN design.components |-> OwnedInstance(doc, design.components[i])],
   modules   |-> RefsIn(design.components),
   views     |-> design.views]

(* ProjectService::mergeDesignOnlyComponents: one after the other, the     *)
(* components whose id no instance has so far are added, without state,    *)
(* and the design's views are taken.                                       *)
Stateless(component) ==
  [core |-> component.core, inst |-> component.inst,
   config |-> component.value, state |-> NoState]

WithMissing(instances, components) ==
  LET merged[n \in 0 .. Len(components)] ==
        IF n = 0 THEN instances
        ELSE IF components[n].inst \in IdsIn(merged[n - 1]) THEN merged[n - 1]
        ELSE Append(merged[n - 1], Stateless(components[n]))
  IN  merged[Len(components)]

MergeDesignOnly(doc, design) ==
  [instances |-> WithMissing(doc.instances, design.components),
   modules   |-> doc.modules,
   views     |-> design.views]

(* unmigratedGraphProjectionOwners finds no owner of a stray edit: every   *)
(* module of the graph belongs to an instance of the document and is one   *)
(* of its modules.                                                         *)
GraphOwned(graph, doc) == graph \subseteq RefsIn(doc.instances) \cap doc.modules
=============================================================================
