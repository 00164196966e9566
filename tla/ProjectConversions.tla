------------------------- MODULE ProjectConversions -------------------------
(***************************************************************************)
(* What a project file becomes on its way to the editor and back:          *)
(*                                                                         *)
(*   file --ReadFlat--> design --ToDocument--> document                    *)
(*   legacy file --ReadLegacy--> root --LegacyDocument--> document         *)
(*   document --FromDocument--> the design the editor works on             *)
(*   document, design --MergeDesign--> document                            *)
(*   document --Output--> file, or none if the document is not fit         *)
(*                                                                         *)
(* The document keeps packages and instances as records, what else a       *)
(* design has as JSON in one entry of native, the supplement, and of a     *)
(* legacy file the composition, the layout and the migration.  Runs,       *)
(* artifacts, diagnostics and displays of a legacy file are in the         *)
(* document too, but nothing writes them.                                  *)
(***************************************************************************)
EXTENDS LegacyProject, TLC

CompositionKey == "ipcraft.legacyComposition.v1"
MigrationKey   == "ipcraft.migration.v1"

Sections == {"parameters", "tables", "documents", "files", "preserved"}

IsSection(k, v) ==
  k \in Sections /\ (IF k = "parameters" THEN v # Odd ELSE v # "5")

SectionsOf(config) == {k \in DOMAIN config : IsSection(k, config[k])}

ParametersOf(config) == IF "parameters" \in SectionsOf(config) THEN config.parameters ELSE NoFields

Restricted(f, keys) == [k \in keys |-> f[k]]

(* A config is bundled in a document: what is in no section is a parameter.*)
DocumentConfig(config) ==
  LET loose == DOMAIN config \ SectionsOf(config)
      parameters == Restricted(config, loose) @@ ParametersOf(config)
      others == Restricted(config, SectionsOf(config) \ {"parameters"})
  IN  IF loose = {} THEN config
      ELSE ("parameters" :> parameters) @@ others

(* And flat in a design.                                                   *)
RuntimeConfig(config) ==
  LET loose == DOMAIN config \ Sections
      others == SectionsOf(config) \ {"parameters"}
  IN  IF SectionsOf(config) = {} THEN config
      ELSE Restricted(config, loose \cup others) @@ ParametersOf(config)

-----------------------------------------------------------------------------
(* The reference of a component is the first package it fits, by id and    *)
(* version or by id alone.                                                 *)
RefKey(p) == IF p.version = "" THEN p.id ELSE PackageKey(p.id, p.version)

PackageOf(reference, packages) ==
  LET fitting == {n \in DOMAIN packages :
                    reference \in {RefKey(packages[n]), packages[n].id}}
  IN  packages[CHOOSE n \in fitting : \A m \in fitting : n <= m]

(* Every package once, the declared ones first.                            *)
PackagesOf(doc) ==
  LET used == [n \in DOMAIN doc.instances |-> doc.instances[n].package]
      Add(packages, p) ==
        IF p.id = "" \/ \E q \in ToSet(packages) : RefKey(q) = RefKey(p)
        THEN packages ELSE Append(packages, p)
  IN  FoldLeft(Add, <<>>, doc.ipcores \o used)

Entry(native, key) == IF key \in DOMAIN native THEN native[key] ELSE NoFields

TextEntry(native, key) == IF key \in DOMAIN native /\ native[key] # "5" THEN native[key] ELSE ""

TypeOf(instance) ==
  IF TextEntry(instance.native, "componentType") # ""
  THEN TextEntry(instance.native, "componentType") ELSE TextEntry(instance.native, "type")

ComponentOf(instance) ==
  [id            |-> instance.id,
   type          |-> TypeOf(instance),
   packageRef    |-> RefKey(instance.package),
   identity      |-> IF "identity" \in DOMAIN instance.native THEN instance.native.identity ELSE "{}",
   config        |-> RuntimeConfig(instance.config),
   metadata      |-> Entry(instance.native, "metadata"),
   extensionData |-> IF instance.graph = NoFields THEN Entry(instance.native, "extensionData")
                     ELSE ("graph_config" :> instance.graph)
                          @@ Entry(instance.native, "extensionData")]

GraphIn(data) == IF "graph_config" \in DOMAIN data THEN data.graph_config ELSE NoFields

InstanceOf(component, packages) ==
  LET Given(k, f, empty) == IF f = empty THEN NoFields ELSE k :> f
  IN  [id      |-> component.id,
       package |-> PackageOf(component.packageRef, packages),
       config  |-> DocumentConfig(component.config),
       native  |-> Given("componentType", component.type, "")
                   @@ Given("identity", component.identity, "{}")
                   @@ Given("metadata", component.metadata, NoFields)
                   @@ Given("extensionData", component.extensionData, NoFields),
       graph   |-> GraphIn(component.extensionData)]

-----------------------------------------------------------------------------
(* The supplement holds every list of the design that is not empty, and    *)
(* the constraints, as JSON.                                               *)
SupplementFields ==
  {"interfaces", "connections", "topologies", "constraints", "views",
   "diagnostics", "artifacts", "extensions"}

Stored(json, k) == IF k = "constraints" THEN json[k] # "{}" ELSE json[k] # <<>>

SupplementOf(d) ==
  LET json == WriteFlat(d)
  IN  Restricted(json, {k \in SupplementFields \cap DOMAIN json : Stored(json, k)})

(* Mutant: the lists are taken, the constraints are not.                   *)
SupplementedByLists(d, supplement) ==
  LET combined == ReadFlat(supplement @@ WriteFlat(d))
  IN  IF supplement = NoFields \/ combined = NoFields THEN d
      ELSE [k \in DOMAIN d |-> IF k \in DOMAIN supplement \ {"constraints"} THEN combined[k]
                                                                           ELSE d[k]]

(* It counts only if the design would be sound with all of it.             *)
Supplemented(d, supplement) ==
  LET combined == ReadFlat(supplement @@ WriteFlat(d))
  IN  IF supplement = NoFields \/ combined = NoFields THEN d
      ELSE [k \in DOMAIN d |-> IF k \in DOMAIN supplement THEN combined[k] ELSE d[k]]

-----------------------------------------------------------------------------
HasComposition(composition) ==
  \/ \E k \in {"connections", "external_ports", "groups"} : composition[k] # <<>>
  \/ \E k \in {"properties", "native"} : composition[k] # "{}"

NoComposition == Read(LegacySchema, "composition", NoFields)

(* Mutant: a type that is not given stays blank.                           *)
ConnectionOfType(c) ==
  LET End(n) == [component |-> c.endpoints[n].instance, interface |-> c.endpoints[n].interface]
  IN  [id |-> c.id, from |-> End(1), to |-> End(2), kind |-> c.type,
       config |-> c.properties, constraints |-> "{}",
       metadata |-> "legacy" :> Write(LegacySchema, "connection", c)]

(* A legacy connection is one of its first two ends; all of it is kept in  *)
(* the metadata.                                                           *)
ConnectionOf(c) ==
  LET End(n) == [component |-> c.endpoints[n].instance, interface |-> c.endpoints[n].interface]
  IN  [id |-> c.id, from |-> End(1), to |-> End(2),
       kind |-> IF c.type = "" THEN "interface" ELSE c.type,
       config |-> c.properties, constraints |-> "{}",
       metadata |-> "legacy" :> Write(LegacySchema, "connection", c)]

(* ProjectDesignSerializer::toDocument and fromDocument.                   *)
ToDocument(d) ==
  [projectId |-> d.id, projectName |-> d.name, metadata |-> d.metadata,
   ipcores |-> d.packages,
   instances |-> [n \in DOMAIN d.components |-> InstanceOf(d.components[n], d.packages)],
   supplement |-> SupplementOf(d),
   composition |-> NoComposition, layout |-> NoFields,
   migration |-> Read(LegacySchema, "migration", NoFields)]

EmptyDesign == Read(FlatSchema, "project", [schema |-> V1])

FromDocument(doc) ==
  LET composition == doc.composition
      own == [EmptyDesign EXCEPT
                !.id = doc.projectId, !.name = doc.projectName,
                !.packages = PackagesOf(doc),
                !.components = [n \in DOMAIN doc.instances |-> ComponentOf(doc.instances[n])],
                !.metadata = IF HasComposition(composition)
                             THEN (CompositionKey :>
                                     Write(LegacySchema, "composition", composition)) @@ doc.metadata
                             ELSE doc.metadata,
                !.connections = [n \in DOMAIN composition.connections |->
                                   ConnectionOf(composition.connections[n])]]
  IN  Supplemented(own, doc.supplement)

-----------------------------------------------------------------------------
(* The reader.  A layout is kept of the views of either kind of file, of a *)
(* flat one in the legacy form.                                            *)
LayoutOf(views) ==
  LET LegacyView(v) ==
        [id |-> v.id, kind |-> v.kind]
        @@ (IF "canvas" \in DOMAIN v.layout THEN "canvas" :> v.layout.canvas ELSE NoFields)
  IN  IF views = <<>> THEN NoFields
      ELSE "views" :> [n \in DOMAIN views |-> LegacyView(views[n])]

FlatDocument(d) ==
  [ToDocument(d) EXCEPT
     !.layout = LayoutOf(d.views),
     !.migration = IF MigrationKey \in DOMAIN d.metadata
                   THEN Read(LegacySchema, "migration", d.metadata[MigrationKey]) ELSE @]

LegacyDocument(root) ==
  [projectId |-> root.project.id, projectName |-> root.project.name,
   metadata |-> root.project.metadata, ipcores |-> <<>>,
   instances |-> [n \in DOMAIN root.instances |->
                    [id |-> root.instances[n].id, package |-> root.instances[n].package,
                     config |-> root.instances[n].config, native |-> root.instances[n].native,
                     graph |-> root.instances[n].graph_config]],
   supplement |-> NoFields, composition |-> root.composition,
   layout |-> root.layout, migration |-> root.migration]

(* ProjectReader::readFile: a file with a field project is a legacy one.   *)
IsLegacy(json) == "project" \in DOMAIN json

DocumentOf(json) ==
  LET read == IF IsLegacy(json) THEN ReadLegacy(json) ELSE ReadFlat(json)
  IN  IF read = NoFields THEN NoFields
      ELSE IF IsLegacy(json) THEN LegacyDocument(read) ELSE FlatDocument(read)

-----------------------------------------------------------------------------
(* ProjectService::replaceDesign: the design's records replace those of    *)
(* the document; composition, layout and migration stay, and so does the   *)
(* graph_config of an instance the design gives none.  (Entries of native  *)
(* the design does not own stay too; none of them is read again, as a      *)
(* valid component has a type.)                                            *)
MergedInstance(doc, instance) ==
  LET old == {i \in ToSet(doc.instances) : i.id = instance.id}
  IN  IF instance.graph # NoFields \/ old = {} THEN instance
      ELSE [instance EXCEPT !.graph = (CHOOSE i \in old : TRUE).graph]

MergeDesign(doc, d) ==
  LET new == ToDocument(d)
  IN  [new EXCEPT !.instances = [n \in DOMAIN @ |-> MergedInstance(doc, @[n])],
                  !.composition = doc.composition,
                  !.layout = doc.layout,
                  !.migration = doc.migration]

-----------------------------------------------------------------------------
(* The writer.  Views of the layout the design does not have are added.    *)
NewView(v, n) ==
  LET Text(k, default) == IF k \in DOMAIN v /\ v[k] # "5" THEN v[k] ELSE default
      Object(k, name) == IF k \in DOMAIN v THEN name :> v[k] ELSE NoFields
  IN  Read(FlatSchema, "view",
           [id |-> Text("id", "layout_" \o ToString(n - 1)), schema |-> "view.v1",
            kind |-> Text("kind", "canvas"), targetRef |-> "project",
            providerRef |-> "finepaper.editor", layout |-> Object("canvas", "canvas"),
            metadata |-> Object("native", "native")])

(* Mutant: the ids of the views that are there are not looked at.          *)
WithAllOfLayout(views, layout) ==
  LET given == IF "views" \in DOMAIN layout THEN layout.views ELSE <<>>
  IN  views \o [n \in DOMAIN given |-> NewView(given[n], n)]

WithLayout(views, layout) ==
  LET given == IF "views" \in DOMAIN layout THEN layout.views ELSE <<>>
      new == [n \in DOMAIN given |-> NewView(given[n], n)]
      Add(list, v) == IF v.id = "" \/ v.id \in IdsOf(list) THEN list ELSE Append(list, v)
  IN  FoldLeft(Add, views, new)

WithMigration(metadata, migration) ==
  LET json == Write(LegacySchema, "migration", migration)
  IN  IF json = NoFields THEN metadata ELSE (MigrationKey :> json) @@ metadata

DesignForWrite(doc) ==
  LET d == FromDocument(doc)
      Typed(c, i) == IF c.type = "" THEN [c EXCEPT !.type = i.package.id] ELSE c
  IN  [d EXCEPT !.components = [n \in DOMAIN @ |-> Typed(@[n], doc.instances[n])],
                !.views = WithLayout(@, doc.layout),
                !.metadata = WithMigration(@, doc.migration)]

(* What the writer itself asks of the document.                            *)
Writable(doc) ==
  /\ doc.projectId # "" /\ doc.projectName # ""
  /\ DistinctIds(doc.instances)
  /\ \A i \in ToSet(doc.instances) :
       /\ i.id # "" /\ i.package.id # "" /\ i.package.version # ""
       /\ i.graph # NoFields => GraphSound(i.graph)
  /\ CompositionFits(doc.composition, IdsOf(doc.instances))

(* The file a document is saved as, or NoFields.                           *)
Output(doc) ==
  LET d == DesignForWrite(doc)
  IN  IF Writable(doc) /\ Valid(d) THEN WriteFlat(d) ELSE NoFields
=============================================================================
