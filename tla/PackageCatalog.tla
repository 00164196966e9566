--------------------------- MODULE PackageCatalog ---------------------------
(***************************************************************************)
(* The catalog of packages the editor works with, and the check of a       *)
(* project by the command line tool.  Both read the same directories, each *)
(* in its own way: PackageService::reloadPackageRoots, and validate-project*)
(* of ipcraft_cli_main.cpp.                                                *)
(*                                                                         *)
(* disk holds the directories and the projects there are.  Of a directory  *)
(* it tells, besides what PackageSpecs says, the view files of the package.*)
(* A module of the editor's part of native is its id, its interfaces, the  *)
(* zone it attaches in and the modules it attaches to.  A type of a module *)
(* is named by package and module; modules in Qualified name theirs alone. *)
(***************************************************************************)
EXTENDS ConfigSchemas, CompositionChecks

CONSTANTS Disks,       \* what the directories may hold at the start
          Revised(_),  \* what may come of them
          Handled,     \* extensions a plugin handles
          Qualified    \* module ids that hold "::"

VARIABLES disk,
          roots,       \* m_packageRoots
          catalog,     \* the other members of PackageService, and ModuleRegistry
          answer       \* of the last check of a project

vars == <<disk, roots, catalog, answer>>

dirs == disk.dirs

(***************************************************************************)
(* Manifests: the specification as the editor reads it.                    *)
(***************************************************************************)
ManifestOf(d) ==
  LET spec == SpecOf(dirs[d].json)
      views == IF spec.views = <<>> THEN Field(spec.editor, "views", <<>>) ELSE spec.views
  IN  [id |-> spec.id, version |-> spec.version, name |-> spec.name, root |-> d,
       max |-> Field(spec.editor, "max", Blank),
       modules |-> SelectSeq(Field(spec.editor, "modules", <<>>), LAMBDA m : m # Odd),
       views |-> SelectSeq(views, LAMBDA v : v # Odd)]

Modules(manifest) == ToSet(manifest.modules)

(* The zones a view of a module may name: its own, and those of modules    *)
(* that attach to it.                                                      *)
AttachmentZones(manifest, module) ==
  {m.zone : m \in {n \in Modules(manifest) :
                     n.zone # Blank /\ (n.id = module \/ module \in n.hosts)}}

(* A view file describes a module of the package, by its own interfaces    *)
(* and zones.                                                              *)
ViewFits(manifest, view) ==
  LET xml == Field(dirs[manifest.root].xml, Field(view, "file", Blank), [state |-> "missing"])
      module == Field(view, "module", Blank)
  IN  \E m \in Modules(manifest) :
        /\ m.id = module
        /\ xml.state = "well-formed"
        /\ xml.element = "module-view"
        /\ xml.module = module
        /\ xml.interfaces \subseteq m.interfaces
        /\ Blank \notin xml.zones
        /\ xml.zones \subseteq AttachmentZones(manifest, module)

ViewsFit(manifest) == \A i \in DOMAIN manifest.views : ViewFits(manifest, manifest.views[i])

(***************************************************************************)
(* Loading.  Each root is looked at itself and its directories after it;   *)
(* what was found once is not taken again.                                 *)
(***************************************************************************)
AppendCandidate(so, d) ==
  IF d \in ToSet(so) \/ ~HasPackage(dirs, d) THEN so ELSE Append(so, d)

Candidates(paths) ==
  FoldLeft(LAMBDA so, root : IF root \in DOMAIN dirs
                             THEN FoldLeft(AppendCandidate, so, <<root>> \o dirs[root].children)
                             ELSE so,
           <<>>, paths)

(* Of packages in the same version none is loaded, whatever their views.   *)
SameVersionTwice(candidates, d) ==
  \E e \in ToSet(candidates) \ {d} :
    Readable(dirs, e) /\ VersionKey(dirs[e].json) = VersionKey(dirs[d].json)

Loadable(candidates, d) ==
  Readable(dirs, d) /\ ~SameVersionTwice(candidates, d) /\ ViewsFit(ManifestOf(d))

LoadedRoots(candidates) == SelectSeq(candidates, LAMBDA d : Loadable(candidates, d))

(* The registry of modules: the first type of a name stays, and so does    *)
(* the last manifest of an id.                                             *)
ScopedTypeName(package, module) ==
  IF module \in Qualified THEN <<module>> ELSE <<package, module>>

ModuleType(manifest, module) ==
  [package |-> manifest.id, module |-> module.id, root |-> manifest.root,
   interfaces |-> module.interfaces, zone |-> module.zone, hosts |-> module.hosts]

(* Of modules with one id in one package the last counts.                  *)
TypesOf(manifest) ==
  LET typed == SelectSeq(manifest.modules, LAMBDA m : m.id # Blank)
  IN  FoldLeft(LAMBDA so, m : (ScopedTypeName(manifest.id, m.id) :> ModuleType(manifest, m)) @@ so,
               NoFields, typed)

EmptyRegistry == [types |-> NoFields, manifests |-> NoFields]

LoadPackage(registry, manifest) ==
  [types |-> registry.types @@ TypesOf(manifest),
   manifests |-> (manifest.id :> manifest) @@ registry.manifests]

(* A type by its name, or by the id of its module if no other has it.      *)
GetType(types, name) ==
  LET alike == {t \in DOMAIN types : types[t].module = name}
  IN  IF <<name>> \in DOMAIN types THEN {types[<<name>>]}
      ELSE IF Cardinality(alike) = 1 THEN {types[t] : t \in alike} ELSE {}

TypesForIpcore(types, id) == {t \in DOMAIN types : types[t].package = id}

(* An entry shows the types of its package; without any, the modules.      *)
EntryOf(manifest, types) ==
  [id |-> manifest.id, version |-> manifest.version, name |-> manifest.name,
   maxInstances |-> manifest.max, root |-> manifest.root,
   moduleTypes |-> IF TypesForIpcore(types, manifest.id) # {}
                   THEN TypesForIpcore(types, manifest.id)
                   ELSE {<<m.id>> : m \in {n \in Modules(manifest) : n.id # Blank}}]

(* Extensions a package needs and no plugin handles.                       *)
Blocking(d) == SpecOf(dirs[d].json).required \ Handled

LoadCatalog(paths, registry) ==
  LET candidates == Candidates(paths)
      loaded == LoadedRoots(candidates)
      manifests == [i \in DOMAIN loaded |-> ManifestOf(loaded[i])]
      filled == FoldLeft(LoadPackage, registry, manifests)
  IN  [types |-> filled.types, manifests |-> filled.manifests,
       entries |-> {EntryOf(manifests[i], filled.types) : i \in DOMAIN manifests},
       clean |-> loaded = candidates /\ \A d \in ToSet(loaded) : Blocking(d) = {}]

EmptyCatalog == [types |-> NoFields, manifests |-> NoFields, entries |-> {}, clean |-> TRUE]

(* A mutant: the registry is filled without being emptied.                 *)
ReloadOnTop(paths) ==
  /\ roots' = paths
  /\ catalog' = LoadCatalog(paths, [types |-> catalog.types, manifests |-> catalog.manifests])
  /\ UNCHANGED <<disk, answer>>

Reload(paths) ==
  /\ roots' = paths
  /\ catalog' = LoadCatalog(paths, EmptyRegistry)
  /\ UNCHANGED <<disk, answer>>

(***************************************************************************)
(* The tool: packages under one root, all of them without errors, then     *)
(* each instance's config and at last the composition of all.              *)
(***************************************************************************)
PackageFor(packages, instance) == Resolve(packages, instance.package, instance.version)

InstanceValid(packages, instance) ==
  LET found == PackageFor(packages, instance)
      schema == Head(found).configSchema
  IN  /\ found # <<>>
      /\ SchemaReadable(schema)
      /\ BundleValid(schema, BundleOf(instance.config))

CompositionInstances(packages, project) ==
  [i \in DOMAIN project.instances |->
     [id |-> project.instances[i].id,
      package |-> Head(PackageFor(packages, project.instances[i]))]]

StaticallyValid(packages, project) ==
  /\ \A i \in DOMAIN project.instances : InstanceValid(packages, project.instances[i])
  /\ CompositionValid(CompositionInstances(packages, project), project.composition)

NoAnswer == [given |-> FALSE]

ValidateProject(root, project) ==
  LET found == CollectPackages(dirs, root)
  IN  /\ answer' = [given |-> TRUE, project |-> project, packages |-> found.packages,
                    ok |-> found.clean /\ StaticallyValid(found.packages, project)]
      /\ UNCHANGED <<disk, roots, catalog>>

(* Somebody changes the directories.                                       *)
EditPackages ==
  /\ \E revision \in Revised(disk) : disk' = revision
  /\ UNCHANGED <<roots, catalog, answer>>

Init ==
  /\ disk \in Disks
  /\ roots = <<>>
  /\ catalog = EmptyCatalog
  /\ answer = NoAnswer

Next ==
  \/ \E paths \in disk.roots : Reload(paths)
  \/ \E project \in disk.projects : ValidateProject(disk.searched, project)
  \/ EditPackages

Spec == Init /\ [][Next]_vars

(***************************************************************************)
(* Properties.                                                             *)
(***************************************************************************)

(* Packages that go together: one version of each, no type of one module   *)
(* named by another.                                                       *)
Together(found) ==
  /\ \A d, e \in found : dirs[d].json.id = dirs[e].json.id => d = e
  /\ \A d, e \in found : \A m \in Modules(ManifestOf(d)), n \in Modules(ManifestOf(e)) :
       ScopedTypeName(dirs[d].json.id, m.id) = ScopedTypeName(dirs[e].json.id, n.id)
         => d = e /\ m = n

(* The packages under some roots the editor can use.                       *)
Usable(paths) ==
  LET there == {d \in UNION {{r} \cup ToSet(dirs[r].children) :
                               r \in ToSet(paths) \cap DOMAIN dirs} : Readable(dirs, d)}
  IN  {d \in there : /\ \A e \in there : VersionKey(dirs[d].json) = VersionKey(dirs[e].json) => d = e
                     /\ ViewsFit(ManifestOf(d))}

(* After a reload the catalog holds what is in the directories and nothing *)
(* else: not what was there before, and whatever the order of the roots.   *)
(* reloadPackageRoots empties the registry, packageservice.cpp:46, which   *)
(* keeps the first type and the last manifest of a name.                   *)
CatalogIsWhatIsThere ==
  [][\A paths \in disk.roots :
       Reload(paths) /\ Together(Usable(paths)) =>
         LET usable == Usable(paths)
         IN  /\ catalog'.manifests = [id \in {dirs[d].json.id : d \in usable} |->
                  ManifestOf(CHOOSE d \in usable : dirs[d].json.id = id)]
             /\ {<<type.root, type.module>> : type \in {catalog'.types[t] : t \in DOMAIN catalog'.types}}
                  = UNION {{<<d, m.id>> : m \in {n \in Modules(ManifestOf(d)) : n.id # Blank}} : d \in usable}
             /\ \A m \in UNION {{n.id : n \in Modules(ManifestOf(d))} : d \in usable} :
                  \A t \in GetType(catalog'.types, m) : \A d \in usable :
                    m \in {n.id : n \in Modules(ManifestOf(d))} => t.root = d
    ]_vars

(* Two readers check the same graph_config, packagespec.cpp:701 that of a  *)
(* package and compositionmodel.cpp that of a component: what the first    *)
(* lets pass, the second accepts.                                          *)
PackageGraphsAreSound ==
  \A id \in DOMAIN catalog.manifests :
    LET d == catalog.manifests[id].root
    IN  (d \in DOMAIN dirs /\ Readable(dirs, d) /\ "graph_config" \in DOMAIN dirs[d].json)
          => GraphSound(dirs[d].json.graph_config)

(* The instances of the project checked last whose package was found.      *)
Checked == {i \in ToSet(answer.project.instances) : PackageFor(answer.packages, i) # <<>>}

SchemaOf(instance) == Head(PackageFor(answer.packages, instance)).configSchema

(* A condition the schema was read with can be evaluated for every config: *)
(* it was only tried without parameters, configschema.cpp:511.             *)
ConditionsEvaluate ==
  answer.given =>
    \A i \in Checked : SchemaReadable(SchemaOf(i)) =>
      \A p \in ToSet(Entries(SchemaOf(i), "parameters")) :
        \A k \in Conditions \cap DOMAIN p :
          ExpressionBool(ConditionOf(p, k), BundleOf(i.config).parameters).ok

(* What is kept of an accepted config is accepted again, and kept as it is.*)
NormalizedIsStable ==
  (answer.given /\ answer.ok) =>
    \A i \in Checked :
      LET kept == Normalized(SchemaOf(i), BundleOf(i.config))
      IN  /\ BundleValid(SchemaOf(i), BundleOf(ToJson(kept)))
          /\ Normalized(SchemaOf(i), BundleOf(ToJson(kept))) = kept

(* In an accepted project each connection has one source and reaches a     *)
(* sink, no interface is reached twice, and the required ones are in use.  *)
(* validateCompositionModel counts drivers over all connections,           *)
(* compositionmodel.cpp:620.                                               *)
DrivenOnce ==
  (answer.given /\ answer.ok) =>
    LET instances == CompositionInstances(answer.packages, answer.project)
        connections == answer.project.composition.connections
        ends == UNION {{<<c, i>> : i \in DOMAIN connections[c].endpoints} : c \in DOMAIN connections}
        End(e) == connections[e[1]].endpoints[e[2]]
        Seen(e) == ResolvedEnd(instances, AliasContext(instances), End(e))
    IN  /\ \A c \in DOMAIN connections :
             /\ \E e \in ends : e[1] = c /\ Seen(e).sink
             /\ \E e \in ends : e[1] = c /\ Seen(e).source
             /\ \A e, f \in ends : e[1] = c /\ f[1] = c /\ Seen(e).source /\ Seen(f).source => e = f
        /\ \A e, f \in ends : Seen(e).sink /\ Seen(f).sink /\ EndKey(End(e)) = EndKey(End(f)) => e = f
        /\ \A i \in DOMAIN instances : \A interface \in ToSet(instances[i].package.interfaces) :
             interface.required =>
               <<instances[i].id, interface.id>> \in
                 {EndKey(End(e)) : e \in ends}
                   \cup {EndKey(p) : p \in ToSet(answer.project.composition.ports)}
=============================================================================
