# finepaper: TLA+ models, checks and proofs

finepaper is a desktop editor for IP-core projects (`src/qt`). A user places
instances of IP cores, sets their parameters, wires them, validates the design
and generates output from it. This directory holds TLA+ models of the parts of
the editor that keep the user's work: the undo history, the list of instances,
the patches of a design and their snapshots, the several copies of the project
and what happens to them on save and load, the files themselves, the node
editor, the generation of output, and the packages that describe the IP cores,
with the checks of a project against them.

## The system

| Part | State it keeps | Operations | What makes it correct |
| --- | --- | --- | --- |
| `CommandManager` | undo and redo stack, current and next state id | execute, undo, redo, clear | an id always means the same content; bounded history |
| `CompositeCommand` | children, how many are executed, three flags | execute, undo, with rollback in both | a group behaves as one command, whatever child fails |
| `AddIpInstanceCommand`, `SetIpInstanceParameterCommand` | the record created and its place; old and new value | execute, undo | undo takes back exactly what execute did |
| `ProjectStateService`, `ProjectIpService` | instance records; the selected instance | insert, take, set parameter, create, select | unique ids, limits of the catalog, a selection that exists |
| `ProjectService` and the serializers | the open document and the design derived from it | load, save, replace, merge a design | each owner's part survives a merge |
| `DesignEditingService`, project patches | a `ProjectDesign`, snapshots of it | apply a patch, undo, redo | a patch is all or nothing and leaves a valid design |
| `EditorProjectionService`, `Graph` | graph modules and connections | rebuild from the document | the projection shows the document or is marked stale |
| `MainWindow` | dirty flags, clean state id, timer, path | every handler of the session | nothing is lost silently; a clean title means a saved project |
| `NodeEditorWidget`, topology presets, connection rules | scene, stale flag, selection | gestures become patches, the graph is rebuilt, the scene follows | what is shown is what is in the design; no edit the loader refuses |
| Flow runner, generation, validation | run directories, diagnostics, artifacts | run the steps of a flow, one instance after the other | a reported success means complete output from unchanged inputs |
| Plugin host and registries | plugins, services, handlers | register, activate, dispatch | each plugin activated at most once, first handler wins |
| `PackageService` with the registry of modules and the catalog | roots, manifests, module types, entries | reload the package roots | it shows the directories as they are, whatever was loaded before |
| Package reader, configuration schemas, composition model | none | read a package, check a config, check the connections | checks made once hold ever after; what is accepted can be used |
| Migration | none | translate older documents | |
| Command line tool | none | `validate-project` and others | it complains of nothing that is in order, and of all that is not |
| Ruby generators, document contracts | none | one-shot programs | not part of the running editor |

How they interact. The catalog panel and the property panel hand commands to
`CommandManager`; the commands change `ProjectStateService`, whose signals make
`MainWindow` write the records to the document of `ProjectService` and seed
`DesignEditingService` again. The node editor and the topology presets send
patches to `DesignEditingService`, whose signal makes `MainWindow` merge the
design into the document and rebuild graph and records from it. So the same
project exists as records, document, design, graph and file, with two owners
who edit different copies. Packages are read at the start and whenever the user
reloads them; the catalog, the palette and the loader of the graph look types up
in the registry of modules. The command line tool reads the same directories
with another collector of packages and checks configs and connections, which
the editor does not. Everything runs on one thread; the interleaving is
that of the handlers the user and a zero timer trigger, and of calls that fail
halfway.

## The modules

| Module | Models |
| --- | --- |
| `CommandManager` | `commandmanager.cpp`. `undoStack`, `redoStack`, `currentStateId` and `nextStateId` are its members; `document` is what the commands edit, and `meaning` remembers the content each id was minted for. `Execute` and `Undo` of a command are operator constants: relations between command and document before and after the call. |
| `ProjectInstances` | the record list of `ProjectStateService` and creation, limits, names and selection of `ProjectIpService`, as operators. An id `noc_3` is the pair `<<"noc", 3>>`. |
| `InstanceCommands` | the two commands, over `ProjectInstances`. |
| `CompositeCommand` | `compositecommand.cpp`, one child call per step; `phase` and `index` are the loop that is running. |
| `AtomicCommand` | what a composite promises its caller, as one step per call. |
| `ProjectDocuments` | document, design and file, and the conversions and merges between them. |
| `ProjectSession` | `MainWindow` with an open project: one action per handler, with everything the handler calls. Its history is an instance of `CommandManager`, with the instance commands as the commands. |
| `InstanceHistory` | `CommandManager` with the instance commands, for any catalog, and the rules of a record list. |
| `ProjectPatch` | `project_patch.cpp`, the validator of `project_design.cpp` and the reading of a graph_config: each operation maps a design to the design it makes of it, or to `Refused`. |
| `DesignEditing` | `DesignEditingService` and the loop of `applyPatch`, one operation per step. `design`, `undo` and `redo` are its members, `patch`, `next` and `candidate` the locals of the loop. |
| `DesignTimeline` | what the service promises: designs on a line, edits that take effect at once and as a whole. |
| `CompositeCommandProofs`, `DesignEditingProofs`, `GenerationProofs`, `InstanceHistoryProofs`, `NodeEditorProofs`, `PackageCatalogProofs`, `ProjectSessionProofs` | the theorems about the module of that name; `InstanceHistoryProofs` holds those about `CommandManager` as well, in its first part, which asks nothing of the commands but `CommandManagerAssumption`. |
| `InstanceCommandsProofs` | what the instance commands do to records, for the two modules of proofs whose histories hold them. |
| `JsonRecords`, `JsonForms`, `GraphConfigs` | which JSON objects a strict reader accepts, by a schema; what it makes of them and what a writer writes; the schema of a graph_config and its validator. |
| `FlatProject`, `LegacyProject` | the schemas of the two kinds of project file, the checks `projectreader.cpp` and the document reader make beyond the shape, and what `projectdesignserializer.cpp` and `project_document_v1.cpp` write. |
| `ProjectConversions` | the conversions of `ProjectService` and the serializers between file, document, supplement and design, and `mergeDesignIntoDocument`. |
| `ProjectFiles` | opening, creating, editing and saving one project over these. |
| `ConnectionRules` | `ConnectionRuleService::check` for two ports and for a port and a module. |
| `EditorProjection` | how the graph comes about from a design (`graphprojectserializer.cpp`) and the scene from the signals of the graph. |
| `NodeEditor` | `NodeEditorWidget` and the topology preset handler: one action per gesture, with the patch, the rebuild and the signals it ends in. |
| `FlowRunner` | `flowrunner.cpp`, `emitter.cpp`, `artifactmodel.cpp`: one flow in one run directory, step by step, with a process that may do what it likes. |
| `Generation` | `ProjectGenerationRunner::generate` over `FlowRunner`, called again and again, and stopped at any point, with the processes that outlive it. |
| `PackageSpecs` | `packagespec.cpp`: the schema of an `ipcraft.json`, the checks beyond it, the specification read, the collection of packages from a directory and the resolution of a version. |
| `ConfigSchemas` | `configschema.cpp`: the schema of a `config_schema`, conditions, `validateConfigBundle` and the config it keeps. |
| `CompositionChecks` | `validateCompositionModel` of `compositionmodel.cpp`, with aliases and compatibility rules. |
| `PackageCatalog` | `PackageService::reloadPackageRoots` with `ipcraftregistry.cpp`, the manifests, the registry of modules and the entries; `validate-project` of the command line tool. `disk` is the file system, which somebody may change. |
| `MC*` | instances for TLC, and the properties that speak of one instance. |

An action of `ProjectSession` is a handler up to its return to the event loop:
`AddIpcore`, `SetIpParameter`, `UndoInSession` and `RedoInSession` are a call
of the history followed by the writes the signals trigger (`SyncFromRecords`);
`ApplyPatch` is `syncProjectServiceFromDesignEditingService`; `SaveDocument`,
`SaveFails`, `Load` and `OpenFails` are the ends `saveDocument` and
`loadDocument` can come to; `RefreshDocumentState` is the timer.

An action of `NodeEditor` is a handler of the widget with every synchronous call
it ends in: the patch, the synchronisation of the main window, the rebuild with
both passes of the loader, the signals of the graph and the refresh of the
scene. `Generation` takes one step for each file that is removed, each step of
a flow and each file a process writes, because the editor may be stopped
between any two of them; `survivors` are the processes nobody waits for any
more, which write on. `ProjectFiles` takes one step per call; what it
models is what each of the many fields comes to. `PackageCatalog` takes one step
for `reloadPackageRoots`, one for a call of `validate-project` and one for a
change of the directories.

### What is abstracted

In the session a record keeps its core, its id and one parameter. Modules of
the graph are represented by the instance that owns them, and components whose
graph_config lists no object are left out. A patch is one accepted change of
components or views, and a refused one changes nothing; that this is what
patches are is the subject of `DesignEditing`. The catalog is constant. The
parameters of a record are an object, so that `setParameter` never meets a
section that is none (`projectstateservice.cpp:416`).

`ProjectPatch` keeps ids and what refers to them: packages of components, ends
of connections, owners of interfaces, endpoints of relationships, the ids
within a topology. Of a config it keeps which keys there are, of a view which
nodes have a place. Whether a target, a path or a payload has the form its
operation wants is one Boolean of the operation, and so is, of a design,
whether the parts no operation touches are in order; the legacy names `add` and
`set_config` are those of `component.add` and `component.config.set`. The JSON
codec of patches is left out, and so are the types, labels and metadata that no
operation compares. `DesignEditing` takes several steps for a call that no
other call can interrupt: the intermediate copies are what the refinement of
`DesignTimeline` and `WholePatchOrNothing` have to hide.

In `ProjectFiles` a text is blank, a name, or no text at all; an object nobody
looks into is empty, not empty, or no object. Spaces are not trimmed, since no
text has any. No parameter has the name of a section of a config, so that the
same key is not given both loose and under `parameters`; nested layouts are
looked at no deeper than the positions of nodes; the older key of the native
supplement is left out, and other native entries are kept and not read; a
`graph_config` of null, or one without a field (which a modern file may have,
and which then cannot be saved, `projectreader.cpp:1033`), is that of none. The fall-back that guesses a package
from a component's reference is left out: no design the validator accepts
reaches it. The atomic replacement of the file (`QSaveFile`) is one step.

In `NodeEditor` a port is its interface. Module types have up to four of them,
endpoints one: with several, a node that is attached and detached again would
lie in another order, which the comment at `nodeeditorwidget.cpp:1849` speaks
of and the refresh does not restore. Places of nodes are whole or not.
Identifiers of new nodes are fresh, as `generateEntityId` makes them; those of
connections are composed as the code does and may meet. `design.connections`
never come from the node editor and are left out; undo in the session is the
subject of `ProjectSession`.

In `Generation` a file is known by who wrote it, during which call, what it
lists and whether it is good. File names that differ in case only meet in one
directory, as on the file systems the check of `generate()` is for. A process
of a package writes artifacts and manifests, not the record of the runner
(`generation-manifest.json`). At its deadline it is killed with all it started
(`flowrunner.cpp:821`), and nothing of it writes on; but a process that exits
may leave others at work, and when the editor dies the process itself goes on,
since it has a session of its own (`flowrunner.cpp:793`). `disturbed` remembers
which directories such a survivor wrote to since they were last cleared, and
the properties that speak of files except those, as they must (see below). What a survivor writes is an artifact or a manifest of its own call
in its own two directories. Contents of emitted inputs are not verified again by the
runner, only their manifest is, and the model does the same. Paths, globs and
arguments are reduced to whether the code accepts them.

In `PackageCatalog` texts are as in `ProjectFiles`, a path lies inside the
package or not, and the file of a package is an object, missing, or unreadable
in one way. A number is what `Halves` says of it; numbers beyond 64 bits do not
occur. `Lowercase` and `Suffix` are functions on the texts there are. Of a view
file the model knows its root element, the module, the interfaces and the zones
it names. Two packages whose aliases disagree in keys that differ by case only
do not occur together: the order of a hash table decides between them. Every
message is an error here, as it is in the code; a package is accepted when
there is none.

Two bounds hold in the proofs as well. `AllParts` goes into objects five deep; no
schema of the code has more (a package, its rules, a rule and its matches are
four). `ExpressionBool` goes into conditions four deep, where the code sets no
limit and what lies deeper counts as unsupported.

## The runs

| Run | Instance | Question |
| --- | --- | --- |
| `instance_history` | two cores sharing a token, one limited to 1, a scope limited to 2; history depth 3, at most 5 ids after the first | ids name contents, history bounded, stacks meet, instance ids unique, selection exists, limits kept |
| `composite_command` | 3 children | the count is exact, applied means undoable, the composite implements `AtomicCommand`, every call returns |
| `project_session` | one core, 2 instances, of which the graph can show one; two values; one command at most between two clearings; one layout | a clean title means a saved project, both owners' edits survive a command, an unsaved edit shows in the end |
| `project_session_moves` | two layouts and one value; up to three commands between two clearings, on a history of depth 2 | a save writes the layout the user gave the canvas |
| `design_editing` | 3 opening designs, 22 patches of one to three operations; 4 snapshots | a patch as a whole or not at all; snapshots sound and kept; relationships kept |
| `project_files` | 5 files, two of them with every field of their schemas, and all that come of these by spoiling one field: 513 files | what is written can be read and is stable; a modern project can always be saved; file, document and design are one project; a legacy project survives opening and saving |
| `generation` | seven designs of up to four of eight instances; two calls; the process of one instance may outlive the first | unless a process left behind wrote there, files beside a record are of the call it names; success means delivered; the manifest published is the one emitted; directories of other instances are left alone; every call comes back |
| `editor` | up to four instances with six objects and one fresh id; at most 3 additions | the scene is what a refresh would show; the graph is legal; edits are shown; the editor makes nothing the loader refuses; a failure keeps the graph |
| `package_catalog` | 333 packages, sound or spoiled in one place; 137 schemas with 37 configs; 1,752 compositions of three instances; 29 arrangements of directories, which may change into one of two others | a graph_config accepted once is accepted twice; a condition read can be evaluated for ever; a config that was kept is kept again; each interface driven once; the catalog is what is in the directories |
| `session_undone`, `session_config` | as `project_session` | **violated**: see below |
| `editor_layout` | as `editor` | **violated**: see below |

The bounds. Three history entries let the stacks trim, split and be cleared
with entries on both sides; a fourth adds no new relation between neighbours,
and the theorems hold for every depth. Between two clearings ids are minted
at most five times in `instance_history` and three times in
`project_session_moves`, which is more than the stacks hold, so that entries are
trimmed and ids outlive them; and once in the other sessions, where a second
command with two values makes more states than a run can go through: nothing is
trimmed there, and what holds of longer histories is what the theorems on
sessions say, for any number of commands and any depth. Two cores with one token are the
smallest case in which names could collide. With two records at most the limit
of 1 on one core is the one that binds; the limit of 2 on the scope is met but
never decides alone, which would take a third record of a second core
(`LimitsAlwaysKept` is proved for all of them). Three children make a first, a
middle and a last one, the cases of the three loops. Two instances, one
displayable, give the session each combination of an instance on screen or
not, in the design or not, with the old or the new value. `MaxSuffix` and
`MaxRecords` are refusals of the model: in `instance_history` the limits of the
catalog stay below them; in the sessions an addition beyond them is rejected as
one beyond a limit of the catalog is. In `design_editing` every
operation is applied in some reachable state, and each but the unsetting of a
key and the setting of a whole view is refused in another, first in its patch
or after operations that had applied; others fail only in the validation. The
third opening design has two components of one id, which redo of a command can
leave in the document, and a graph_config with malformed entries, which a file
written by hand may have. Four snapshots let two edits lie on
either side of the current design.

The files of `project_files` use every field of both schemas at least once and
every list with at least one entry, so that spoiling one field (missing,
blank, of another type, unknown, a list emptied) meets every check of the
readers; two errors at once add nothing, since the readers stop at the first.
What comes of a spoiled file is edited only by removing a component. Two calls
of `generation` are the least for files of an earlier call to lie about; its
designs hold each kind of instance `generate()` and the runner tell apart, and
the three spellings of one name meet in one directory only across calls. One
survivor, which the usual flow leaves behind in the first call (`Lasting`; any
other process is taken to end with the call or the editor that waits for it), is
enough to write into a directory while it is cleared, filled, or beside the
record of a later call, whichever of the three flows in that directory that
call runs. The designs are few because it writes between any two other steps.
In
`editor` the bound `MaxSize` counts connections, flags, fractional places,
topologies and additions: three allow a connection to be drawn between, or to,
what was added, while an id of it is already in use. `Creatable` says which
types the user makes modules of.

The initial states of `package_catalog` are four families of directories, each
with one project, so that no family multiplies another: packages, of which one
field is spoiled at a time, as for the files above; schemas, spoiled likewise
or with a condition of each shape, for configs in which one section at a time
is wrong in every way `validateConfigBundle` tells apart; up to two connections
of eight kinds with and without aliases and rules, since it takes two to drive
an interface twice; and packages in other places, other versions, twice, with
views that do not fit, loaded from four lists of roots. Only the last family
changes between two reloads, since nothing a reload keeps depends on the other
three.

The checks switch off the deadlock test
where the bound on ids stops the model; `composite_command` has it on.

Fairness. `CompositeCommand` assumes that a call that began goes on: its loops
are ordinary code and child calls return. Nobody is assumed to call. The
session assumes only that the zero timer fires. `Generation` assumes that the
runner's own code runs on and that time passes, so that a deadline comes; and
of the clearing of a directory that it ends, one way or the other, since
`removeRecursively` goes over the entries once even while a survivor makes new
ones (`ClearingEnds`). No
process of a package is assumed to end or even to run, which is why the
deadline is what `EveryGenerationReturns` rests on. Everything else, the
user's doing, has no fairness; the editor and the project files have no
liveness property, since nothing in them happens unless the user wants it.

### Where the code differs from what is said of it

Three runs check what a test or a document says and find it violated:

* `session_undone`: undo of an addition, while a design edit is unsaved, merges
  the instance just removed back into the document as the design's own.
* `session_config`: a parameter set by a patch loses against the old copy in
  the record when the project is saved.
* `editor_layout`: a node moved in a zoomed scene gets a fractional place. The
  next rebuild merges places over parameters of the same name, which some types
  want whole, and fails; every later edit that rebuilds the graph is refused
  until the place is whole again. Opening the project reads the place only as a
  place, so that the first such edit after opening fails again.

The two of the session are why the properties of the passing sessions say
what they say: `OwnersMerge` speaks of edits that are unsaved and of
components, not of every value, and `CleanIsSaved` compares what is on disk with
what the editor holds after the merges.

More was met while modelling that no run is about, because no document speaks
against it or the code behind it is not in use; the models have these steps,
and the passing properties are stated so as to be true beside them:

* `redo()` restores the id of the first execution (`commandmanager.cpp:88`). A
  composite that entered the history half applied, and is undone and redone in
  full, then comes back under the id of the half applied state. Nothing in the
  editor puts composites into the history today; the theorems on state ids
  assume commands that do not do this (`ReversibleCommands`).
* A component the projection cannot show is merged back by commands only while
  the design's dirty flag is set, which a save resets (`mainwindow.cpp:1683`):
  after a save, the next command drops it. `ipcatalogpanel_test.cpp:1608` says
  "saved design-edit component should survive MainWindow save and reload", of
  which this is the continuation nobody tested.
* An added relationship needs two entries in its list of endpoints, counted
  before entries that are no objects are dropped (`project_patch.cpp:710`).
* A patch of views alone clears the stale flag without rebuilding
  (`mainwindow.cpp:1666`). Applying the same topology preset once more is such a
  patch. `FailureIsMarked` in `NodeEditor` states that a failed rebuild stays
  marked; TLC refutes it at once, and it is in no run.
* A legacy file with a connection of type `attachment`, or with layout keys in
  a config, opens and can never be saved; nor can a modern file whose
  graph_config is not sound, at which the reader does not look.
  `ModernCanBeSaved` assumes sound graphs.
* Saving a legacy file drops the description, the display names, the last runs,
  artifacts, diagnostics and native entries of it. `LegacyIsKept` lists what is
  kept.
* The composition of a legacy file stays in the document whatever is done to
  the design: a connection removed comes back with the next save, and one whose
  component was removed makes every save fail.
* In a legacy project an instance without a type makes every patch be refused
  until the project has been saved and opened again, and the views of its
  layout appear in the design only then.
* A connection whose kind is blank becomes one of kind `interface` on opening.
* Of two versions of one package the registry keeps the module types of the
  first and the manifest of the last, and which of them the catalog returns for
  the id is the order of loading; `CatalogIsWhatIsThere` speaks of packages that
  go together. An instance's locked version is compared with neither
  (`projectflowsupport.cpp:103`), while the command line tool resolves exactly
  that version.
* Of packages in one and the same version the editor loads none and the tool
  keeps the first; a package inside a package is seen by the editor only.
* A package is accepted with a `config_schema` that `ConfigSchema::fromJson`
  refuses: the reader of packages looks at its sections and no further. Tables
  of a config that the schema does not declare are passed over without a word,
  unlike parameters, documents and files.
* The editor dies while a process of a package runs, and the process does not:
  it goes on writing into directories the next call has cleared, and what it
  wrote there is collected and listed in the record of that call. A test says
  "manifest should not report stale artifacts from previous runs"
  (`projectgenerationrunner_test.cpp:1143`), of files that are there before the
  call. `StaleIsNotReported` in `Generation` states it; TLC refutes it in twelve
  states, and it is in no run. For this reason the properties of `Generation`
  leave out directories a survivor has written to since they were cleared:
  `RecordsAreFresh`, what `SuccessIsDelivered` says of artifacts, and
  `InputsAreEmitted`. That success means a record of this call and a snapshot,
  that directories of other instances are left alone but by survivors of their
  own, and that calls return, is unconditional.
* When an output directory cannot be cleared, the success record of an earlier
  call stays in it; the answer is a failure, and `SuccessIsDelivered` speaks of
  answers.

## The proofs

Each theorem holds for every value of the constants that satisfies the named
assumption of the module (`CommandManagerAssumption` and so on); TLC evaluates
these assumptions in the runs. Each rests on an inductive invariant, stronger
than what the theorem says:

| Module | Theorems | The invariant, and why the property alone is not inductive |
| --- | --- | --- |
| `InstanceHistoryProofs`, first part | `TypeCorrect`, `HistoryIsBounded`, `StateIdsNameContents`, `StacksAlwaysMeet`, `UndoAlwaysReachesCommand` | `Sound`: each entry's command leads from the content of its first id to that of its second, the entries of a stack and the current state form one chain of ids. `StateIdNamesContent` says nothing of the entries undo and redo come back to. |
| `InstanceCommandsProofs` | `InstanceCommandsTyped` | |
| `InstanceHistoryProofs`, second part | `InstanceCommandsAreReversible`, `InstanceStateIdsNameContents`, `InstanceIdsAlwaysUnique`, `LimitsAlwaysKept`, `SelectionAlwaysExists` | `Sound` and `MeaningsKeep`: the rules hold of the content of every id ever minted, not of the present list alone, which undo and redo replace. |
| `CompositeCommandProofs` | `TypeCorrect`, `CountIsExact`, `AppliedIsUndoable`, `ImplementsAtomic` | `Inv`: for each phase the interval of children that are applied, in terms of the loop variable; `CallInv`: what of the call the caller will see. |
| `DesignEditingProofs` | `TypeCorrect`, `ImplementsTimelineHolds`, `SnapshotsAlwaysSound`, `PatchesAreWhole`, `RelationshipsAlwaysKept` | `LaterAreValid`: the validator accepts every snapshot but the first; `LoopInv`: the copy is the fold of the operations so far; `CopyKeeps`: it has every relationship of the current design that no operation so far takes, in the order they were in. |
| `GenerationProofs` | `RecordsAlwaysFresh`, `SuccessAlwaysDelivered`, `InputsAlwaysEmitted`, `OnlyOwnDirectoriesTouched` | `Inv`: no file is of a later call, what is to do is the end of the design, directories are apart, what of this call lies at each step of a flow in those no survivor disturbs, and who the survivors are (`SurvivorsKnown`, `ProcessInFlow`). |
| `ProjectSessionProofs` | `CleanAlwaysSaved`, `OwnersAlwaysMerge`, `LayoutAlwaysSaved` | `SessionInv`: the copies agree as far as the flags say, and the ids on the stacks are such that every undo and redo that takes effect is seen. |
| `NodeEditorProofs` | `GraphAlwaysLegal`, `EditsAlwaysShown`, `FailureAlwaysKeepsGraph`, `ViewStaysCanonical`, `ViewAlwaysCanonical` | `EditorInv`: the design is well formed, only components have a graph_config, of any two connections of the graph the earlier one does not keep the rules from taking the later one, each has an id of its own and joins modules that are there; `AllValid`: neither the design nor the graph has a connection said to be invalid. |
| `PackageCatalogProofs` | `AcceptedAreDrivenOnce`, `PackageGraphsAlwaysSound`, `ConditionsAlwaysEvaluate`, `NormalizedStaysStable` | `AnswerInv`: the last answer is what the check says of that project with those packages, although the directories may have changed since. The work is in the lemmas about what the checks ask. |

**History.** `StateIdsNameContents` and its like assume of the commands what
`CommandManager` silently assumes: `ReversibleCommands`, that a command
remembers (`Leads`) how to lead a content to another and back, and that a
failed call changes nothing. Trimming, popping and pushing keep chains by the
lemmas on stacks; minting keeps the meaning of older ids.
`InstanceCommandsAreReversible` proves that contract of the two commands the
editor has, for every catalog, whichever tokens and limits IP cores share:
taking a record out of the place it was put in gives back the list, as long as
the list is the one the command left. So `InstanceStateIdsNameContents` needs
no assumption on commands. Composites break the contract (see above).

Unique ids hold although an id is formed from a token that IP cores may share,
because creation looks at every id of the list (`NextIdFresh`), and undo and
redo only come back to lists that were once created so. The limits hold for the
same reason: neither undo nor redo looks at one. What is proved of the limit of
a scope is what the code promises: an IP core checks the scopes its own entry
limits, counting the instances whose entries limit that scope as well, and the
instances of an entry that states no limit are bound by none; of several
entries the largest number is sure. `OpenedProjectsAssumption` says that a
project keeps these rules when it is opened, which no code checks.

**Composites.** For any number of children, which may fail at any call, each
step of the loops is a step of `AtomicCommand` or none. The abstract state is
what the caller sees between calls; `CallInv` keeps, while a loop runs, the
children that were applied when the call began, and which of them refused to go
back, so that the step that returns can be shown to be the abstract call.

**Patches.** `LineEntries` gives the entries of a timeline; `LineKept` and
`LineKeptBack`, that undo and redo leave it as it is, are the core of the
refinement, since the abstract steps demand the very same line. Soundness needs
`ValidIsSound`: the validator's checks are enough for every reference to lead
somewhere. `PatchesAreWhole` compares the loop with a fold over the patch that
stops at the first refusal; the two are brought together one operation at a
time (`OneByOne`, a least counterexample among the natural numbers, stands for
the induction).

`RelationshipsAlwaysKept` looks inside the operations: a relationship leaves the
design only if an operation of the patch names it (`Takes`) or one of the
objects it joins. Removals filter the lists of a design (`Kept`, a recursive
function over the places of a list, of whose result `KeptEntries` says that it
has the entries chosen and no other), and an operation on one graph leaves the
relationships of the others alone. `DesignsFormed` is what carries this through
the loop: each list of a design is a list, of entries that have an id. It is
assumed of the design opened and of the components a patch adds (`IsDesign`,
`IsComponent`), as the reader of projects and of patches makes sure, and nothing
else of them is.

**Generation.** The directories of an instance are followed through
`clearOutput`, `clearRun`, the flow and the copy of its output. Between these
a process writes what it likes into its run directory; what is proved is that
none of it can be taken for the record or the emitted manifest of this call. A
crash leaves the files, whose calls are then earlier ones, and maybe a process,
which is of its own call and writes in its own two directories at any later
moment. Whatever it touches is `disturbed` until it is cleared again; of the
others the invariant says that each file beside the record is of the record's
call (`FreshAfter` follows that through the clearing, the flow and the copy).
Two instances of a
call never share a directory, since `generate()` refuses a design where two
outputs meet.

**Session.** `HistoryInv` says that ids climb along both stacks, through the
current one; so each undo and redo that takes effect moves the id, and a call
that does not move it leaves the records alone. That is what `ReflectCommand`,
which looks at the id, rests on. `Agree` says what clean flags promise: without
unsaved records the design is that of the document and, unless the editor is
marked stale, has every record; without an unsaved design either, it is the
file. `InTouch` says that the flag shown is the one computed, or the timer is
armed. The loop that merges the design's components back in
(`WithMissing`) is followed component by component: nothing that was there is
lost or moved, and every id of the design is there at the end.

**Node editor.** A rule on two ports is split into one on what they are
(`Compatible`) and one on each connection there is (`Blocks`), by `RuleOnEach`.
The loader asks it of each connection with those before; that it then holds
with those after as well is `EitherOrder`, which fails in two cases the model
now names. A connection that a file says to be invalid takes no interface, so
that a later one may (`GraphIsLegal` excepts it), and a port whose
classes and whose cardinality disagree would be judged by the one when it was
first and by the other when it came second; `PortsAssumption` says what
`moduleprovider.cpp:471` and `connectionruleservice.cpp:205` make sure of, that
both come from `multiConnection`. The loader's loop is followed connection by
connection (`LoadedSoFar`), so that a graph that was loaded shows every record;
a toggled module (`FlagShown`) and objects a record edit writes down
(`MaterializedIs`) are shown without a rebuild. `Types` are the module types
there are, and `NodeEditorAssumption` that the project opened is one that could
be loaded.

The scene is the outcome of signals (`Follow`), each of which hides or shows
something in the scene there is by then: a module or a connection that came, a
host presented once more. `CanonicalView` says without any order what should
come of them: the modules of the instance that no collapsed host absorbs, and
the connections between these. `RefreshIsCanonical` and `LoadIsCanonical` follow
a refresh and a load signal by signal to that view, `ToggleIsCanonical` shows
that a toggled host leads from the view of the graph before to that of the graph
after; a presentation hides the edges at its host first, so that it does not
matter which it finds (`Presented`). All three need `Apart`: what a collapsible
host absorbs is connected with that host alone. Without it the order decides: of
two hosts that share an endpoint, one collapsed and one expanded, the host
presented last hides it or shows it, and a refresh presents them in the order of
the modules, a toggle in that of the user. `ViewStaysCanonical` has this as a
hypothesis on the behaviour, for any packages. `ViewAlwaysCanonical` derives it,
from hypotheses on what is opened: the attached types have one interface, which
takes one connection (`AttachedAreSingle`), and no connection of the file has
the status "invalid", which takes no interface. Then a second connection at an
attached module would have been refused by the rules (`LeavesApart`), at the
gesture and by the loader, and the editor itself never writes that status
(`IsOption`). The packages in the repository are such: `finepaper-noc`,
`opennoc`, `ravenoc` and `vendor-meshnoc` give each of their attached types a
single interface without `multi_connection`; so are the constants of the run
`editor`.

**Packages.** Four properties of checks made by code that is not the code that
relies on them. For a graph_config two schemas, one of each reader, are compared
level by level: `Twins` are the types both have for the same object, and
`PartsAreTwins` says that whatever the composition model finds in an object the
package reader has found as well, and asked no less of (`TwinFits`). Of a
condition, what is wrong with it never depends on the parameters
(`EvaluatedAnyhow`): every operand is looked at, whether it decides or not. For
`DrivenOnce` the count of sinks, the sources and the marks for required
interfaces, which `validateCompositionModel` keeps while it goes over the
connections and then over the ports, are brought together into what they say of
the project. What is kept of a config without errors is followed section by
section (`KeptIsKept`): all parameters, all rows with all their columns
(`AllRowsKept`), of a document its format and the content in the form that is
kept, of a file its path; this is written, read back as it is
(`BundleIsReadBack`), without errors, and kept as it is. That a document's
format is a text that is not blank, which this needs, comes from the schema's
reader (`DocumentsHaveFormats`).

`AcceptedAreDrivenOnce` and `NormalizedStaysStable` assume `ProjectsAreJson` of
the projects there are: lists of connections, ends and rows are lists, a row and
the parameters of a config are objects. The JSON parser yields nothing else.
`NormalizedStaysStable` has one hypothesis more, `NoMarkers`: no schema declares
the id that `Odd` has, by which the model tells what is no object from one that
is. Both hold in the run `package_catalog`.

What stays with TLC:

* liveness (`EveryCallReturns`, `EveryGenerationReturns`, `EditsShow`), and the
  fairness behind it: out of the provers' reach, as is ENABLED;
* `ProjectFiles` (`WrittenIsStable`, `ModernCanBeSaved` and the action
  properties): what is read and written follows a schema recursively
  (`JsonForms`), and recursive operators are out of the provers' reach;
* `CatalogIsWhatIsThere`: the candidates, the loaded packages and the registry
  are folds and selections over sequences, of which the provers know nothing
  without an induction for each;
* `NodeEditor`: that an accepted edit can be loaded (`AcceptedEditsLoad`). It
  depends on the catalog and the order in which a file lists its connections;
* the scene of packages whose endpoints have several interfaces, beyond what
  `ViewStaysCanonical` says of them.

Type invariants are stated for the modules with proofs, where they carry the
induction; TLC checks the others without.

## Not modelled, and the plan

Not modelled:

* Plugin host and registries: the built-in plugins are registered once at the
  start, one after the other; what can go wrong there is that one of them
  throws.
* Validation: reports on a design and changes nothing of it.
* Panels, dialogs and settings, apart from the calls that change the project;
  the drawing and arranging of the scene.
* The Ruby generators, the contracts and schemas, the examples: programs and
  data beside the editor. `Generation` lets a generator do what it likes.

In part:

* The main window without an open project, its start and its end.
* The session knows of the graph only which instances own modules, and of a
  patch that it is one accepted change; the graph itself is the subject of
  `NodeEditor`, patches that of `DesignEditing`.
* Topology presets: the handler, but not the mesh, ring and star builders,
  which the running editor does not call, nor the modal prompt for parameters.
* Removal of instance records: the main window refuses it.
* Packages: the older XML descriptions of IP cores, the conversion of single
  parameters and interfaces to those of a module type, and the built-in
  validator of packages, which reports on them and changes nothing.
* The composition model's translations from and to JSON, and `migration.cpp`.
* The command line tool, apart from `validate-project`: readers, emitter and
  flow runner, which have modules of their own, called once.

Planned, in this order:

1. The session over two cores with the patches of `DesignEditing`, for the
   duplicate ids redo can make and the commands a patch leaves stuck.
2. The catalog reloaded while a project is open, composed with the session.
3. Proofs: the readers and writers of `ProjectFiles`, once they go over the parts
   of an object as `Sound` does, instead of recursively; the folds of
   `PackageCatalog`.
