----------------------- MODULE PackageCatalogProofs -----------------------
(***************************************************************************)
(* What is proved of the catalog of packages and the check of projects:    *)
(* accepted projects are driven once, the two readers of a graph_config    *)
(* agree, a condition a schema was read with can always be evaluated, and  *)
(* what is kept of an accepted config is accepted again and kept as it is. *)
(***************************************************************************)
EXTENDS PackageCatalog, FiniteSetTheorems, SequenceTheorems, NaturalsInduction,
        WellFoundedInduction, TLAPS

-----------------------------------------------------------------------------
(* Accepted projects.                                                      *)
IsList(s) == \E n \in Nat : DOMAIN s = 1 .. n

(* The connections of a project, and the ends of each, are lists.          *)
Listed(project) ==
  LET connections == project.composition.connections
  IN  IsList(connections) /\ \A c \in DOMAIN connections : IsList(connections[c].endpoints)

(* The parameters of a config are an object, and the rows of its tables    *)
(* are lists of objects.                                                   *)
IsObject(json) == json = [k \in DOMAIN json |-> json[k]]

ConfigIsJson(config) ==
  /\ IsObject(BundleOf(config).parameters)
  /\ \A id \in DOMAIN BundleOf(config).tables :
       LET rows == RowsOf(BundleOf(config).tables[id])
       IN  /\ \E T : rows \in Seq(T)
           /\ \A i \in DOMAIN rows : IsObject(rows[i])

ProjectIsJson(project) ==
  Listed(project) /\ \A i \in ToSet(project.instances) : ConfigIsJson(i.config)

ProjectsJson(d) == \A project \in d.projects : ProjectIsJson(project)

(* What an answer says of a project is what the check says.                *)
AnswerIsCheck ==
  answer.given =>
    /\ ProjectIsJson(answer.project)
    /\ answer.ok => StaticallyValid(answer.packages, answer.project)

(* A list has finitely many places.                                        *)
LEMMA ListIsFinite ==
  ASSUME NEW s, IsList(s)
  PROVE  IsFiniteSet(DOMAIN s)
BY FS_Interval DEF IsList

(* Of a set with one element at most, any two elements are the same.       *)
LEMMA OneAtMost ==
  ASSUME NEW S, IsFiniteSet(S), Cardinality(S) <= 1, NEW x \in S, NEW y \in S
  PROVE  x = y
<1>1. Cardinality(S) \in Nat
  BY FS_CardinalityType
<1>2. Cardinality(S) # 0
  BY FS_EmptySet
<1>3. Cardinality(S) = 1
  BY <1>1, <1>2
<1> QED BY <1>3, FS_Singleton

(* What drives an interface is a finite set, since connections and ends    *)
(* are.                                                                    *)
LEMMA DrivenIsFinite ==
  ASSUME NEW instances, NEW connections, NEW key, IsList(connections),
         \A c \in DOMAIN connections : IsList(connections[c].endpoints)
  PROVE  IsFiniteSet(Driven(instances, connections, key))
<1> DEFINE driving == {d \in DOMAIN connections : Drives(instances, connections[d])}
           Of(c) == {<<c, i>> : i \in SinkEnds(instances, connections[c], key)}
<1>1. IsFiniteSet(driving)
  BY ListIsFinite, FS_Subset, driving \subseteq DOMAIN connections
<1>2. ASSUME NEW c \in DOMAIN connections
      PROVE  IsFiniteSet(Of(c))
  <2> DEFINE there == SinkEnds(instances, connections[c], key)
  <2>1. IsFiniteSet(there)
    <3>1. there \subseteq DOMAIN connections[c].endpoints
      BY DEF SinkEnds
    <3>2. IsFiniteSet(DOMAIN connections[c].endpoints)
      BY ListIsFinite
    <3> QED BY <3>1, <3>2, FS_Subset
  <2> HIDE DEF there
  <2>2. IsFiniteSet({<<c, i>> : i \in there})
    <3> DEFINE f == [i \in there |-> <<c, i>>]
    <3>1. f \in Surjection(there, {<<c, i>> : i \in there})
      BY DEF Surjection
    <3> QED BY <2>1, <3>1, FS_Surjection
  <2> QED BY <2>2 DEF there
<1>3. IsFiniteSet({Of(c) : c \in driving})
  <2> HIDE DEF driving
  <2> DEFINE f == [c \in driving |-> Of(c)]
  <2> HIDE DEF Of
  <2>1. f \in Surjection(driving, {Of(c) : c \in driving})
    BY DEF Surjection
  <2> QED BY <1>1, <2>1, FS_Surjection
<1>4. \A S \in {Of(c) : c \in driving} : IsFiniteSet(S)
  BY <1>2
<1>5. IsFiniteSet(UNION {Of(c) : c \in driving})
  BY <1>3, <1>4, FS_UNION
<1> QED BY <1>5 DEF Driven

(* What the check of a composition asks is what makes it driven once.      *)
LEMMA ValidIsDrivenOnce ==
  ASSUME AnswerIsCheck
  PROVE  DrivenOnce
<1> SUFFICES ASSUME answer.given, answer.ok
             PROVE  DrivenOnce
  BY DEF DrivenOnce
<1> DEFINE instances == CompositionInstances(answer.packages, answer.project)
           composition == answer.project.composition
           connections == composition.connections
           ends == UNION {{<<c, i>> : i \in DOMAIN connections[c].endpoints} : c \in DOMAIN connections}
           End(e) == connections[e[1]].endpoints[e[2]]
           Seen(e) == ResolvedEnd(instances, AliasContext(instances), End(e))
<1>1. /\ IsList(connections)
      /\ \A c \in DOMAIN connections : IsList(connections[c].endpoints)
  BY DEF AnswerIsCheck, ProjectIsJson, Listed
<1>2. CompositionValid(instances, composition)
  BY DEF AnswerIsCheck, StaticallyValid
<1>3. \A e \in ends : /\ e[1] \in DOMAIN connections
                      /\ e[2] \in DOMAIN connections[e[1]].endpoints
                      /\ e = <<e[1], e[2]>>
  OBVIOUS
<1>4. \A c \in DOMAIN connections : \A i \in DOMAIN connections[c].endpoints : <<c, i>> \in ends
  OBVIOUS
<1>5. \A c \in DOMAIN connections : Drives(instances, connections[c])
  BY <1>2 DEF CompositionValid
<1> HIDE DEF ends, connections, instances, composition
<1>6. ASSUME NEW c \in DOMAIN connections
      PROVE  /\ \E e \in ends : e[1] = c /\ Seen(e).sink
             /\ \E e \in ends : e[1] = c /\ Seen(e).source
             /\ \A e, f \in ends : e[1] = c /\ f[1] = c /\ Seen(e).source /\ Seen(f).source => e = f
  <2> DEFINE Resolved(i) == ResolvedEnd(instances, AliasContext(instances), connections[c].endpoints[i])
             sources == {i \in DOMAIN connections[c].endpoints : Resolved(i).source}
             sinks == {i \in DOMAIN connections[c].endpoints : Resolved(i).sink}
  <2>1. Cardinality(sources) = 1 /\ sinks # {}
    BY <1>5 DEF Drives
  <2>2. IsFiniteSet(sources)
    BY <1>1, ListIsFinite, FS_Subset, sources \subseteq DOMAIN connections[c].endpoints
  <2>3. PICK source : sources = {source}
    BY <2>1, <2>2, FS_Singleton
  <2>4. PICK sink : sink \in sinks
    BY <2>1
  <2>5. <<c, sink>> \in ends /\ Seen(<<c, sink>>).sink
    BY <1>4, <2>4
  <2>6. <<c, source>> \in ends /\ Seen(<<c, source>>).source
    <3>1. source \in sources
      BY <2>3
    <3> QED BY <1>4, <3>1
  <2>7. ASSUME NEW e \in ends, NEW f \in ends, e[1] = c, f[1] = c, Seen(e).source, Seen(f).source
        PROVE  e = f
    <3>1. e[2] \in sources /\ f[2] \in sources
      BY <1>3, <2>7
    <3>2. e[2] = f[2]
      BY <2>3, <3>1
    <3> QED BY <1>3, <2>7, <3>2
  <2> QED BY <2>5, <2>6, <2>7
<1>7. ASSUME NEW e \in ends, NEW f \in ends, Seen(e).sink, Seen(f).sink, EndKey(End(e)) = EndKey(End(f))
      PROVE  e = f
  <2> DEFINE driven == Driven(instances, connections, EndKey(End(e)))
  <2>1. End(e) \in EndsOf(connections)
    BY <1>3 DEF EndsOf, ToSet
  <2>2. Cardinality(driven) <= 1
    BY <1>2, <2>1 DEF CompositionValid, SinkDriverCount, connections
  <2>3. IsFiniteSet(driven)
    BY <1>1, DrivenIsFinite
  <2>4. e \in driven /\ f \in driven
    BY <1>3, <1>5, <1>7 DEF Driven, SinkEnds
  <2> QED BY <2>2, <2>3, <2>4, OneAtMost
<1>8. ASSUME NEW i \in DOMAIN instances, NEW interface \in ToSet(instances[i].package.interfaces),
             interface.required
      PROVE  <<instances[i].id, interface.id>> \in
                {EndKey(End(e)) : e \in ends} \cup {EndKey(p) : p \in ToSet(composition.ports)}
  <2>1. <<instances[i].id, interface.id>> \in Connected(instances, composition)
    BY <1>2, <1>8 DEF CompositionValid, RequiredConnected
  <2>2. PICK end \in EndsOf(connections) \cup ToSet(composition.ports) :
          <<instances[i].id, interface.id>> = EndKey(end)
    BY <2>1 DEF Connected, connections
  <2>3. CASE end \in EndsOf(connections)
    <3>1. PICK c \in DOMAIN connections : end \in ToSet(connections[c].endpoints)
      BY <2>3 DEF EndsOf
    <3>2. PICK j \in DOMAIN connections[c].endpoints : end = connections[c].endpoints[j]
      BY <3>1 DEF ToSet
    <3>3. <<c, j>> \in ends /\ End(<<c, j>>) = end
      BY <1>4, <3>2
    <3> QED BY <2>2, <3>3
  <2> QED BY <2>2, <2>3
<1> QED BY <1>6, <1>7, <1>8 DEF DrivenOnce, ends, connections, instances, composition

(* The projects there may be are JSON of that shape, and no edit of the    *)
(* directories brings one that is not.                                     *)
ProjectsAreJson ==
  /\ \A d \in Disks : ProjectsJson(d)
  /\ \A d : ProjectsJson(d) => \A revision \in Revised(d) : ProjectsJson(revision)

AnswerInv == ProjectsJson(disk) /\ AnswerIsCheck

(* Every answer of validate-project is the check of what was read.         *)
LEMMA AnswerIsAlwaysCheck ==
  ASSUME ProjectsAreJson
  PROVE  Spec => []AnswerInv
<1>1. Init => AnswerInv
  BY DEF Init, AnswerInv, AnswerIsCheck, NoAnswer, ProjectsAreJson
<1>2. AnswerInv /\ [Next]_vars => AnswerInv'
  <2> SUFFICES ASSUME AnswerInv, [Next]_vars
               PROVE  AnswerInv'
    OBVIOUS
  <2>1. ASSUME NEW paths \in disk.roots, Reload(paths)
        PROVE  AnswerInv'
    <3>1. UNCHANGED <<disk, answer>>
      BY <2>1 DEF Reload
    <3> QED BY <3>1 DEF AnswerInv, AnswerIsCheck
  <2>2. ASSUME NEW project \in disk.projects, ValidateProject(disk.searched, project)
        PROVE  AnswerInv'
    <3> DEFINE found == CollectPackages(dirs, disk.searched)
    <3>1. /\ disk' = disk
          /\ answer' = [given |-> TRUE, project |-> project, packages |-> found.packages,
                        ok |-> found.clean /\ StaticallyValid(found.packages, project)]
      BY <2>2 DEF ValidateProject
    <3>2. ProjectIsJson(project)
      BY DEF AnswerInv, ProjectsJson
    <3> HIDE DEF found
    <3>3. /\ answer'.project = project /\ answer'.packages = found.packages
          /\ answer'.ok => StaticallyValid(found.packages, project)
      BY <3>1
    <3> QED BY <3>1, <3>2, <3>3 DEF AnswerInv, AnswerIsCheck
  <2>3. CASE EditPackages
    BY <2>3, ProjectsAreJson DEF EditPackages, AnswerInv, AnswerIsCheck, ProjectsAreJson
  <2>4. CASE UNCHANGED vars
    BY <2>4 DEF AnswerInv, AnswerIsCheck, vars
  <2> QED BY <2>1, <2>2, <2>3, <2>4 DEF Next
<1> QED BY <1>1, <1>2, PTL DEF Spec

(* In a project the command line tool accepts each connection has one      *)
(* source and reaches a sink, no interface is driven twice, and the        *)
(* required ones are in use, whatever the packages.                        *)
THEOREM AcceptedAreDrivenOnce ==
  ASSUME ProjectsAreJson
  PROVE  Spec => []DrivenOnce
<1>1. AnswerInv => DrivenOnce
  BY ValidIsDrivenOnce DEF AnswerInv
<1> QED BY <1>1, AnswerIsAlwaysCheck, PTL

-----------------------------------------------------------------------------
(* The two readers of a graph_config.                                      *)

(* The types the two readers have for the same object.                     *)
Twins ==
  {<<"graph", "package graph">>, <<"graph object", "package object">>,
   <<"relationship", "package relationship">>, <<"graph endpoint", "package endpoint">>}

LEMMA GraphTypes ==
  /\ GraphSchema["graph"] = GraphType
  /\ GraphSchema["graph object"] = GraphObjectType
  /\ GraphSchema["relationship"] = RelationshipType
  /\ GraphSchema["graph endpoint"] = GraphEndpointType
BY DEF GraphSchema

LEMMA PackageTypes ==
  /\ PackageSchema["package"] = PackageType
  /\ PackageSchema["package graph"] = PackageGraphType
  /\ PackageSchema["package object"] = PackageObjectType
  /\ PackageSchema["package relationship"] = PackageRelationshipType
  /\ PackageSchema["package endpoint"] = PackageEndpointType
BY DEF PackageSchema

(* Twins want the same of an object, but for what is blank.                *)
Alike(s, v) ==
  /\ FieldsOf(s) = FieldsOf(v) /\ s.must = v.must /\ s.free = v.free
  /\ s.filled \subseteq v.filled /\ s.checked = v.checked /\ s.enum = v.enum
  /\ s.block = v.block /\ s.map = v.map /\ s.pairs = v.pairs
  /\ DOMAIN s.list = DOMAIN v.list /\ DOMAIN s.part = {} /\ DOMAIN v.part = {}
  /\ \A k \in DOMAIN s.list : <<s.list[k], v.list[k]>> \in Twins
  /\ DOMAIN s.variants = {} /\ DOMAIN v.variants = {}

LEMMA TypesAreAlike ==
  /\ Alike(GraphType, PackageGraphType)
  /\ Alike(GraphObjectType, PackageObjectType)
  /\ Alike(RelationshipType, PackageRelationshipType)
  /\ Alike(GraphEndpointType, PackageEndpointType)
<1>1. Alike(GraphType, PackageGraphType)
  <2>1. /\ GraphType.list = [objects |-> "graph object", relationships |-> "relationship"]
        /\ PackageGraphType.list = [objects |-> "package object", relationships |-> "package relationship"]
    BY DEF GraphType, PackageGraphType, Plain
  <2>2. /\ DOMAIN GraphType.list = DOMAIN PackageGraphType.list
        /\ \A k \in DOMAIN GraphType.list : <<GraphType.list[k], PackageGraphType.list[k]>> \in Twins
    <3>1. DOMAIN GraphType.list = {"objects", "relationships"} /\ DOMAIN PackageGraphType.list = {"objects", "relationships"}
      BY <2>1
    <3>2. /\ GraphType.list.objects = "graph object" /\ PackageGraphType.list.objects = "package object"
          /\ GraphType.list.relationships = "relationship" /\ PackageGraphType.list.relationships = "package relationship"
      BY DEF GraphType, PackageGraphType, Plain
    <3> QED BY <3>1, <3>2 DEF Twins
  <2>3. /\ GraphType.must = PackageGraphType.must /\ GraphType.free = PackageGraphType.free
        /\ GraphType.filled \subseteq PackageGraphType.filled /\ GraphType.checked = PackageGraphType.checked
        /\ GraphType.enum = PackageGraphType.enum /\ GraphType.block = PackageGraphType.block
        /\ GraphType.map = PackageGraphType.map /\ GraphType.pairs = PackageGraphType.pairs
        /\ GraphType.text = PackageGraphType.text /\ GraphType.part = NoFields /\ PackageGraphType.part = NoFields
        /\ GraphType.variants = NoFields /\ PackageGraphType.variants = NoFields
    BY DEF GraphType, PackageGraphType, Plain
  <2> QED BY <2>2, <2>3 DEF Alike, FieldsOf, NoFields
<1>2. Alike(GraphObjectType, PackageObjectType)
  BY DEF Alike, GraphObjectType, PackageObjectType, Plain, NoFields, FieldsOf
<1>3. Alike(RelationshipType, PackageRelationshipType)
  <2>1. /\ RelationshipType.list = [endpoints |-> "graph endpoint"]
        /\ PackageRelationshipType.list = [endpoints |-> "package endpoint"]
    BY DEF RelationshipType, PackageRelationshipType, Plain
  <2>2. /\ DOMAIN RelationshipType.list = DOMAIN PackageRelationshipType.list
        /\ \A k \in DOMAIN RelationshipType.list : <<RelationshipType.list[k], PackageRelationshipType.list[k]>> \in Twins
    <3>1. DOMAIN RelationshipType.list = {"endpoints"} /\ DOMAIN PackageRelationshipType.list = {"endpoints"}
      BY <2>1
    <3>2. /\ RelationshipType.list.endpoints = "graph endpoint" /\ PackageRelationshipType.list.endpoints = "package endpoint"
      BY DEF RelationshipType, PackageRelationshipType, Plain
    <3> QED BY <3>1, <3>2 DEF Twins
  <2>3. /\ RelationshipType.must = PackageRelationshipType.must /\ RelationshipType.free = PackageRelationshipType.free
        /\ RelationshipType.filled \subseteq PackageRelationshipType.filled /\ RelationshipType.checked = PackageRelationshipType.checked
        /\ RelationshipType.enum = PackageRelationshipType.enum /\ RelationshipType.block = PackageRelationshipType.block
        /\ RelationshipType.map = PackageRelationshipType.map /\ RelationshipType.pairs = PackageRelationshipType.pairs
        /\ RelationshipType.text = PackageRelationshipType.text /\ RelationshipType.part = NoFields /\ PackageRelationshipType.part = NoFields
        /\ RelationshipType.variants = NoFields /\ PackageRelationshipType.variants = NoFields
    BY DEF RelationshipType, PackageRelationshipType, Plain
  <2> QED BY <2>2, <2>3 DEF Alike, FieldsOf, NoFields
<1>4. Alike(GraphEndpointType, PackageEndpointType)
  BY DEF Alike, GraphEndpointType, PackageEndpointType, Plain, NoFields, FieldsOf
<1> QED BY <1>1, <1>2, <1>3, <1>4

LEMMA TwinsAreAlike ==
  ASSUME NEW t, NEW u, <<t, u>> \in Twins
  PROVE  Alike(GraphSchema[t], PackageSchema[u])
BY TypesAreAlike, GraphTypes, PackageTypes DEF Twins

(* An object as the one reader sees it and as the other does.              *)
Twin(q, p) == <<q[2], p[2]>> \in Twins /\ JsonOf(q) = JsonOf(p)

Fits(schema, part) ==
  LET s == PartType(schema, part)
  IN  KnownFields(s, JsonOf(part)) /\ TextsFit(s, JsonOf(part)) /\ Shaped(s, JsonOf(part))

LEMMA TwinTypes ==
  ASSUME NEW q, NEW p, Twin(q, p)
  PROVE  /\ PartType(GraphSchema, q) = GraphSchema[q[2]]
         /\ PartType(PackageSchema, p) = PackageSchema[p[2]]
         /\ Alike(PartType(GraphSchema, q), PartType(PackageSchema, p))
<1>1. Alike(GraphSchema[q[2]], PackageSchema[p[2]])
  BY TwinsAreAlike DEF Twin
<1>2. /\ DOMAIN GraphSchema[q[2]].variants = {}
      /\ DOMAIN PackageSchema[p[2]].variants = {}
  BY <1>1 DEF Alike
<1>3. /\ Variant(GraphSchema, q[2], q[3]) = q[2]
      /\ Variant(PackageSchema, p[2], p[3]) = p[2]
  BY <1>2 DEF Variant
<1> QED BY <1>1, <1>3 DEF PartType

(* What the reader of packages lets pass, fits.                            *)
LEMMA TwinFits ==
  ASSUME NEW q, NEW p, Twin(q, p), Fits(PackageSchema, p)
  PROVE  Fits(GraphSchema, q)
<1> DEFINE s == PartType(GraphSchema, q)
           v == PartType(PackageSchema, p)
           json == JsonOf(p)
<1>1. Alike(s, v) /\ JsonOf(q) = json
  BY TwinTypes DEF Twin
<1>2. KnownFields(v, json) /\ TextsFit(v, json) /\ Shaped(v, json)
  BY DEF Fits
<1> HIDE DEF s, v, json
<1>3. KnownFields(s, json)
  BY <1>1, <1>2 DEF Alike, KnownFields
<1>4. TextsFit(s, json)
  BY <1>1, <1>2 DEF Alike, TextsFit
<1>5. Shaped(s, json)
  BY <1>1, <1>2 DEF Alike, Shaped
<1> QED BY <1>1, <1>3, <1>4, <1>5 DEF Fits, s

(* Every object in the one is an object in the other.                      *)
LEMMA PartsAreTwins ==
  ASSUME NEW q, NEW p, Twin(q, p), Fits(PackageSchema, p), NEW r \in PartsOf(GraphSchema, q)
  PROVE  \E o \in PartsOf(PackageSchema, p) : Twin(r, o)
<1> DEFINE s == PartType(GraphSchema, q)
           v == PartType(PackageSchema, p)
           json == JsonOf(p)
<1>1. Alike(s, v) /\ JsonOf(q) = json
  BY TwinTypes DEF Twin
<1>2. KnownFields(v, json)
  BY DEF Fits
<1> HIDE DEF s, v, json
<1>3. r \in UNION {{Part(q[1] \o <<k, i>>, s.list[k], json[k][i]) : i \in DOMAIN json[k]} :
                     k \in DOMAIN s.list \cap DOMAIN json}
  BY <1>1 DEF PartsOf, Alike, s
<1>4. PICK k \in DOMAIN s.list \cap DOMAIN json : \E i \in DOMAIN json[k] :
             r = Part(q[1] \o <<k, i>>, s.list[k], json[k][i])
  BY <1>3
<1>5. PICK i \in DOMAIN json[k] : r = Part(q[1] \o <<k, i>>, s.list[k], json[k][i])
  BY <1>4
<1> DEFINE o == Part(p[1] \o <<k, i>>, v.list[k], json[k][i])
<1>6. k \in DOMAIN v.list \cap DOMAIN json
  BY <1>1, <1>4 DEF Alike
<1>7. o \in UNION {{Part(p[1] \o <<l, j>>, v.list[l], json[l][j]) : j \in DOMAIN json[l]} :
                     l \in DOMAIN v.list \cap DOMAIN json}
  BY <1>5, <1>6
<1>8. o \in PartsOf(PackageSchema, p)
  BY <1>2, <1>7 DEF PartsOf, v, json
<1>9. Twin(r, o)
  BY <1>1, <1>4, <1>5 DEF Twin, Part, JsonOf, Alike
<1> QED BY <1>8, <1>9

(* The types of the objects in a graph.                                    *)
LEMMA GraphLists ==
  /\ \A k \in DOMAIN GraphType.list : GraphType.list[k] \in {"graph object", "relationship"}
  /\ \A k \in DOMAIN RelationshipType.list : RelationshipType.list[k] \in {"graph endpoint"}
  /\ DOMAIN GraphObjectType.list = {}
  /\ DOMAIN GraphEndpointType.list = {}
<1>1. DOMAIN GraphType.list = {"objects", "relationships"}
  BY DEF GraphType, Plain
<1>2. GraphType.list.objects = "graph object" /\ GraphType.list.relationships = "relationship"
  BY DEF GraphType, Plain
<1>3. DOMAIN RelationshipType.list = {"endpoints"}
  BY DEF RelationshipType, Plain
<1>4. RelationshipType.list.endpoints = "graph endpoint"
  BY DEF RelationshipType, Plain
<1>5. DOMAIN GraphObjectType.list = {} /\ DOMAIN GraphEndpointType.list = {}
  BY DEF GraphObjectType, GraphEndpointType, Plain, NoFields
<1> QED BY <1>1, <1>2, <1>3, <1>4, <1>5

(* An end of a relationship holds no object, and an object none either.    *)
LEMMA GraphIsShallow ==
  ASSUME NEW q, NEW p, Twin(q, p), NEW r \in PartsOf(GraphSchema, q)
  PROVE  \/ q[2] = "graph" /\ r[2] \in {"graph object", "relationship"}
         \/ q[2] = "relationship" /\ r[2] = "graph endpoint"
<1> DEFINE s == PartType(GraphSchema, q)
<1>1. DOMAIN s.part = {}
  BY TwinTypes DEF Alike
<1>2. PICK k \in DOMAIN s.list : r[2] = s.list[k]
  <2>1. r \in UNION {{Part(q[1] \o <<k, i>>, s.list[k], JsonOf(q)[k][i]) : i \in DOMAIN JsonOf(q)[k]} :
                       k \in DOMAIN s.list \cap DOMAIN JsonOf(q)}
    BY <1>1 DEF PartsOf
  <2> HIDE DEF s
  <2>2. PICK k \in DOMAIN s.list : \E i : r = Part(q[1] \o <<k, i>>, s.list[k], JsonOf(q)[k][i])
    BY <2>1
  <2>3. PICK i : r = Part(q[1] \o <<k, i>>, s.list[k], JsonOf(q)[k][i])
    BY <2>2
  <2>4. r[2] = s.list[k]
    BY <2>3 DEF Part
  <2> QED BY <2>4
<1>3. q[2] \in {"graph", "graph object", "relationship", "graph endpoint"}
  BY DEF Twin, Twins
<1>4. s = GraphSchema[q[2]]
  BY TwinTypes
<1> HIDE DEF s
<1>5. CASE q[2] = "graph"
  BY <1>2, <1>4, <1>5, GraphTypes, GraphLists
<1>6. CASE q[2] = "relationship"
  <2>1. s = RelationshipType
    BY <1>4, <1>6, GraphTypes
  <2>2. r[2] \in {"graph endpoint"}
    BY <1>2, <2>1, GraphLists
  <2> QED BY <1>6, <2>2
<1>7. q[2] # "graph object"
  BY <1>2, <1>4, GraphTypes, GraphLists
<1>8. q[2] # "graph endpoint"
  BY <1>2, <1>4, GraphTypes, GraphLists
<1> QED BY <1>3, <1>5, <1>6, <1>7, <1>8

(* A field that is an object is a part.                                    *)
LEMMA FieldIsPart ==
  ASSUME NEW schema, NEW part, KnownFields(PartType(schema, part), JsonOf(part)),
         NEW k \in DOMAIN PartType(schema, part).part \cap DOMAIN JsonOf(part)
  PROVE  Part(part[1] \o <<k, 0>>, PartType(schema, part).part[k], JsonOf(part)[k])
           \in PartsOf(schema, part)
<1> DEFINE s == PartType(schema, part)
           json == JsonOf(part)
           in == UNION {{Part(part[1] \o <<l, i>>, s.list[l], json[l][i]) : i \in DOMAIN json[l]} :
                         l \in DOMAIN s.list \cap DOMAIN json}
           there == {Part(part[1] \o <<l, 0>>, s.part[l], json[l]) :
                       l \in DOMAIN s.part \cap DOMAIN json}
<1>1. PartsOf(schema, part) = in \cup there
  BY DEF PartsOf
<1>2. Part(part[1] \o <<k, 0>>, s.part[k], json[k]) \in there
  OBVIOUS
<1> QED BY <1>1, <1>2

(* Soundness reaches down as far as graphs go: there are four levels from  *)
(* a package to the ends in its graph, and three from a graph to its ends. *)
LEMMA PackageGraphIsSound ==
  ASSUME NEW json, PackageReadable(json), "graph_config" \in DOMAIN json
  PROVE  Sound(GraphSchema, "graph", json.graph_config)
<1> DEFINE graph == json.graph_config
           In(parts) == UNION {PartsOf(PackageSchema, p) : p \in parts}
           root == Part(<<>>, "package", json)
           first == In({root})
           second == In(first)
           third == In(second)
           fourth == In(third)
           all == AllParts(PackageSchema, "package", json)
           Inside(parts) == UNION {PartsOf(GraphSchema, q) : q \in parts}
           top == Part(<<>>, "graph", graph)
           one == Inside({top})
           two == Inside(one)
           three == Inside(two)
           four == Inside(three)
<1>1. all = {root} \cup first \cup second \cup third \cup fourth
  BY DEF AllParts
<1>2. AllParts(GraphSchema, "graph", graph) = {top} \cup one \cup two \cup three \cup four
  BY DEF AllParts
<1>3. \A p \in all : Fits(PackageSchema, p)
  BY DEF PackageReadable, Sound, Fits
<1>4. \E p \in first : Twin(top, p)
  <2> DEFINE p == Part(<<>> \o <<"graph_config", 0>>, "package graph", graph)
  <2>1. PartType(PackageSchema, root) = PackageType
    <3>1. DOMAIN PackageType.variants = {}
      BY DEF PackageType, Plain, NoFields
    <3> QED BY <3>1, PackageTypes DEF PartType, Variant, Part
  <2>2. KnownFields(PackageType, json)
    BY <1>1, <1>3, <2>1 DEF Fits, JsonOf, Part
  <2>3. "graph_config" \in DOMAIN PackageType.part
    BY DEF PackageType, Plain
  <2>4. PackageType.part["graph_config"] = "package graph"
    BY DEF PackageType, Plain
  <2>5. p \in PartsOf(PackageSchema, root)
    <3>1. JsonOf(root) = json /\ root[1] = <<>>
      BY DEF JsonOf, Part
    <3>2. "graph_config" \in DOMAIN PackageType.part \cap DOMAIN json
      BY <2>3
    <3> HIDE DEF root
    <3>3. Part(root[1] \o <<"graph_config", 0>>, PackageType.part["graph_config"],
               JsonOf(root)["graph_config"]) \in PartsOf(PackageSchema, root)
      BY <2>1, <2>2, <3>1, <3>2, FieldIsPart
    <3> QED BY <2>4, <3>1, <3>3
  <2>6. Twin(top, p)
    BY DEF Twin, Twins, Part, JsonOf
  <2> QED BY <2>5, <2>6
<1>5. ASSUME NEW parts, NEW others, parts \subseteq all,
             \A q \in others : \E p \in parts : Twin(q, p)
      PROVE  \A r \in Inside(others) : \E o \in In(parts) : Twin(r, o)
  <2> SUFFICES ASSUME NEW r \in Inside(others)
               PROVE  \E o \in In(parts) : Twin(r, o)
    OBVIOUS
  <2>1. PICK q \in others : r \in PartsOf(GraphSchema, q)
    OBVIOUS
  <2>2. PICK p \in parts : Twin(q, p)
    BY <1>5
  <2>3. \E o \in PartsOf(PackageSchema, p) : Twin(r, o)
    BY <1>3, <1>5, <2>1, <2>2, PartsAreTwins
  <2> QED BY <2>3
<1> HIDE DEF first, second, third, fourth, all, one, two, three, four, root, top
<1>6. \A q \in one : \E p \in second : Twin(q, p)
  <2>1. \A q \in {top} : \E p \in first : Twin(q, p)
    BY <1>4
  <2> QED BY <1>1, <1>5, <2>1 DEF one, second
<1>7. \A q \in two : \E p \in third : Twin(q, p)
  BY <1>1, <1>5, <1>6 DEF two, third
<1>8. three = {}
  <2>1. \A q \in one : q[2] # "graph"
    <3> SUFFICES ASSUME NEW q \in one PROVE q[2] # "graph"
      OBVIOUS
    <3>1. q \in PartsOf(GraphSchema, top)
      BY DEF one
    <3> QED BY <1>4, <3>1, GraphIsShallow
  <2>2. \A q \in two : q[2] \in {"graph endpoint"}
    <3> SUFFICES ASSUME NEW q \in two PROVE q[2] \in {"graph endpoint"}
      OBVIOUS
    <3>1. PICK o \in one : q \in PartsOf(GraphSchema, o)
      BY DEF two
    <3> QED BY <1>6, <2>1, <3>1, GraphIsShallow
  <2>3. \A q \in two : PartsOf(GraphSchema, q) = {}
    BY <1>7, <2>2, GraphIsShallow
  <2> QED BY <2>3 DEF three
<1>9. four = {}
  BY <1>8 DEF four
<1>10. \A q \in AllParts(GraphSchema, "graph", graph) : \E p \in all : Twin(q, p)
  BY <1>1, <1>2, <1>4, <1>6, <1>7, <1>8, <1>9
<1>11. \A q \in AllParts(GraphSchema, "graph", graph) : Fits(GraphSchema, q)
  BY <1>3, <1>10, TwinFits
<1> QED BY <1>11 DEF Sound, Fits

(* The package reader finds an object for every end of a relationship, and *)
(* no id twice: that is what the composition model asks.                   *)
LEMMA PackageGraphHolds ==
  ASSUME NEW graph, PackageGraphFits(graph)
  PROVE  GraphFits(graph)
<1>1. \A r \in ToSet(graph.relationships) : \A end \in ToSet(r.endpoints) :
        end.object \in IdsOf(graph.objects)
  BY DEF PackageGraphFits, ToSet
<1> QED BY <1>1 DEF PackageGraphFits, GraphFits

(* A graph_config of a package the catalog was made of is accepted by the  *)
(* composition model too, whatever is in it.                               *)
THEOREM PackageGraphsAlwaysSound == Spec => []PackageGraphsAreSound
<1>1. PackageGraphsAreSound
  <2> SUFFICES ASSUME NEW d \in DOMAIN dirs, Readable(dirs, d),
                      "graph_config" \in DOMAIN dirs[d].json
               PROVE  GraphSound(dirs[d].json.graph_config)
    BY DEF PackageGraphsAreSound
  <2>1. PackageReadable(dirs[d].json)
    BY DEF Readable
  <2>2. PackageGraphFits(dirs[d].json.graph_config)
    BY <2>1 DEF PackageReadable
  <2> QED BY <2>1, <2>2, PackageGraphIsSound, PackageGraphHolds DEF GraphSound
<1> QED BY <1>1, PTL

-----------------------------------------------------------------------------
(* Conditions.                                                             *)

(* Whether an operand is one does not depend on the parameters.            *)
LEMMA OperandsAnyhow ==
  ASSUME NEW e, NEW params, NEW others
  PROVE  ExpressionValue(e, params).ok <=> ExpressionValue(e, others).ok
<1>1. CASE DOMAIN e = {"literal"}
  BY <1>1 DEF ExpressionValue
<1>2. CASE DOMAIN e # {"literal"} /\ DOMAIN e = {"param"} /\ e.param \notin {Blank, "5"}
  BY <1>2 DEF ExpressionValue
<1>3. CASE DOMAIN e # {"literal"} /\ ~(DOMAIN e = {"param"} /\ e.param \notin {Blank, "5"})
  BY <1>3 DEF ExpressionValue
<1> QED BY <1>1, <1>2, <1>3

LEMMA EvaluatedAnyhow ==
  ASSUME NEW e, NEW params, NEW others, NEW f, NEW g,
         DOMAIN f = DOMAIN Operands(e), DOMAIN g = DOMAIN Operands(e),
         \A i \in DOMAIN f : f[i].ok => g[i].ok,
         Evaluated(e, params, f).ok
  PROVE  Evaluated(e, others, g).ok
<1> DEFINE op == Field(e, "op", Blank)
           bool == DOMAIN e = {"(bool)"}
           literal == DOMAIN e = {"literal"}
           exists == op = "exists" /\ DOMAIN e = {"op", "param"} /\ e.param \notin {Blank, "5"}
           compare == op \in {"eq", "ne"} /\ DOMAIN e = {"op", "left", "right"}
                        /\ Odd \notin {e.left, e.right}
           combine == op \in {"and", "or"} /\ DOMAIN e = {"op", "args"} /\ e.args \notin {<<>>, NoArray}
           negate == op = "not" /\ DOMAIN e = {"op", "arg"}
<1>1. CASE bool
  BY <1>1 DEF Evaluated
<1>2. CASE ~bool /\ literal
  BY <1>2 DEF Evaluated
<1>3. CASE ~bool /\ ~literal /\ exists
  BY <1>3 DEF Evaluated
<1>4. CASE ~bool /\ ~literal /\ ~exists /\ compare
  <2>1. Compare(e, params).ok
    BY <1>4 DEF Evaluated
  <2>2. Compare(e, others).ok
    BY <2>1, OperandsAnyhow DEF Compare
  <2> QED BY <1>4, <2>2 DEF Evaluated
<1>5. CASE ~bool /\ ~literal /\ ~exists /\ ~compare /\ combine
  <2>1. Combine(op, f).ok
    BY <1>5 DEF Evaluated
  <2>2. Combine(op, g).ok
    BY <2>1 DEF Combine
  <2> QED BY <1>5, <2>2 DEF Evaluated
<1>6. CASE ~bool /\ ~literal /\ ~exists /\ ~compare /\ ~combine /\ negate
  <2>1. Operands(e) = <<e.arg>>
    BY <1>6 DEF Operands
  <2>2. f[1].ok
    BY <1>6 DEF Evaluated
  <2>3. g[1].ok
    BY <2>1, <2>2
  <2> QED BY <1>6, <2>3 DEF Evaluated
<1>7. CASE ~bool /\ ~literal /\ ~exists /\ ~compare /\ ~combine /\ ~negate
  BY <1>7 DEF Evaluated, Unsupported
<1> QED BY <1>1, <1>2, <1>3, <1>4, <1>5, <1>6, <1>7

(* A condition that can be evaluated for some parameters can be evaluated  *)
(* for any, however its operands are nested.                               *)
LEMMA EvaluatesAnyhow ==
  ASSUME NEW params, NEW others
  PROVE  \A e : ExpressionBool(e, params).ok => ExpressionBool(e, others).ok
<1>1. \A e : FlatBool(e, params).ok => FlatBool(e, others).ok
  <2> SUFFICES ASSUME NEW e, FlatBool(e, params).ok
               PROVE  FlatBool(e, others).ok
    OBVIOUS
  <2> DEFINE none == [i \in DOMAIN Operands(e) |-> Unsupported]
  <2>1. DOMAIN none = DOMAIN Operands(e) /\ \A i \in DOMAIN none : none[i].ok => none[i].ok
    OBVIOUS
  <2>2. Evaluated(e, params, none).ok
    BY DEF FlatBool
  <2> HIDE DEF none
  <2>3. Evaluated(e, others, none).ok
    BY <2>1, <2>2, EvaluatedAnyhow
  <2> QED BY <2>3 DEF FlatBool, none
<1>2. \A e : NestedBool(e, params).ok => NestedBool(e, others).ok
  <2> SUFFICES ASSUME NEW e, NestedBool(e, params).ok
               PROVE  NestedBool(e, others).ok
    OBVIOUS
  <2> DEFINE f == [i \in DOMAIN Operands(e) |-> FlatBool(Operands(e)[i], params)]
             g == [i \in DOMAIN Operands(e) |-> FlatBool(Operands(e)[i], others)]
  <2>1. /\ DOMAIN f = DOMAIN Operands(e) /\ DOMAIN g = DOMAIN Operands(e)
        /\ \A i \in DOMAIN f : f[i].ok => g[i].ok
    BY <1>1
  <2>2. Evaluated(e, params, f).ok
    BY DEF NestedBool
  <2> HIDE DEF f, g
  <2>3. Evaluated(e, others, g).ok
    BY <2>1, <2>2, EvaluatedAnyhow
  <2> QED BY <2>3 DEF NestedBool, g
<1>3. \A e : TwiceNestedBool(e, params).ok => TwiceNestedBool(e, others).ok
  <2> SUFFICES ASSUME NEW e, TwiceNestedBool(e, params).ok
               PROVE  TwiceNestedBool(e, others).ok
    OBVIOUS
  <2> DEFINE f == [i \in DOMAIN Operands(e) |-> NestedBool(Operands(e)[i], params)]
             g == [i \in DOMAIN Operands(e) |-> NestedBool(Operands(e)[i], others)]
  <2>1. /\ DOMAIN f = DOMAIN Operands(e) /\ DOMAIN g = DOMAIN Operands(e)
        /\ \A i \in DOMAIN f : f[i].ok => g[i].ok
    BY <1>2
  <2>2. Evaluated(e, params, f).ok
    BY DEF TwiceNestedBool
  <2> HIDE DEF f, g
  <2>3. Evaluated(e, others, g).ok
    BY <2>1, <2>2, EvaluatedAnyhow
  <2> QED BY <2>3 DEF TwiceNestedBool, g
<1>4. \A e : ExpressionBool(e, params).ok => ExpressionBool(e, others).ok
  <2> SUFFICES ASSUME NEW e, ExpressionBool(e, params).ok
               PROVE  ExpressionBool(e, others).ok
    OBVIOUS
  <2> DEFINE f == [i \in DOMAIN Operands(e) |-> TwiceNestedBool(Operands(e)[i], params)]
             g == [i \in DOMAIN Operands(e) |-> TwiceNestedBool(Operands(e)[i], others)]
  <2>1. /\ DOMAIN f = DOMAIN Operands(e) /\ DOMAIN g = DOMAIN Operands(e)
        /\ \A i \in DOMAIN f : f[i].ok => g[i].ok
    BY <1>3
  <2>2. Evaluated(e, params, f).ok
    BY DEF ExpressionBool
  <2> HIDE DEF f, g
  <2>3. Evaluated(e, others, g).ok
    BY <2>1, <2>2, EvaluatedAnyhow
  <2> QED BY <2>3 DEF ExpressionBool, g
<1> QED BY <1>4

(* A condition a schema was read with, tried without any parameters, can   *)
(* be evaluated for the parameters of every config.                        *)
THEOREM ConditionsAlwaysEvaluate == Spec => []ConditionsEvaluate
<1>1. ConditionsEvaluate
  <2> SUFFICES ASSUME NEW i \in Checked, SchemaReadable(SchemaOf(i)),
                      NEW p \in ToSet(Entries(SchemaOf(i), "parameters")),
                      NEW k \in Conditions \cap DOMAIN p
               PROVE  ExpressionBool(ConditionOf(p, k), BundleOf(i.config).parameters).ok
    BY DEF ConditionsEvaluate
  <2>1. ConditionsFit(p)
    BY DEF SchemaReadable
  <2>2. ExpressionBool(ConditionOf(p, k), NoFields).ok
    BY <2>1 DEF ConditionsFit
  <2> QED BY <2>2, EvaluatesAnyhow
<1> QED BY <1>1, PTL

-----------------------------------------------------------------------------
(* What is kept of an accepted config.                                     *)

(* Numbers are reached one by one.                                         *)
LEMMA OneByOne ==
  ASSUME NEW S, 0 \in S, \A n \in Nat : n \in S => n + 1 \in S
  PROVE  Nat \subseteq S
<1> DEFINE R == OpToRel(<, Nat)
           T == Nat \ S
<1>1. IsWellFoundedOn(R, Nat)
  BY NatLessThanWellFounded
<1>2. SUFFICES ASSUME T # {} PROVE FALSE
  OBVIOUS
<1>3. PICK n \in T : \A m \in T : ~(<<m, n>> \in R)
  <2>1. T \subseteq Nat
    OBVIOUS
  <2> HIDE DEF R, T
  <2> QED BY <1>1, <1>2, <2>1, WFMin
<1>4. n \in Nat /\ n # 0 /\ n - 1 \in Nat /\ n - 1 < n
  <2>1. n \in Nat /\ n # 0
    OBVIOUS
  <2> HIDE DEF T, R
  <2> QED BY <2>1
<1>5. <<n - 1, n>> \in R
  BY <1>4 DEF OpToRel
<1>6. n - 1 \in S
  <2> HIDE DEF R
  <2> QED BY <1>3, <1>4, <1>5
<1> HIDE DEF R
<1>7. n - 1 + 1 = n /\ n \notin S
  BY <1>4
<1> QED BY <1>4, <1>6, <1>7

(* The rows that are objects, up to each position.                         *)
Keeping(kept, rows, m) ==
  kept = [n \in 0 .. m |-> IF n = 0 THEN <<>>
                           ELSE IF rows[n] = Odd THEN kept[n - 1]
                           ELSE Append(kept[n - 1], rows[n])]

(* Of any rows, up to any position, there are those that are objects.      *)
LEMMA KeepingExists ==
  ASSUME NEW rows, NEW m \in Nat
  PROVE  \E f : Keeping(f, rows, m)
<1> DEFINE S == {n \in Nat : \E f : Keeping(f, rows, n)}
<1>1. 0 \in S
  <2> DEFINE f == [i \in 0 .. 0 |-> <<>>]
  <2>1. \A i \in 0 .. 0 : i = 0
    OBVIOUS
  <2>2. Keeping(f, rows, 0)
    BY <2>1 DEF Keeping
  <2> QED BY <2>2
<1>2. ASSUME NEW n \in Nat, n \in S PROVE n + 1 \in S
  <2>1. PICK f : Keeping(f, rows, n)
    BY <1>2
  <2> DEFINE last == IF rows[n + 1] = Odd THEN f[n] ELSE Append(f[n], rows[n + 1])
             g == [i \in 0 .. n + 1 |-> IF i = n + 1 THEN last ELSE f[i]]
  <2>2. (\A i \in 0 .. n : g[i] = f[i]) /\ g[n + 1] = last
    <3> HIDE DEF last
    <3> QED OBVIOUS
  <2>3. ASSUME NEW i \in 0 .. n + 1
        PROVE  g[i] = IF i = 0 THEN <<>>
                      ELSE IF rows[i] = Odd THEN g[i - 1]
                      ELSE Append(g[i - 1], rows[i])
    <3> HIDE DEF g
    <3>1. CASE i = n + 1
      <4>1. i # 0 /\ i - 1 = n /\ n \in 0 .. n /\ g[n] = f[n]
        BY <2>2, <3>1
      <4> QED BY <2>2, <3>1, <4>1
    <3>2. CASE i \in 0 .. n
      <4>1. g[i] = f[i] /\ (i # 0 => i - 1 \in 0 .. n /\ g[i - 1] = f[i - 1])
        BY <2>2, <3>2
      <4>2. f[i] = IF i = 0 THEN <<>>
                   ELSE IF rows[i] = Odd THEN f[i - 1]
                   ELSE Append(f[i - 1], rows[i])
        BY <2>1, <3>2 DEF Keeping
      <4> HIDE DEF last
      <4> QED BY <4>1, <4>2
    <3> QED BY <3>1, <3>2
  <2>4. Keeping(g, rows, n + 1)
    BY <2>3 DEF Keeping
  <2> QED BY <2>4
<1>3. Nat \subseteq S
  <2> HIDE DEF S
  <2> QED BY <1>1, <1>2, OneByOne
<1> QED BY <1>3

(* If every row is an object, all are kept.                                *)
LEMMA AllRowsKept ==
  ASSUME NEW T, NEW rows \in Seq(T), \A i \in DOMAIN rows : rows[i] # Odd
  PROVE  ObjectRows(rows) = rows
<1>1. PICK m \in Nat : m = Len(rows) /\ DOMAIN rows = 1 .. m /\ \A i \in 1 .. m : rows[i] \in T
  BY LenProperties, ElementOfSeq
<1> DEFINE f == CHOOSE kept : Keeping(kept, rows, m)
<1>2. Keeping(f, rows, m)
  BY KeepingExists
<1>3. ObjectRows(rows) = f[m]
  BY <1>1 DEF ObjectRows, Keeping
<1> HIDE DEF f
<1>4. f[0] = <<>> /\ \A n \in 1 .. m : f[n] = Append(f[n - 1], rows[n])
  <2>1. \A n \in 0 .. m : f[n] = IF n = 0 THEN <<>>
                                  ELSE IF rows[n] = Odd THEN f[n - 1]
                                  ELSE Append(f[n - 1], rows[n])
    BY <1>2 DEF Keeping
  <2>2. \A n \in 1 .. m : n \in 0 .. m /\ n # 0 /\ rows[n] # Odd
    BY <1>1
  <2>3. f[0] = <<>>
    <3>1. 0 \in 0 .. m
      BY <1>1
    <3> QED BY <2>1, <3>1
  <2> QED BY <2>1, <2>2, <2>3
<1> DEFINE S == {n \in Nat : n <= m => f[n] = SubSeq(rows, 1, n)}
<1>5. 0 \in S
  <2>1. SubSeq(rows, 1, 0) = <<>>
    BY <1>1
  <2> QED BY <1>4, <2>1
<1>6. ASSUME NEW n \in Nat, n \in S PROVE n + 1 \in S
  <2> SUFFICES ASSUME n + 1 <= m PROVE f[n + 1] = SubSeq(rows, 1, n + 1)
    OBVIOUS
  <2>1. f[n] = SubSeq(rows, 1, n)
    BY <1>6
  <2>2. n + 1 \in 1 .. m /\ (n + 1) - 1 = n
    OBVIOUS
  <2>3. f[n + 1] = Append(SubSeq(rows, 1, n), rows[n + 1])
    BY <1>4, <2>1, <2>2
  <2>4. SubSeq(rows, 1, n) \in Seq(T) /\ rows[n + 1] \in T
    BY <1>1, <2>2
  <2> QED BY <1>1, <2>2, <2>3, <2>4
<1>7. Nat \subseteq S
  <2> HIDE DEF S
  <2> QED BY <1>5, <1>6, OneByOne
<1>8. f[m] = SubSeq(rows, 1, m)
  <2>1. m \in S
    <3> HIDE DEF S
    <3> QED BY <1>7
  <2> QED BY <2>1
<1> QED BY <1>1, <1>3, <1>8

(* The sections of a config.                                               *)
LEMMA FourSections == ConfigSections = {"parameters", "tables", "documents", "files"}
BY DEF ConfigSections, ConfigSchemaType, Plain

(* Every parameter of a config without errors is kept.                     *)
LEMMA ParametersAreKept ==
  ASSUME NEW schema, NEW params, IsObject(params),
         DOMAIN params \subseteq Declared(schema, "parameters"),
         \A p \in ToSet(Entries(schema, "parameters")) : ParameterFits(p, params)
  PROVE  KeptParameters(schema, params) = params
<1> DEFINE kept == {p \in ToSet(Entries(schema, "parameters")) :
                      p.id \in DOMAIN params /\ ValueAccepted(p, params[p.id])}
<1>1. {p.id : p \in kept} = DOMAIN params
  <2>1. ASSUME NEW id \in DOMAIN params PROVE \E p \in kept : p.id = id
    <3>1. PICK i \in DOMAIN Entries(schema, "parameters") : Entries(schema, "parameters")[i].id = id
      BY DEF Declared, IdsOf
    <3> DEFINE p == Entries(schema, "parameters")[i]
    <3>2. p \in ToSet(Entries(schema, "parameters"))
      BY DEF ToSet
    <3>3. p.id = id
      BY <3>1
    <3> HIDE DEF p
    <3>4. ValueAccepted(p, params[p.id])
      BY <3>2, <3>3 DEF ParameterFits
    <3> QED BY <3>2, <3>3, <3>4
  <2> QED BY <2>1
<1>2. KeptParameters(schema, params) = [id \in {p.id : p \in kept} |-> params[id]]
  BY DEF KeptParameters
<1> HIDE DEF kept
<1> QED BY <1>1, <1>2 DEF IsObject

(* Every column of a row that fits is kept.                                *)
LEMMA RowIsKept ==
  ASSUME NEW table, NEW row, IsObject(row), RowFits(table, row)
  PROVE  KeptRow(table, row) = row
<1>1. {c \in DOMAIN row : \/ IsOn(table, "preserve_unknown_columns")
                          \/ c \in {d.id : d \in ColumnsOf(table)}} = DOMAIN row
  BY DEF RowFits
<1> QED BY <1>1 DEF KeptRow, IsObject

(* Of a table that fits all the rows are kept, and nothing beside them.    *)
LEMMA TableIsKept ==
  ASSUME NEW table, NEW state, TableFits(table, state),
         \E T : RowsOf(state) \in Seq(T), \A i \in DOMAIN RowsOf(state) : IsObject(RowsOf(state)[i])
  PROVE  KeptTable(table, state) = [rows |-> RowsOf(state)]
<1> DEFINE rows == RowsOf(state)
<1>1. ObjectRows(rows) = rows
  BY AllRowsKept DEF TableFits
<1>2. \A i \in DOMAIN rows : KeptRow(table, rows[i]) = rows[i]
  BY RowIsKept DEF TableFits
<1>3. rows = [i \in DOMAIN rows |-> rows[i]]
  <2> HIDE DEF rows
  <2>1. PICK T : rows \in Seq(T)
    BY DEF rows
  <2> QED BY <2>1
<1>4. KeptTable(table, state) = [rows |-> [i \in DOMAIN rows |-> KeptRow(table, rows[i])]]
  BY <1>1 DEF KeptTable
<1> HIDE DEF rows
<1>5. [i \in DOMAIN rows |-> KeptRow(table, rows[i])] = [i \in DOMAIN rows |-> rows[i]]
  BY <1>2
<1> QED BY <1>3, <1>4, <1>5 DEF rows

(* What is kept of a table fits, and is kept as it is.                     *)
LEMMA TableIsKeptAgain ==
  ASSUME NEW table, NEW state, TableFits(table, state),
         \E T : RowsOf(state) \in Seq(T), \A i \in DOMAIN RowsOf(state) : IsObject(RowsOf(state)[i]),
         NEW kept, kept = KeptTable(table, state)
  PROVE  TableFits(table, kept) /\ KeptTable(table, kept) = kept
<1> DEFINE rows == RowsOf(state)
<1>1. kept = [rows |-> rows]
  BY TableIsKept
<1>2. RowsOf(kept) = rows
  <2> HIDE DEF rows
  <2> QED BY <1>1 DEF RowsOf, Field
<1>3. kept # Odd
  <2>1. "(odd)" \notin DOMAIN kept
    BY <1>1
  <2> QED BY <2>1 DEF Odd
<1>4. TableFits(table, kept)
  BY <1>2, <1>3 DEF TableFits, TableShaped
<1>5. KeptTable(table, kept) = [rows |-> RowsOf(kept)]
  BY <1>2, <1>4, TableIsKept
<1> QED BY <1>1, <1>2, <1>4, <1>5

(* What is kept of a document fits, and is kept as it is: the format       *)
(* stays only where it is the one declared, and content that was dropped   *)
(* is an object.                                                           *)
LEMMA DocumentIsKeptAgain ==
  ASSUME NEW document, document.format \notin {"", "5"}, NEW state, DocumentFits(document, state),
         NEW kept, kept = KeptDocument(document, state)
  PROVE  DocumentFits(document, kept) /\ KeptDocument(document, kept) = kept
<1> DEFINE preserve == IsOn(document, "preserve_unknown_fields")
           FormatIn(s) == IF FormatOf(s) = document.format THEN {"format"} ELSE {}
           ContentIn(s) == IF "content" \in DOMAIN s /\ (preserve \/ s.content.kind = "object")
                           THEN {"content"} ELSE {}
<1>1. \A s : KeptDocument(document, s) =
               [k \in FormatIn(s) \cup ContentIn(s) |->
                  IF k = "content" /\ ~preserve THEN EmptyObject ELSE s[k]]
  BY DEF KeptDocument
<1>2. /\ DOMAIN kept = FormatIn(state) \cup ContentIn(state)
      /\ \A k \in DOMAIN kept : kept[k] = IF k = "content" /\ ~preserve THEN EmptyObject ELSE state[k]
  <2>1. kept = [k \in FormatIn(state) \cup ContentIn(state) |->
                  IF k = "content" /\ ~preserve THEN EmptyObject ELSE state[k]]
    BY <1>1
  <2> HIDE DEF FormatIn, ContentIn, preserve
  <2> QED BY <2>1
<1>3. "(odd)" \notin DOMAIN kept
  BY <1>2
<1>4. kept # Odd
  BY <1>3 DEF Odd
<1>5. FormatOf(state) = document.format => "format" \in DOMAIN state /\ state.format = document.format
  BY DEF FormatOf, Field, Blank
<1>6. /\ "format" \in DOMAIN kept <=> FormatOf(state) = document.format
      /\ "content" \in DOMAIN kept <=> "content" \in ContentIn(state)
  BY <1>2
<1>7. "format" \in DOMAIN kept => kept.format = document.format
  BY <1>2, <1>5, <1>6
<1>8. FormatOf(kept) = IF "format" \in DOMAIN kept THEN document.format ELSE Blank
  BY <1>7 DEF FormatOf, Field, Blank
<1>9. FormatIn(kept) = FormatIn(state)
  BY <1>6, <1>8 DEF Blank
<1>10. ContentIn(kept) = ContentIn(state)
  <2>1. CASE "content" \in DOMAIN kept
    <3>1. ContentIn(state) = {"content"}
      BY <1>6, <2>1
    <3>2. ~preserve => kept.content = EmptyObject
      BY <1>2, <2>1
    <3>3. preserve \/ kept.content.kind = "object"
      <4>1. EmptyObject.kind = "object"
        BY DEF EmptyObject
      <4> HIDE DEF preserve
      <4> QED BY <3>2, <4>1
    <3> QED BY <2>1, <3>1, <3>3
  <2>2. CASE "content" \notin DOMAIN kept
    BY <1>6, <2>2
  <2> QED BY <2>1, <2>2
<1>11. DocumentFits(document, kept)
  BY <1>4, <1>8 DEF DocumentFits
<1>12. KeptDocument(document, kept) = kept
  <2>1. KeptDocument(document, kept) =
          [k \in DOMAIN kept |-> IF k = "content" /\ ~preserve THEN EmptyObject ELSE kept[k]]
    <3>1. DOMAIN kept = FormatIn(kept) \cup ContentIn(kept)
      <4>1. DOMAIN kept = FormatIn(state) \cup ContentIn(state)
        BY <1>2
      <4> HIDE DEF FormatIn, ContentIn
      <4> QED BY <1>9, <1>10, <4>1
    <3>2. KeptDocument(document, kept) =
            [k \in FormatIn(kept) \cup ContentIn(kept) |->
               IF k = "content" /\ ~preserve THEN EmptyObject ELSE kept[k]]
      BY <1>1
    <3> HIDE DEF FormatIn, ContentIn, preserve
    <3> QED BY <3>1, <3>2
  <2>2. \A k \in DOMAIN kept : (IF k = "content" /\ ~preserve THEN EmptyObject ELSE kept[k]) = kept[k]
    BY <1>2
  <2>3. kept = [k \in DOMAIN kept |-> kept[k]]
    BY <1>1
  <2> HIDE DEF preserve
  <2> QED BY <2>1, <2>2, <2>3
<1> QED BY <1>11, <1>12

(* What is kept of a file is its path, which is allowed again.             *)
LEMMA FileIsKeptAgain ==
  ASSUME NEW file, NEW state, FileKept(file, state),
         NEW kept, kept = [path |-> PathOf(state)]
  PROVE  FileFits(file, kept) /\ FileKept(file, kept) /\ PathOf(kept) = PathOf(state)
<1>1. PathOf(state) # "5" /\ PathOf(state) # Blank
  BY DEF FileKept, PathOf, Blank
<1>2. PathOf(kept) = PathOf(state)
  <2> DEFINE p == PathOf(state)
  <2>1. kept.path = p /\ "path" \in DOMAIN kept
    BY DEF p
  <2> HIDE DEF p
  <2>2. p # "5"
    BY <1>1 DEF p
  <2>3. PathOf(kept) = p
    BY <2>1, <2>2 DEF PathOf, Field
  <2> QED BY <2>3 DEF p
<1>3. kept # Odd
  <2>1. "(odd)" \notin DOMAIN kept
    OBVIOUS
  <2> QED BY <2>1 DEF Odd
<1> HIDE DEF PathOf
<1>4. PathAllowed(file, PathOf(kept))
  BY <1>2 DEF FileKept
<1> QED BY <1>1, <1>2, <1>3, <1>4 DEF FileKept, FileFits

(* A file that fits and is not kept was not given and need not be: it fits *)
(* when it is not there.                                                   *)
LEMMA NoFileIsKept ==
  ASSUME NEW file, NEW state, FileFits(file, state), ~FileKept(file, state)
  PROVE  FileFits(file, NoFields) /\ ~FileKept(file, NoFields)
<1>1. PathOf(NoFields) = Blank
  BY DEF PathOf, Field, NoFields, Blank
<1>2. NoFields # Odd
  <2>1. "(odd)" \notin DOMAIN NoFields
    BY DEF NoFields
  <2> QED BY <2>1 DEF Odd
<1>3. ~IsOn(file, "required")
  BY DEF FileFits, FileKept
<1> QED BY <1>1, <1>2, <1>3 DEF FileFits, FileKept

(* An id tells which entry of a list is meant.                             *)
LEMMA EntryOfId ==
  ASSUME NEW list, DistinctIds(list), NEW d \in ToSet(list)
  PROVE  \A e \in ToSet(list) : e.id = d.id => e = d
BY DEF DistinctIds, ToSet

(* The entry of an id, and the sections of a normalized config.            *)
Entry(schema, section, id) == CHOOSE d \in ToSet(Entries(schema, section)) : d.id = id

LEMMA NormalizedSections ==
  ASSUME NEW schema, NEW bundle
  PROVE  LET In(section) == ToSet(Entries(schema, section))
             tables == {d.id : d \in {e \in In("tables") : TableShaped(StateIn(bundle, "tables", e.id))}}
             documents == {d.id : d \in {e \in In("documents") : StateIn(bundle, "documents", e.id) # Odd}}
             files == {d.id : d \in {e \in In("files") : FileKept(e, StateIn(bundle, "files", e.id))}}
         IN  Normalized(schema, bundle) =
               [parameters |-> KeptParameters(schema, bundle.parameters),
                tables |-> [id \in tables |-> KeptTable(Entry(schema, "tables", id), StateIn(bundle, "tables", id))],
                documents |-> [id \in documents |->
                        KeptDocument(Entry(schema, "documents", id), StateIn(bundle, "documents", id))],
                files |-> [id \in files |-> [path |-> PathOf(StateIn(bundle, "files", id))]]]
BY DEF Normalized, Entry

(* What is written of a bundle is read back, unless a section is the       *)
(* marker.                                                                 *)
LEMMA BundleIsReadBack ==
  ASSUME NEW parameters, NEW tables, NEW documents, NEW files,
         "(odd)" \notin DOMAIN parameters \cup DOMAIN tables \cup DOMAIN documents \cup DOMAIN files,
         NEW bundle,
         bundle = [parameters |-> parameters, tables |-> tables,
                   documents |-> documents, files |-> files]
  PROVE  BundleOf(ToJson(bundle)) = bundle
<1>1. DOMAIN bundle = ConfigSections /\ bundle = [s \in ConfigSections |-> bundle[s]]
  BY FourSections
<1>2. ASSUME NEW s \in ConfigSections
      PROVE  bundle[s] # Odd
  <2>1. "(odd)" \notin DOMAIN bundle[s]
    BY FourSections
  <2> QED BY <2>1 DEF Odd
<1>3. NoFields # Odd
  <2>1. "(odd)" \notin DOMAIN NoFields
    BY DEF NoFields
  <2> QED BY <2>1 DEF Odd
<1>4. ASSUME NEW s \in ConfigSections
      PROVE  Field(ToJson(bundle), s, NoFields) = bundle[s]
  BY <1>1 DEF Field, ToJson
<1>5. BundleOf(ToJson(bundle)) = [s \in ConfigSections |-> bundle[s]]
  BY <1>2, <1>3, <1>4 DEF BundleOf
<1> QED BY <1>1, <1>5

(* An entry of a list of a part is a part.                                 *)
LEMMA EntryIsPart ==
  ASSUME NEW schema, NEW part, KnownFields(PartType(schema, part), JsonOf(part)),
         NEW k \in DOMAIN PartType(schema, part).list \cap DOMAIN JsonOf(part),
         NEW i \in DOMAIN JsonOf(part)[k]
  PROVE  Part(part[1] \o <<k, i>>, PartType(schema, part).list[k], JsonOf(part)[k][i])
           \in PartsOf(schema, part)
<1> DEFINE s == PartType(schema, part)
           json == JsonOf(part)
           Of(l) == {Part(part[1] \o <<l, j>>, s.list[l], json[l][j]) : j \in DOMAIN json[l]}
           in == UNION {Of(l) : l \in DOMAIN s.list \cap DOMAIN json}
           there == {Part(part[1] \o <<l, 0>>, s.part[l], json[l]) :
                       l \in DOMAIN s.part \cap DOMAIN json}
<1>1. PartsOf(schema, part) = in \cup there
  BY DEF PartsOf
<1>2. Part(part[1] \o <<k, i>>, s.list[k], json[k][i]) \in Of(k)
  OBVIOUS
<1>3. Of(k) \in {Of(l) : l \in DOMAIN s.list \cap DOMAIN json}
  OBVIOUS
<1> HIDE DEF Of, there
<1> QED BY <1>1, <1>2, <1>3

(* The documents of a schema that was read have a format.                  *)
LEMMA DocumentsHaveFormats ==
  ASSUME NEW schema, SchemaReadable(schema),
         NEW d \in ToSet(Entries(schema, "documents"))
  PROVE  d.format \notin {"", "5"}
<1> DEFINE root == Part(<<>>, "config schema", schema)
           first == UNION {PartsOf(ConfigTypes, p) : p \in {root}}
<1>1. /\ ConfigTypes["config schema"] = ConfigSchemaType
      /\ ConfigTypes["document"] = DocumentType
  BY DEF ConfigTypes
<1>2. DOMAIN ConfigSchemaType.variants = {} /\ DOMAIN DocumentType.variants = {}
  BY DEF ConfigSchemaType, DocumentType, Plain, NoFields
<1>3. \A p \in AllParts(ConfigTypes, "config schema", schema) :
        LET s == PartType(ConfigTypes, p)
        IN  KnownFields(s, JsonOf(p)) /\ TextsFit(s, JsonOf(p))
  BY DEF SchemaReadable, Sound
<1>4. root \in AllParts(ConfigTypes, "config schema", schema)
      /\ first \subseteq AllParts(ConfigTypes, "config schema", schema)
  BY DEF AllParts
<1>5. PartType(ConfigTypes, root) = ConfigSchemaType /\ JsonOf(root) = schema /\ root[1] = <<>>
  BY <1>1, <1>2 DEF PartType, Variant, Part, JsonOf
<1>6. KnownFields(ConfigSchemaType, schema)
  BY <1>3, <1>4, <1>5
<1>7. PICK i \in DOMAIN schema.documents : "documents" \in DOMAIN schema /\ d = schema.documents[i]
  <2>1. PICK i \in DOMAIN Entries(schema, "documents") : d = Entries(schema, "documents")[i]
    BY DEF ToSet
  <2>2. "documents" \in DOMAIN schema
    <3>1. SUFFICES ASSUME "documents" \notin DOMAIN schema PROVE FALSE
      OBVIOUS
    <3>2. Entries(schema, "documents") = <<>>
      BY <3>1 DEF Entries, Field
    <3> QED BY <2>1, <3>2
  <2> QED BY <2>1, <2>2 DEF Entries, Field
<1>8. "documents" \in DOMAIN ConfigSchemaType.list
      /\ ConfigSchemaType.list["documents"] = "document"
  BY DEF ConfigSchemaType, Plain
<1> DEFINE p == Part(<<>> \o <<"documents", i>>, "document", d)
<1>9. p \in first
  <2>1. "documents" \in DOMAIN ConfigSchemaType.list \cap DOMAIN schema
    BY <1>7, <1>8
  <2> HIDE DEF root
  <2>2. Part(root[1] \o <<"documents", i>>, ConfigSchemaType.list["documents"],
             JsonOf(root)["documents"][i]) \in PartsOf(ConfigTypes, root)
    BY <1>5, <1>6, <1>7, <2>1, EntryIsPart
  <2> QED BY <1>5, <1>7, <1>8, <2>2
<1>10. PartType(ConfigTypes, p) = DocumentType /\ JsonOf(p) = d
  BY <1>1, <1>2 DEF PartType, Variant, Part, JsonOf
<1> HIDE DEF p, first
<1>11. KnownFields(DocumentType, d) /\ TextsFit(DocumentType, d)
  BY <1>3, <1>4, <1>9, <1>10
<1>12. "format" \in DocumentType.must /\ "format" \in DocumentType.filled
  BY DEF DocumentType, Plain
<1> QED BY <1>11, <1>12 DEF KnownFields, TextsFit

(* Odd stands for what is no object: no schema declares the id it has.     *)
MarkerIsNoId(schema) == \A section \in ConfigSections : "(odd)" \notin Declared(schema, section)

(* What is kept of a config without errors is written and read back as it  *)
(* is, has no errors, and is kept as it is.                                *)
LEMMA KeptIsKept ==
  ASSUME NEW schema, SchemaReadable(schema), MarkerIsNoId(schema),
         NEW config, ConfigIsJson(config), BundleValid(schema, BundleOf(config)),
         NEW kept, kept = Normalized(schema, BundleOf(config))
  PROVE  /\ BundleOf(ToJson(kept)) = kept
         /\ BundleValid(schema, kept)
         /\ Normalized(schema, kept) = kept
<1> DEFINE bundle == BundleOf(config)
           In(section) == ToSet(Entries(schema, section))
           Ids(section) == {d.id : d \in In(section)}
           Given(section, d) == StateIn(bundle, section, d.id)
           Found(section, d) == StateIn(kept, section, d.id)
           filled == {f \in In("files") : FileKept(f, Given("files", f))}
           tables == [id \in Ids("tables") |->
                        KeptTable(Entry(schema, "tables", id), StateIn(bundle, "tables", id))]
           documents == [id \in Ids("documents") |->
                           KeptDocument(Entry(schema, "documents", id), StateIn(bundle, "documents", id))]
           files == [id \in {f.id : f \in filled} |-> [path |-> PathOf(StateIn(bundle, "files", id))]]
<1>1. IsObject(bundle.parameters)
  BY DEF ConfigIsJson
<1>2. ASSUME NEW t \in In("tables")
      PROVE  /\ \E T : RowsOf(Given("tables", t)) \in Seq(T)
             /\ \A i \in DOMAIN RowsOf(Given("tables", t)) : IsObject(RowsOf(Given("tables", t))[i])
  <2>1. CASE t.id \in DOMAIN bundle.tables
    <3>1. Given("tables", t) = bundle.tables[t.id]
      BY <2>1 DEF StateIn, Field
    <3> QED BY <2>1, <3>1 DEF ConfigIsJson
  <2>2. CASE t.id \notin DOMAIN bundle.tables
    <3>1. Given("tables", t) = NoFields
      BY <2>2 DEF StateIn, Field
    <3>2. RowsOf(NoFields) = <<>>
      BY DEF RowsOf, Field, NoFields
    <3>3. <<>> \in Seq({}) /\ DOMAIN <<>> = {}
      OBVIOUS
    <3> HIDE DEF bundle
    <3> QED BY <3>1, <3>2, <3>3
  <2> QED BY <2>1, <2>2
<1>3. \A section : Ids(section) = Declared(schema, section)
  BY DEF Declared, IdsOf, ToSet
<1>4. /\ DOMAIN bundle.parameters \subseteq Declared(schema, "parameters")
      /\ \A p \in In("parameters") : ParameterFits(p, bundle.parameters)
      /\ \A t \in In("tables") : TableFits(t, Given("tables", t))
      /\ \A d \in In("documents") : DocumentFits(d, Given("documents", d))
      /\ \A f \in In("files") : FileFits(f, Given("files", f))
  BY FourSections DEF BundleValid
<1>5. ASSUME NEW section \in ConfigSections, NEW d \in In(section)
      PROVE  Entry(schema, section, d.id) = d
  BY EntryOfId DEF SchemaReadable, Entry
<1>6. kept = [parameters |-> bundle.parameters, tables |-> tables,
              documents |-> documents, files |-> files]
  <2>1. KeptParameters(schema, bundle.parameters) = bundle.parameters
    BY <1>1, <1>4, ParametersAreKept
  <2>2. {e \in In("tables") : TableShaped(StateIn(bundle, "tables", e.id))} = In("tables")
    BY <1>4 DEF TableFits
  <2>3. {e \in In("documents") : StateIn(bundle, "documents", e.id) # Odd} = In("documents")
    BY <1>4 DEF DocumentFits
  <2> QED BY <2>1, <2>2, <2>3, NormalizedSections
<1> HIDE DEF bundle
<1>7. ASSUME NEW t \in In("tables")
      PROVE  Found("tables", t) = KeptTable(t, Given("tables", t))
  <2>1. t.id \in DOMAIN tables /\ Entry(schema, "tables", t.id) = t
    BY <1>5, FourSections
  <2>2. kept["tables"] = tables
    BY <1>6
  <2> QED BY <2>1, <2>2 DEF StateIn, Field
<1>8. ASSUME NEW d \in In("documents")
      PROVE  Found("documents", d) = KeptDocument(d, Given("documents", d))
  <2>1. d.id \in DOMAIN documents /\ Entry(schema, "documents", d.id) = d
    BY <1>5, FourSections
  <2>2. kept["documents"] = documents
    BY <1>6
  <2> QED BY <2>1, <2>2 DEF StateIn, Field
<1>9. ASSUME NEW f \in In("files")
      PROVE  /\ f \in filled => Found("files", f) = [path |-> PathOf(Given("files", f))]
             /\ f \notin filled => Found("files", f) = NoFields
  <2>1. kept["files"] = files
    BY <1>6
  <2>2. f \in filled <=> f.id \in DOMAIN files
    <3>1. \A e \in filled : e.id = f.id => e = f
      BY <1>5, FourSections
    <3> QED BY <3>1
  <2> QED BY <2>1, <2>2 DEF StateIn, Field
<1>10. /\ DOMAIN tables = Declared(schema, "tables")
       /\ DOMAIN documents = Declared(schema, "documents")
       /\ DOMAIN files \subseteq Declared(schema, "files")
  BY <1>3
<1>11. ASSUME NEW t \in In("tables")
       PROVE  TableFits(t, Found("tables", t)) /\ KeptTable(t, Found("tables", t)) = Found("tables", t)
  BY <1>2, <1>4, <1>7, TableIsKeptAgain
<1>12. ASSUME NEW d \in In("documents")
       PROVE  /\ DocumentFits(d, Found("documents", d))
              /\ KeptDocument(d, Found("documents", d)) = Found("documents", d)
  BY <1>4, <1>8, DocumentIsKeptAgain, DocumentsHaveFormats
<1>13. ASSUME NEW f \in In("files")
       PROVE  /\ FileFits(f, Found("files", f))
              /\ FileKept(f, Found("files", f)) <=> f \in filled
              /\ f \in filled => [path |-> PathOf(Found("files", f))] = Found("files", f)
  <2>1. CASE f \in filled
    <3>1. Found("files", f) = [path |-> PathOf(Given("files", f))]
      BY <1>9, <2>1
    <3> HIDE DEF Found, Given
    <3>2. FileKept(f, Given("files", f))
      BY <2>1
    <3> QED BY <2>1, <3>1, <3>2, FileIsKeptAgain
  <2>2. CASE f \notin filled
    BY <1>4, <1>9, <2>2, NoFileIsKept
  <2> QED BY <2>1, <2>2
<1>14. BundleOf(ToJson(kept)) = kept
  <2>1. "(odd)" \notin DOMAIN bundle.parameters \cup DOMAIN tables
                         \cup DOMAIN documents \cup DOMAIN files
    BY <1>4, <1>10, FourSections DEF MarkerIsNoId
  <2> HIDE DEF tables, documents, files
  <2> QED BY <1>6, <2>1, BundleIsReadBack
<1>15. /\ kept["parameters"] = bundle.parameters /\ kept["tables"] = tables
       /\ kept["documents"] = documents /\ kept["files"] = files
  <2> HIDE DEF tables, documents, files
  <2> QED BY <1>6
<1>16. BundleValid(schema, kept)
  <2>1. \A section \in ConfigSections \ {"tables"} :
          DOMAIN kept[section] \subseteq Declared(schema, section)
    <3> HIDE DEF tables, documents, files
    <3> QED BY <1>4, <1>10, <1>15, FourSections
  <2>2. \A p \in In("parameters") : ParameterFits(p, kept.parameters)
    BY <1>4, <1>15
  <2> HIDE DEF tables, documents, files
  <2> QED BY <1>11, <1>12, <1>13, <2>1, <2>2 DEF BundleValid
<1>17. Normalized(schema, kept) = kept
  <2>1. KeptParameters(schema, kept.parameters) = bundle.parameters
    BY <1>1, <1>4, <1>15, ParametersAreKept
  <2>2. {e \in In("tables") : TableShaped(Found("tables", e))} = In("tables")
    BY <1>11 DEF TableFits
  <2>3. {e \in In("documents") : Found("documents", e) # Odd} = In("documents")
    BY <1>12 DEF DocumentFits
  <2>4. {e \in In("files") : FileKept(e, Found("files", e))} = filled
    BY <1>13
  <2>5. [id \in Ids("tables") |-> KeptTable(Entry(schema, "tables", id), StateIn(kept, "tables", id))]
          = tables
    <3>1. ASSUME NEW id \in Ids("tables")
          PROVE  KeptTable(Entry(schema, "tables", id), StateIn(kept, "tables", id)) = tables[id]
      <4>1. PICK t \in In("tables") : id = t.id
        OBVIOUS
      <4>2. Entry(schema, "tables", id) = t
        BY <1>5, <4>1, FourSections
      <4>3. KeptTable(t, Found("tables", t)) = KeptTable(t, Given("tables", t))
        BY <1>7, <1>11
      <4> QED BY <4>1, <4>2, <4>3
    <3> QED BY <3>1
  <2>6. [id \in Ids("documents") |->
           KeptDocument(Entry(schema, "documents", id), StateIn(kept, "documents", id))] = documents
    <3>1. ASSUME NEW id \in Ids("documents")
          PROVE  KeptDocument(Entry(schema, "documents", id), StateIn(kept, "documents", id))
                   = documents[id]
      <4>1. PICK d \in In("documents") : id = d.id
        OBVIOUS
      <4>2. Entry(schema, "documents", id) = d
        BY <1>5, <4>1, FourSections
      <4>3. KeptDocument(d, Found("documents", d)) = KeptDocument(d, Given("documents", d))
        BY <1>8, <1>12
      <4> QED BY <4>1, <4>2, <4>3
    <3> QED BY <3>1
  <2>7. [id \in {f.id : f \in filled} |-> [path |-> PathOf(StateIn(kept, "files", id))]] = files
    <3>1. ASSUME NEW id \in {f.id : f \in filled}
          PROVE  [path |-> PathOf(StateIn(kept, "files", id))] = files[id]
      <4>1. PICK f \in filled : id = f.id
        OBVIOUS
      <4>2. [path |-> PathOf(Found("files", f))] = [path |-> PathOf(Given("files", f))]
        BY <1>9, <1>13
      <4> QED BY <4>1, <4>2
    <3> QED BY <3>1
  <2>8. Normalized(schema, kept) = [parameters |-> bundle.parameters, tables |-> tables,
                                    documents |-> documents, files |-> files]
    <3>1. Normalized(schema, kept) =
            [parameters |-> KeptParameters(schema, kept.parameters),
             tables |-> [id \in Ids("tables") |->
                           KeptTable(Entry(schema, "tables", id), StateIn(kept, "tables", id))],
             documents |-> [id \in Ids("documents") |->
                              KeptDocument(Entry(schema, "documents", id), StateIn(kept, "documents", id))],
             files |-> [id \in {f.id : f \in filled} |-> [path |-> PathOf(StateIn(kept, "files", id))]]]
      BY <2>2, <2>3, <2>4, NormalizedSections
    <3> QED BY <2>1, <2>5, <2>6, <2>7, <3>1
  <2> QED BY <1>6, <2>8
<1> QED BY <1>14, <1>16, <1>17

NoMarkers == answer.given => \A i \in Checked : MarkerIsNoId(SchemaOf(i))

(* What is kept of an accepted config is accepted again and kept as it is, *)
(* whatever the package and its schema.                                    *)
THEOREM NormalizedStaysStable ==
  ASSUME ProjectsAreJson
  PROVE  Spec /\ []NoMarkers => []NormalizedIsStable
<1>1. AnswerInv /\ NoMarkers => NormalizedIsStable
  <2> SUFFICES ASSUME AnswerInv, NoMarkers, answer.given, answer.ok, NEW i \in Checked,
                      NEW kept, kept = Normalized(SchemaOf(i), BundleOf(i.config))
               PROVE  /\ BundleValid(SchemaOf(i), BundleOf(ToJson(kept)))
                      /\ Normalized(SchemaOf(i), BundleOf(ToJson(kept))) = kept
    BY DEF NormalizedIsStable
  <2>1. StaticallyValid(answer.packages, answer.project) /\ ConfigIsJson(i.config)
    BY DEF AnswerInv, AnswerIsCheck, ProjectIsJson, Checked
  <2>2. InstanceValid(answer.packages, i)
    BY <2>1 DEF StaticallyValid, Checked, ToSet
  <2>3. SchemaReadable(SchemaOf(i)) /\ BundleValid(SchemaOf(i), BundleOf(i.config))
    BY <2>2 DEF InstanceValid, SchemaOf
  <2>4. MarkerIsNoId(SchemaOf(i))
    BY DEF NoMarkers
  <2> QED BY <2>1, <2>3, <2>4, KeptIsKept
<1> QED BY <1>1, AnswerIsAlwaysCheck, PTL
=============================================================================
