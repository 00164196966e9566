-------------------------- MODULE CompositionChecks --------------------------
(***************************************************************************)
(* validateCompositionModel: whether the connections of a project fit the  *)
(* interfaces of the packages its instances are of.  What it complains of  *)
(* is reduced to whether it does; two packages whose aliases disagree in   *)
(* keys that differ by case only do not occur together, since which wins   *)
(* depends on the order of a hash table.                                   *)
(*                                                                         *)
(* An instance is its id and the specification of its package, an endpoint *)
(* names instance, interface and, if it is not that of the interface, its  *)
(* role.                                                                   *)
(***************************************************************************)
EXTENDS PackageSpecs

FindInterface(package, id) == SelectSeq(package.interfaces, LAMBDA i : i.id = id)

Known(instances, end) ==
  \E i \in DOMAIN instances :
    instances[i].id = end.instance /\ FindInterface(instances[i].package, end.interface) # <<>>

InterfaceAt(instances, end) ==
  LET i == CHOOSE j \in DOMAIN instances : instances[j].id = end.instance
  IN  Head(FindInterface(instances[i].package, end.interface))

(* Aliases are followed eight times, each time by the key as it is written *)
(* or else by one that differs by case.                                    *)
FollowAlias(aliases, value) ==
  LET alike == {k \in DOMAIN aliases : Lowercase(k) = Lowercase(value)}
  IN  IF value \in DOMAIN aliases THEN aliases[value]
      ELSE IF alike # {} THEN aliases[CHOOSE k \in alike : TRUE]
      ELSE value

AliasDepth == 8

NormalizeAlias(value, aliases) ==
  Lowercase(FoldLeft(LAMBDA v, i : FollowAlias(aliases, v), value, [i \in 1..AliasDepth |-> i]))

(* The aliases and rules of all instances; a later alias of the same key   *)
(* replaces an earlier one.                                                *)
AliasContext(instances) ==
  LET Merged(so, i) ==
        [protocols |-> instances[i].package.rules.protocolAliases @@ so.protocols,
         kinds |-> instances[i].package.rules.kindAliases @@ so.kinds,
         rules |-> so.rules \o instances[i].package.rules.compatibility]
  IN  FoldLeft(Merged, [protocols |-> NoFields, kinds |-> NoFields, rules |-> <<>>],
               [i \in DOMAIN instances |-> i])

SourceRoles == {"source", "master", "output", "producer", "driver"}
SourceDirections == {"output", "out", "source"}
SinkRoles == {"sink", "slave", "input", "consumer", "receiver"}
SinkDirections == {"input", "in", "sink"}

(* An end as the rules see it; it may be source and sink at once.          *)
ResolvedEnd(instances, aliases, end) ==
  LET interface == InterfaceAt(instances, end)
      role == Lowercase(IF end.role = Blank THEN interface.role ELSE end.role)
      direction == Lowercase(interface.direction)
  IN  [kind |-> NormalizeAlias(interface.kind, aliases.kinds),
       protocol |-> NormalizeAlias(interface.protocol, aliases.protocols),
       role |-> role, direction |-> direction,
       source |-> role \in SourceRoles \/ direction \in SourceDirections,
       sink |-> role \in SinkRoles \/ direction \in SinkDirections]

MatchesEndpoint(match, end, aliases) ==
  /\ NormalizeAlias(match.kind, aliases.kinds) \in {Blank, end.kind}
  /\ NormalizeAlias(match.protocol, aliases.protocols) \in {Blank, end.protocol}
  /\ Lowercase(match.role) \in {Blank, end.role}
  /\ Lowercase(match.direction) \in {Blank, end.direction}

RuleAllows(rule, type, source, sink, arities, aliases) ==
  /\ Lowercase(rule.type) \in {Blank, Lowercase(type)}
  /\ Lowercase(rule.arity) \in {Blank} \cup arities
  /\ MatchesEndpoint(rule.from, source, aliases)
  /\ MatchesEndpoint(rule.to, sink, aliases)

(* Without any rule, ends of one kind and protocol go together.            *)
HasCompatibilityRule(aliases, type, source, sink, arities) ==
  IF aliases.rules = <<>>
  THEN /\ source.kind = sink.kind
       /\ Blank \in {source.protocol, sink.protocol} \/ source.protocol = sink.protocol
       /\ source.source /\ sink.sink
  ELSE \E r \in ToSet(aliases.rules) : RuleAllows(r, type, source, sink, arities, aliases)

HasConnectionClassRule(aliases, type) ==
  \/ aliases.rules = <<>>
  \/ \E r \in ToSet(aliases.rules) : Lowercase(r.type) \in {Blank, Lowercase(type)}

Arities(connection) == {"fanout"} \cup IF Len(connection.endpoints) = 2 THEN {"binary"} ELSE {}

(* A connection drives its sinks if all ends are known, exactly one is a   *)
(* source, whatever the type, and it fits every sink.                      *)
Drives(instances, connection) ==
  LET aliases == AliasContext(instances)
      ends == connection.endpoints
      Resolved(i) == ResolvedEnd(instances, aliases, ends[i])
      sources == {i \in DOMAIN ends : Resolved(i).source}
      sinks == {i \in DOMAIN ends : Resolved(i).sink}
  IN  /\ \A i \in DOMAIN ends : Known(instances, ends[i])
      /\ HasConnectionClassRule(aliases, connection.type)
      /\ Cardinality(sources) = 1
      /\ sinks # {}
      /\ \A source \in sources, sink \in sinks :
           HasCompatibilityRule(aliases, connection.type, Resolved(source), Resolved(sink),
                                Arities(connection))

EndKey(end) == <<end.instance, end.interface>>

SinkEnds(instances, connection, key) ==
  {i \in DOMAIN connection.endpoints :
     /\ EndKey(connection.endpoints[i]) = key
     /\ ResolvedEnd(instances, AliasContext(instances), connection.endpoints[i]).sink}

(* A mutant: the count starts again with every connection.                 *)
SinkDriverCountByOne(instances, connections, key) ==
  LET counts == {Cardinality(SinkEnds(instances, connections[c], key)) :
                   c \in {d \in DOMAIN connections : Drives(instances, connections[d])}}
  IN  IF counts = {} THEN 0 ELSE Max(counts)

(* How often an interface is driven, over all connections that drive.      *)
Driven(instances, connections, key) ==
  UNION {{<<c, i>> : i \in SinkEnds(instances, connections[c], key)} :
           c \in {d \in DOMAIN connections : Drives(instances, connections[d])}}

SinkDriverCount(instances, connections, key) ==
  Cardinality(Driven(instances, connections, key))

EndsOf(connections) == UNION {ToSet(connections[c].endpoints) : c \in DOMAIN connections}

(* The interfaces that a connection or an external port uses.              *)
Connected(instances, model) ==
  {EndKey(end) : end \in {e \in EndsOf(model.connections) \cup ToSet(model.ports) :
                            Known(instances, e)}}

RequiredConnected(instances, connected) ==
  \A i \in DOMAIN instances :
    \A interface \in ToSet(instances[i].package.interfaces) :
      interface.required => <<instances[i].id, interface.id>> \in connected

(* model holds the connections and the interfaces external ports name.     *)
CompositionValid(instances, model) ==
  /\ \A c \in DOMAIN model.connections : Drives(instances, model.connections[c])
  /\ \A p \in DOMAIN model.ports : Known(instances, model.ports[p])
  /\ \A end \in EndsOf(model.connections) :
       SinkDriverCount(instances, model.connections, EndKey(end)) <= 1
  /\ RequiredConnected(instances, Connected(instances, model))
=============================================================================
