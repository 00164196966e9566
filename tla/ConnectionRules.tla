--------------------------- MODULE ConnectionRules ---------------------------
(***************************************************************************)
(* ConnectionRuleService::check: which connections a graph still takes,    *)
(* between two ports or from a port to whatever port of a module fits.     *)
(* The editor asks it before it edits the design, the loader once more for *)
(* each connection of a project.                                           *)
(*                                                                         *)
(* A graph has modules, a function from their ids to [instance, type,      *)
(* expanded], the order of the ids, and connections, a sequence of [id,    *)
(* source, target, class, status].  An end is a pair <<module, port>>.  A  *)
(* port is its interface: the module provider makes one port of each.  All *)
(* rejections are one; reasons, messages, labels and the order of a menu   *)
(* are left out.                                                           *)
(***************************************************************************)
EXTENDS Naturals, Sequences, FiniteSets, SequencesExt

CONSTANTS
  Types,          \* the module types of the packages
  Ports(_),       \* the ports of a module type
  Port(_, _),     \* what the rules know of a port of a type
  Classes         \* the package's connection classes, in order

(* A port has input, output (directions it supports), accepts (its rules,  *)
(* [class, role], a sequence), multi (multiConnection), cardinality, group *)
(* (autocomplete), rule (topology), side (its own or that of its name),    *)
(* sided (the side is its own, or its name is one), opposite, bus, role,   *)
(* compatible (roles), fields (the values of each field that has to match).*)

(* What makes ports of an interface that has accept rules takes both from  *)
(* its multiConnection.                                                    *)
ASSUME PortsAssumption ==
  \A type \in Types : \A p \in Ports(type) :
    Port(type, p).accepts # << >> =>
      (Port(type, p).cardinality = "one" <=> ~Port(type, p).multi)

Semantics(graph, end) == Port(graph.modules[end[1]].type, end[2])

HasPort(graph, end) ==
  /\ end[1] \in DOMAIN graph.modules
  /\ end[2] \in Ports(graph.modules[end[1]].type)

ConnectionExists(graph, source, target) ==
  \E c \in ToSet(graph.connections) : c.source = source /\ c.target = target

(* portOccupiedForCardinalityOne *)
Occupied(graph, end) ==
  \E c \in ToSet(graph.connections) : end \in {c.source, c.target}

-----------------------------------------------------------------------------
(* Rules on directions and sides.  A port dragged from has a visual side;  *)
(* a request between two ports has none.                                   *)
DirectionRules(s, t, from, to) ==
  /\ from # "input" /\ to # "output"
  /\ s.output /\ t.input

OppositeInterfacesMatch(s, sPort, t, tPort) ==
  /\ s.opposite \in {"", tPort}
  /\ t.opposite \in {"", sPort}

OppositeSide(side) ==
  CASE side = "north" -> "south" [] side = "south" -> "north"
    [] side = "east" -> "west"   [] side = "west" -> "east"
    [] OTHER -> ""

SidesAreOpposite(s, t) == s.side # "" /\ OppositeSide(s.side) = t.side

NeedsOppositeSide(s, t) == "opposite_side" \in {s.rule, t.rule}

OppositeSideRule(s, sPort, t, tPort) ==
  /\ OppositeInterfacesMatch(s, sPort, t, tPort)
  /\ NeedsOppositeSide(s, t) => SidesAreOpposite(s, t)

(* Where classes decide, ports without a side of their own may pass.       *)
ClassOppositeSideRule(s, sPort, t, tPort) ==
  /\ OppositeInterfacesMatch(s, sPort, t, tPort)
  /\ NeedsOppositeSide(s, t) /\ s.sided /\ t.sided => SidesAreOpposite(s, t)

-----------------------------------------------------------------------------
(* Ports without accept rules: bus and role decide.                        *)
BidirectionalPeers(s, t) ==
  /\ s.input /\ s.output /\ t.input /\ t.output
  /\ NeedsOppositeSide(s, t)

RolesFit(s, t) ==
  /\ BidirectionalPeers(s, t) \/ (s.role # "target" /\ t.role # "initiator")
  /\ s.role # "" \/ t.role # "" =>
       t.role \in s.compatible /\ s.role \in t.compatible

DeclarativeRules(graph, source, target, from, to) ==
  LET s == Semantics(graph, source)
      t == Semantics(graph, target)
  IN  /\ DirectionRules(s, t, from, to)
      /\ s.cardinality = "one" => ~Occupied(graph, source)
      /\ t.cardinality = "one" => ~Occupied(graph, target)
      /\ OppositeSideRule(s, source[2], t, target[2])
      /\ s.bus = t.bus
      /\ RolesFit(s, t)

(* Whoever decided, the ends belong to one instance, and the values of     *)
(* each field either of them wants matched overlap.                        *)
IpcoreConstraints(graph, source, target) ==
  LET s == Semantics(graph, source).fields
      t == Semantics(graph, target).fields
  IN  /\ graph.modules[source[1]].instance = graph.modules[target[1]].instance
      /\ DOMAIN s = DOMAIN t
      /\ \A field \in DOMAIN s : s[field] \cap t[field] # {}

-----------------------------------------------------------------------------
(* Ports with accept rules: IpcraftConnectionValidator, by class.          *)

(* interfaceAlreadyUsed: an invalid connection takes no interface.         *)
Used(graph, end) ==
  \E c \in ToSet(graph.connections) :
    c.status # "invalid" /\ end \in {c.source, c.target}

RoleIn(port, class) ==
  LET n == SelectInSeq(port.accepts, LAMBDA rule : rule.class = class.id)
  IN  IF n = 0 THEN "unaccepted" ELSE port.accepts[n].role

RolesMatch(class, roles) ==
  IF class.symmetric /\ Len(class.roles) = 1
  THEN ToSet(roles) = ToSet(class.roles)
  ELSE \/ roles = class.roles
       \/ class.symmetric /\ roles = Reverse(class.roles)

ClassFits(class, s, t) ==
  LET roles == <<RoleIn(s, class), RoleIn(t, class)>>
  IN  ~Contains(roles, "unaccepted") /\ RolesMatch(class, roles)

(* The classes a connection may have, of all or of the one asked for; none *)
(* when an end that takes one connection has it.                           *)
FittingClasses(s, t, wanted) ==
  SelectSeq(Classes, LAMBDA class : wanted \in {"", class.id} /\ ClassFits(class, s, t))

ValidClasses(graph, source, target, wanted) ==
  LET s == Semantics(graph, source)
      t == Semantics(graph, target)
  IN  IF (~s.multi /\ Used(graph, source)) \/ (~t.multi /\ Used(graph, target))
      THEN <<>> ELSE FittingClasses(s, t, wanted)

(* PackageConnectionRuleProvider: of several classes the first, marked.    *)
ByClass(graph, source, target, from, to, wanted) ==
  LET s == Semantics(graph, source)
      t == Semantics(graph, target)
      valid == ValidClasses(graph, source, target, wanted)
  IN  IF /\ DirectionRules(s, t, from, to)
         /\ ClassOppositeSideRule(s, source[2], t, target[2])
         /\ valid # <<>>
      THEN {[source |-> source, target |-> target, class |-> Head(valid).id,
             status |-> IF Len(valid) = 1 THEN "valid" ELSE "ambiguous"]}
      ELSE {}

Declared(graph, source, target, from, to) ==
  IF DeclarativeRules(graph, source, target, from, to)
  THEN {[source |-> source, target |-> target, class |-> "", status |-> ""]}
  ELSE {}

(* tryAppendOption: no or one option for two ports.                        *)
Option(graph, source, target, from, to, wanted) ==
  IF \/ source[1] = target[1]
     \/ ConnectionExists(graph, source, target)
     \/ ~IpcoreConstraints(graph, source, target)
  THEN {}
  ELSE IF << >> \in {Semantics(graph, source).accepts, Semantics(graph, target).accepts}
  THEN Declared(graph, source, target, from, to)
  ELSE ByClass(graph, source, target, from, to, wanted)

-----------------------------------------------------------------------------
(* check() for two ports: as the user draws it, or as a record has it.     *)
PortToPort(graph, source, target, wanted) ==
  IF HasPort(graph, source) /\ HasPort(graph, target)
  THEN Option(graph, source, target, "none", "none", wanted) ELSE {}

(* The ports of a module a drag may end at: those of the group it started  *)
(* in, if there are any.                                                   *)
Candidates(graph, start, module) ==
  LET type   == graph.modules[module].type
      group  == Semantics(graph, start).group
      inside == {p \in Ports(type) : Port(type, p).group = group}
  IN  IF group = "" \/ inside = {} THEN Ports(type) ELSE inside

OtherSide(side) == IF side = "output" THEN "input" ELSE "output"

(* check() for a drag from one side of a port to the body of a module:     *)
(* every candidate, either way round.                                      *)
PortToNode(graph, start, side, module) ==
  UNION {LET end == <<module, p>>
         IN  Option(graph, start, end, side, OtherSide(side), "") \cup
             Option(graph, end, start, OtherSide(side), side, "") :
           p \in Candidates(graph, start, module)}

=============================================================================
