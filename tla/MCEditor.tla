------------------------------ MODULE MCEditor ------------------------------
(***************************************************************************)
(* An instance A with two routers and an endpoint; an instance B with two  *)
(* tiles and a relationship, written target first, whose id is what the    *)
(* editor would call one of A; an instance G without graph that may be     *)
(* added; and M, whose own module has what its package does not know.      *)
(***************************************************************************)
EXTENDS NodeEditor

CONSTANTS A, B, G, M, r1, r2, e, b1, b2, f

MCInstances == {A, B, G, M}

Plain ==
  [input |-> FALSE, output |-> FALSE, accepts |-> << >>, multi |-> FALSE,
   cardinality |-> "one", group |-> "", rule |-> "", side |-> "",
   sided |-> FALSE, opposite |-> "", bus |-> "", role |-> "",
   compatible |-> {}, fields |-> << >>]

Rule(class, role) == [class |-> class, role |-> role]

(* Links between routers by class, from side to opposite side; locals of   *)
(* two classes for what is attached; a port of the old declarative kind.   *)
PortTable == [port \in {"east", "west", "local", "gpio", "cpu"} |->
  CASE port = "east"  -> [Plain EXCEPT !.output = TRUE, !.side = "east", !.sided = TRUE,
                            !.rule = "opposite_side", !.opposite = "west",
                            !.accepts = <<Rule("link", "initiator")>>]
    [] port = "west"  -> [Plain EXCEPT !.input = TRUE, !.side = "west", !.sided = TRUE,
                            !.rule = "opposite_side", !.opposite = "east",
                            !.accepts = <<Rule("link", "target")>>]
    [] port = "local" -> [Plain EXCEPT !.input = TRUE, !.group = "attach",
                            !.accepts = <<Rule("chi", "interconnect"),
                                          Rule("trace", "interconnect")>>]
    [] port = "gpio"  -> [Plain EXCEPT !.input = TRUE, !.output = TRUE, !.bus = "gpio"]
    [] port = "cpu"   -> [Plain EXCEPT !.output = TRUE, !.group = "attach",
                            !.accepts = <<Rule("chi", "node"), Rule("trace", "node")>>]]

MCTypes == {"router", "tile", "endpoint"}

MCPort(type, port) == PortTable[port]

MCPorts(type) ==
  CASE type = "router"   -> {"east", "west", "local", "gpio"}
    [] type = "tile"     -> {"east", "west"}
    [] type = "endpoint" -> {"cpu"}

MCClasses ==
  <<[id |-> "link",  roles |-> <<"initiator", "target">>, symmetric |-> FALSE],
    [id |-> "chi",   roles |-> <<"node", "interconnect">>, symmetric |-> FALSE],
    [id |-> "trace", roles |-> <<"interconnect", "node">>, symmetric |-> TRUE]>>

MCOwnType(i)   == "endpoint"
MCCreatable(i) == CASE i = A -> {"endpoint"} [] i = B -> {} [] OTHER -> {"router"}
MCAttachments    == {<<"router", "local">>, <<"endpoint", "cpu">>}

Object(id, type) == [id |-> id, type |-> type, fits |-> TRUE]

Seed == [id |-> <<<<r1, "east">>, <<r2, "west">>, 1>>,
         ends |-> <<<<b2, "west">>, <<b1, "east">>>>, class |-> "link", status |-> "valid"]

MCDesign ==
  [components |-> <<A, B>>,
   graph |-> [i \in MCInstances |->
     CASE i = A -> [objects |-> <<Object(e, "endpoint"), Object(r1, "router"),
                                  Object(r2, "router")>>, relationships |-> << >>]
       [] i = B -> [objects |-> <<Object(b1, "tile"), Object(b2, "tile")>>,
                    relationships |-> <<Seed>>]
       [] OTHER -> NoGraph],
   expanded |-> {}, fractional |-> {}, topologies |-> {}]

=============================================================================
