-------------------------- MODULE MCProjectSession --------------------------
(***************************************************************************)
(* A session on projects of at most two instances of one IP core.  The     *)
(* graph can display the first, not the second.                            *)
(***************************************************************************)
EXTENDS ProjectSession

CONSTANT c1

MCTokenOf == [c \in Cores |-> "noc"]
MCCoreLimit == [c \in Cores |-> Unlimited]
MCKindScope == [c \in Cores |-> "kind"]
MCScopeLimits == [c \in Cores |-> [s \in {} |-> 0]]

Empty == [components |-> <<>>, views |-> "grid"]

OneInstance ==
  [components |-> <<[core |-> c1, inst |-> <<"noc", 0>>, value |-> DefaultValue]>>,
   views |-> "grid"]

MCShown == {[core |-> c1, inst |-> <<"noc", 0>>]}

MCProjects == {Empty, OneInstance}
=============================================================================
