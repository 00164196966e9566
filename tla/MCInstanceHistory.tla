------------------------- MODULE MCInstanceHistory -------------------------
(***************************************************************************)
(* CommandManager driven by the editor's two commands, on a project with   *)
(* two IP cores whose names end in the same token.                         *)
(***************************************************************************)
EXTENDS InstanceHistory, TLC

CONSTANTS c1, c2

MCTokenOf == [c \in Cores |-> "noc"]
MCCoreLimit == [c \in Cores |-> IF c = c1 THEN Unlimited ELSE 1]
MCScopeLimits == [c \in Cores |-> IF c = c1 THEN <<>> ELSE ("kind" :> 2)]
MCKindScope == [c \in Cores |-> "kind"]

LoadedRecord == [core |-> c1, inst |-> <<"noc", 0>>, value |-> NoValue]

MCInitialDocument == {OpenedOn(<<>>), OpenedOn(<<LoadedRecord>>)}

(* Which InstanceHistoryProofs proves of every catalog.                    *)
ASSUME InstanceCommandsAreReversible == ReversibleCommands
=============================================================================
