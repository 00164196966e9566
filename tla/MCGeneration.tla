---------------------------- MODULE MCGeneration ----------------------------
EXTENDS Generation

MCInstances == {"noc", "NOC", "Noc", "dma", "cpu", "old", "snapshot", "odd"}

MCOutputKey(i) == IF i \in {"NOC", "Noc"} THEN "noc" ELSE i

MCPlaces == {"output", "run"} \X (MCInstances \ {"NOC", "Noc"})

(* The usual flow alone; one that captures over its manifest; one that     *)
(* only runs its process, among instances that fail early; the ids and     *)
(* instances generate() refuses.  The three spellings of noc meet in one   *)
(* directory in successive calls.                                          *)
MCDesigns ==
  {<<>>, <<"noc">>, <<"Noc">>, <<"old", "dma", "NOC", "cpu">>,
   <<"noc", "NOC">>, <<"snapshot">>, <<"odd">>}

(* The process of the usual flow may outlive the first call.               *)
MCLasting == {<<"noc", 1>>}

(* The usual flow, with what the process says kept in a log; one whose     *)
(* command is refused and whose second step this runtime does not know;    *)
(* one whose process brings the manifest; and one that captures the output *)
(* of its process over its own manifest.                                   *)
MCCommand == [wellFormed |-> TRUE, executable |-> "none", tool |-> "inside",
              cwd |-> "run_dir", env |-> "list", limit |-> "default",
              timeout |-> "allowed", stdout |-> "log", stderr |-> "errors"]

MCPackage(i) ==
  [steps |-> CASE i = "old" -> <<"exec", "plugin_hook">>
               [] i = "NOC" -> <<"exec">>
               [] i = "Noc" -> <<"emit_inputs", "exec">>
               [] OTHER -> <<"emit_inputs", "exec", "collect_artifacts">>,
   command |-> CASE i = "old" -> [MCCommand EXCEPT !.timeout = "zero"]
                 [] i = "Noc" -> [MCCommand EXCEPT !.stdout = "manifest"]
                 [] OTHER -> MCCommand,
   inputs |-> {"parameters"}, artifacts |-> {"rtl"}, required |-> {"rtl"},
   wellFormed |-> TRUE]
=============================================================================
