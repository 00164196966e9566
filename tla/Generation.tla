----------------------------- MODULE Generation -----------------------------
(***************************************************************************)
(* ProjectGenerationRunner::generate and what it leaves under the output   *)
(* root: for each instance an output directory with the public copy of its *)
(* inputs, its artifacts and generation-manifest.json (the record), and a  *)
(* run directory below .runs; for the project one snapshot.                *)
(*                                                                         *)
(* generate() may be called again, for another design, and the editor may  *)
(* stop at any point of it; the directories stay, and so may a process of  *)
(* a package, which was started in a session of its own.                   *)
(***************************************************************************)
EXTENDS FlowRunner

CONSTANTS
  Instances,       \* instance ids
  OutputKey(_),    \* the id with its case folded: the name of its directory
  Unusable,        \* ids that are no directory name, or the snapshot's
  Faulty,          \* instances the built-in validation rejects
  Package(_),      \* the package of the instance, as read at the call
  Uncatalogued,    \* instances whose IP core is not in the catalog
  Flowless,        \* instances whose package is unreadable or has no flow
  Designs,         \* the designs generate() may be called with: sequences
  Lasting          \* bound: the processes that may be left at work, by their
                   \* instance and call; the others end with who waits for them

ASSUME GenerationAssumption ==
  /\ Lasting \subseteq Instances \X (1 .. MaxCalls)
  /\ \A instances \in Designs : instances \in Seq(Instances)
  /\ \A i \in Instances : IsPackage(Package(i))
  /\ \A i \in Instances :
       {<<"output", OutputKey(i)>>, <<"run", OutputKey(i)>>} \subseteq Places

VARIABLES
  phase,      \* where in generate() the call is, or "idle"
  calls,      \* how many calls there have been
  design,     \* the instances of the running call, or of the last
  todo,       \* those still to come, the current one first
  failures,   \* result.errors: the instances that failed
  reply,      \* what the last call returned
  snapshot,   \* project-snapshot.fpproj: the call and design it is of
  survivors,  \* processes nobody waits for any more, with their directories
  disturbed   \* history: directories those wrote to after they were cleared

genVars == <<disk, flow, phase, calls, design, todo, failures, reply, snapshot,
             survivors, disturbed>>

Output(i) == <<"output", OutputKey(i)>>
Run(i)    == <<"run", OutputKey(i)>>
Current   == Head(todo)

(* The process of the running step goes on without the runner.             *)
Survivor == [run |-> Run(Current), out |-> Output(Current), call |-> calls]

WithSurvivor ==
  IF <<Current, calls>> \in Lasting THEN survivors \cup {Survivor} ELSE survivors

EmptyDirectory == [name \in Names |-> Absent]

Init ==
  /\ disk = [place \in Places |-> EmptyDirectory]
  /\ flow = NoFlow
  /\ phase = "idle" /\ calls = 0
  /\ design = <<>> /\ todo = <<>> /\ failures = {} /\ reply = "none"
  /\ snapshot = [call |-> 0, design |-> <<>>]
  /\ survivors = {} /\ disturbed = {}

-----------------------------------------------------------------------------
(* Mutant: ids are compared as they are spelled.                           *)
DistinctIds(instances) ==
  \A m, n \in DOMAIN instances : instances[m] = instances[n] => m = n

(* The checks of generate(), before anything is touched.                   *)
DistinctOutputs(instances) ==
  \A m, n \in DOMAIN instances :
    OutputKey(instances[m]) = OutputKey(instances[n]) => m = n

Acceptable(instances) ==
  /\ \A n \in DOMAIN instances : instances[n] \notin Faulty \cup Unusable
  /\ DistinctOutputs(instances)

Starting(instances) ==
  IF instances = <<>> THEN "snapshot" ELSE "clearOutput"

Generate(instances) ==
  /\ phase = "idle"
  /\ calls < MaxCalls
  /\ Acceptable(instances)
  /\ calls' = calls + 1
  /\ phase' = Starting(instances)
  /\ design' = instances
  /\ todo' = instances
  /\ failures' = {}
  /\ reply' = "none"
  /\ UNCHANGED <<disk, flow, snapshot, survivors, disturbed>>

(* Refused by a check, or the output root cannot be made.                  *)
RefuseGenerate(instances) ==
  /\ phase = "idle"
  /\ reply' = "refused"
  /\ UNCHANGED <<disk, flow, phase, calls, design, todo, failures, snapshot,
                 survivors, disturbed>>

(* The current instance is done with, well or not.                         *)
NextInstance(failed) ==
  /\ failures' = IF failed THEN failures \cup {Current} ELSE failures
  /\ todo' = Tail(todo)
  /\ phase' = Starting(Tail(todo))
  /\ flow' = NoFlow
  /\ UNCHANGED <<calls, design, reply, snapshot, survivors>>

(* removeRecursively(): file by file, in any order, and it may fail; the   *)
(* instance is then given up as it is.                                     *)
RemoveFile(inPhase, place) ==
  /\ phase = inPhase
  /\ \E name \in Present(place) : disk' = [disk EXCEPT ![place][name] = Absent]
  /\ UNCHANGED <<flow, phase, calls, design, todo, failures, reply, snapshot,
                 survivors, disturbed>>

RemoveFails(inPhase) ==
  /\ phase = inPhase
  /\ NextInstance(TRUE)
  /\ UNCHANGED <<disk, disturbed>>

(* Mutant: what removeRecursively() answers is not looked at.              *)
AnyDirectory(place) == place \in Places

IsCleared(place) == Present(place) = {}

OutputCleared ==
  /\ phase = "clearOutput"
  /\ IsCleared(Output(Current))
  /\ phase' = "clearRun"
  /\ disturbed' = disturbed \ {Output(Current)}
  /\ UNCHANGED <<disk, flow, calls, design, todo, failures, reply, snapshot,
                 survivors>>

(* writeManifest(): the record of the instance, which may not be writable. *)
Record(success) ==
  File("runner", calls, Artifacts \cap Present(Output(Current)), success)

(* Mutant: the directory of the first instance is still in the variable.   *)
WriteFirstRecord(success, directory) ==
  \E saved \in BOOLEAN :
    /\ disk' = [disk EXCEPT ![Output(design[1])] =
                  IF saved THEN [directory EXCEPT !["record"] = Record(success)]
                           ELSE directory]
    /\ NextInstance(~success \/ ~saved)

WriteRecord(success, directory) ==
  \E saved \in BOOLEAN :
    /\ disk' = [disk EXCEPT ![Output(Current)] =
                  IF saved THEN [directory EXCEPT !["record"] = Record(success)]
                           ELSE directory]
    /\ NextInstance(~success \/ ~saved)

(* The run directory is clear as well: an instance without an entry in the *)
(* catalog ends here without a record, one without a flow with one.        *)
RunCleared ==
  /\ phase = "clearRun"
  /\ IsCleared(Run(Current))
  /\ disturbed' = disturbed \ {Run(Current)}
  /\ IF Current \in Uncatalogued
       THEN NextInstance(TRUE) /\ UNCHANGED disk
       ELSE IF Current \in Flowless
         THEN WriteRecord(FALSE, disk[Output(Current)])
         ELSE /\ flow' \in {FlowStarts(Package(Current)), FlowRefused}
              /\ phase' = "flow"
              /\ UNCHANGED <<disk, calls, design, todo, failures, reply, snapshot,
                             survivors>>

FlowSteps ==
  /\ phase = "flow"
  /\ FlowStep(Package(Current), Run(Current), Output(Current), calls)
  /\ UNCHANGED <<phase, calls, design, todo, failures, reply, snapshot,
                 survivors, disturbed>>

(* A process that exits may leave children at work.                        *)
ProcessSteps ==
  /\ phase = "flow"
  /\ ProcessStep(Package(Current), Run(Current), Output(Current), calls)
  /\ \/ UNCHANGED survivors
     \/ ~flow'.process /\ survivors' = WithSurvivor
  /\ UNCHANGED <<phase, calls, design, todo, failures, reply, snapshot, disturbed>>

DeadlineOfStep ==
  /\ phase = "flow"
  /\ DeadlinePasses(Package(Current), Run(Current), calls)
  /\ UNCHANGED <<phase, calls, design, todo, failures, reply, snapshot,
                 survivors, disturbed>>

(* What nobody waits for goes on writing, whatever generate() is at.       *)
SurvivorWrites(s) ==
  /\ Writes(s.run, s.out, s.call)
  /\ disturbed' = disturbed \cup {s.run, s.out}
  /\ UNCHANGED <<flow, phase, calls, design, todo, failures, reply, snapshot, survivors>>

(* materializeEmittedInputs(): inputs/ of the run replaces the public      *)
(* copy, unless the run has none; a copy that fails leaves some of it.     *)
RunHasInputs ==
  flow.emitted # Absent \/ Inputs \cap Present(Run(Current)) # {}

Copied(names) ==
  [name \in Names |->
     IF name \in Inputs
       THEN IF name \in names THEN disk[Run(Current)][name] ELSE Absent
       ELSE disk[Output(Current)][name]]

Materialized ==
  {<<RunHasInputs => "manifest" \in Present(Run(Current)),
     IF RunHasInputs /\ "manifest" \in Present(Run(Current))
       THEN Copied(Inputs) ELSE disk[Output(Current)]>>}
  \cup {<<FALSE, disk[Output(Current)]>>}
  \cup {<<FALSE, Copied(names)>> :
          names \in IF RunHasInputs /\ "manifest" \in Present(Run(Current))
                      THEN SUBSET (Inputs \cap Present(Run(Current))) ELSE {}}

(* The public manifest must be there and have the schema of a manifest.    *)
ValidInputs(directory) ==
  \/ directory["manifest"].by = "emitter"
  \/ directory["manifest"].by = "process" /\ directory["manifest"].good

FinishInstance ==
  /\ phase = "flow"
  /\ flow.over
  /\ \E copy \in Materialized :
       WriteRecord(~flow.failed /\ copy[1] /\ ValidInputs(copy[2]), copy[2])
  /\ UNCHANGED disturbed

(* When every instance has been tried, the snapshot and the answer.        *)
FinishGenerate ==
  /\ phase = "snapshot"
  /\ \E saved \in BOOLEAN :
       /\ snapshot' = IF saved THEN [call |-> calls, design |-> design] ELSE snapshot
       /\ reply' = IF saved /\ failures = {} THEN "ok" ELSE "failed"
  /\ phase' = "idle"
  /\ UNCHANGED <<disk, flow, calls, design, todo, failures, survivors, disturbed>>

(* The editor is gone.  The directories stay, and the process it started   *)
(* has a session of its own and goes on; nobody looks at its deadline.     *)
Crash ==
  /\ phase # "idle"
  /\ phase' = "idle" /\ todo' = <<>> /\ flow' = NoFlow /\ reply' = "none"
  /\ survivors' = IF flow.process THEN WithSurvivor ELSE survivors
  /\ UNCHANGED <<disk, calls, design, failures, snapshot, disturbed>>

-----------------------------------------------------------------------------
Clearing ==
  \/ RemoveFile("clearOutput", Output(Current))
  \/ RemoveFile("clearRun", Run(Current))

ClearingEnds ==
  \/ \E where \in {"clearOutput", "clearRun"} : RemoveFails(where)
  \/ OutputCleared
  \/ RunCleared

RunnerStep ==
  \/ Clearing
  \/ ClearingEnds
  \/ FlowSteps
  \/ FinishInstance
  \/ FinishGenerate

Next ==
  \/ \E instances \in Designs : Generate(instances) \/ RefuseGenerate(instances)
  \/ RunnerStep
  \/ ProcessSteps
  \/ DeadlineOfStep
  \/ \E s \in survivors : SurvivorWrites(s)
  \/ Crash

(* The code runs on, removeRecursively() goes over a directory once, even  *)
(* while others fill it, and time passes; no process is assumed to end.    *)
Spec ==
  /\ Init /\ [][Next]_genVars
  /\ WF_genVars(RunnerStep)
  /\ WF_genVars(ClearingEnds)
  /\ WF_genVars(DeadlineOfStep)

-----------------------------------------------------------------------------
(* What a record lists was made by the call the record is of, or is gone:  *)
(* whatever failed, and however often the editor died while the directory  *)
(* was cleared or filled, no file of another call passes for its output.   *)
(* The one exception is a directory that a process which outlived its call *)
(* has written to since it was cleared.                                    *)
RecordsAreFresh ==
  \A i \in Instances :
    LET record == disk[Output(i)]["record"]
    IN record # Absent /\ Output(i) \notin disturbed =>
         \A name \in Present(Output(i)) \ Inputs :
           disk[Output(i)][name].call = record.call

(* "manifest should not report stale artifacts from previous runs": when a *)
(* record is written, each file it lists is of the call it is written by.  *)
(* A process that outlived the editor of an earlier call breaks this.      *)
StaleIsNotReported ==
  [][\A i \in Instances :
       LET record == disk'[Output(i)]["record"]
       IN record # disk[Output(i)]["record"] =>
            \A name \in record.lists : disk'[Output(i)][name].call = record.call]_genVars

(* When generate() reports success, each instance has in its own directory *)
(* the record of a success of this very call, the artifacts its package    *)
(* requires if its flow collects them after its last process and nothing   *)
(* the flow left behind wrote there later, and a snapshot of this design   *)
(* lies beside them.                                                       *)
CollectsLast(i) ==
  \E n \in DOMAIN Package(i).steps :
    /\ Package(i).steps[n] = "collect_artifacts"
    /\ \A m \in DOMAIN Package(i).steps : Package(i).steps[m] = "exec" => m < n

Delivered(i) ==
  LET record == disk[Output(i)]["record"]
  IN /\ record.by = "runner" /\ record.call = calls /\ record.good
     /\ CollectsLast(i) /\ Output(i) \notin disturbed =>
          \A name \in Package(i).required :
            name \in record.lists /\ disk[Output(i)][name].call = calls

SuccessIsDelivered ==
  reply = "ok" =>
    /\ \A n \in DOMAIN design : Delivered(design[n])
    /\ \A m, n \in DOMAIN design :
         Output(design[m]) = Output(design[n]) => m = n
    /\ snapshot = [call |-> calls, design |-> design]

(* The public manifest beside the record of a success is the one its flow  *)
(* emitted, of the same call and without diagnostics, although a process   *)
(* of the package, or its captured output, could be written over it while  *)
(* the flow ran; a flow that emits nothing must bring its own.             *)
Emits(i) == \E n \in DOMAIN Package(i).steps : Package(i).steps[n] = "emit_inputs"

Undisturbed(i) == disturbed \cap {Output(i), Run(i)} = {}

InputsAreEmitted ==
  \A n \in DOMAIN design :
    LET record == disk[Output(design[n])]["record"]
        manifest == disk[Output(design[n])]["manifest"]
    IN record.call = calls /\ record.good /\ Undisturbed(design[n]) =>
         /\ manifest.call = record.call /\ manifest.good
         /\ Emits(design[n]) => manifest.by = "emitter"

(* Generating one instance leaves the directories of the others alone; who *)
(* else writes is a process left behind, in its own two directories.       *)
OnlyOwnDirectories ==
  [][\A place \in Places :
       disk'[place] # disk[place] =>
         \/ todo # <<>> /\ place \in {Output(Current), Run(Current)}
         \/ \E s \in survivors : SurvivorWrites(s) /\ place \in {s.out, s.run}]_genVars

(* Every call comes back, whatever the packages' processes do, because     *)
(* each of them has a deadline.                                            *)
EveryGenerationReturns == (phase # "idle") ~> (phase = "idle")
=============================================================================
