----------------------------- MODULE FlowRunner -----------------------------
(***************************************************************************)
(* FlowRunner::runFlow, one flow in one run directory, with the input      *)
(* emitter and the artifact collector its steps call.                      *)
(*                                                                         *)
(* The steps of a flow run in order and the run goes on after a step has   *)
(* failed.  An exec step is a process of the package that may do anything  *)
(* to the artifacts and manifests of the two directories it knows until it *)
(* exits or its deadline passes; the rest is code of the editor.           *)
(***************************************************************************)
EXTENDS Naturals, Sequences, FiniteSets

CONSTANTS
  Artifacts,    \* the files a package may generate
  InputFiles,   \* the files its emitters write
  Places,       \* the directories: run directories and output directories
  MaxCalls      \* bound: calls of generate(); a file remembers its call

ASSUME FlowRunnerAssumption ==
  /\ MaxCalls \in Nat
  /\ Artifacts \cap InputFiles = {}
  /\ {"manifest", "record"} \cap (Artifacts \cup InputFiles) = {}

VARIABLES
  disk,   \* for each directory and name the file there
  flow    \* the locals of the running runFlow()

Inputs == InputFiles \cup {"manifest"}       \* the directory inputs/

Names == Artifacts \cup Inputs \cup {"record"}

(* Of a file: who wrote it, during which call of generate(), which files   *)
(* it lists and whether it is what it should be (a manifest of the right   *)
(* schema, a record of a success).                                         *)
Contents == [by: {"nobody", "emitter", "process", "runner"},
             call: 0 .. MaxCalls, lists: SUBSET Names, good: BOOLEAN]

File(by, call, lists, good) ==
  [by |-> by, call |-> call, lists |-> lists, good |-> good]

Absent == File("nobody", 0, {}, FALSE)

Present(place) == {name \in Names : disk[place][name] # Absent}

(* A package: the kinds of the steps of its flow, the command of its exec  *)
(* steps, the files its emitters declare, the artifacts it declares, those *)
(* of them that are required, and whether every artifact declaration is an *)
(* object with a good glob.                                                *)
StepKinds == {"exec", "emit_inputs", "collect_artifacts",
              "parse_diagnostics", "plugin_hook", "unknown"}

IsPackage(package) ==
  /\ package.steps \in Seq(StepKinds)
  /\ package.inputs \subseteq InputFiles
  /\ package.artifacts \subseteq Artifacts
  /\ package.required \subseteq package.artifacts

NoFlow == [steps |-> <<>>, next |-> 0, process |-> FALSE, failed |-> FALSE,
           emitted |-> Absent, index |-> {}, over |-> FALSE]

FlowStarts(package) == [NoFlow EXCEPT !.steps = package.steps, !.next = 1]

(* The run directory cannot be made, or the package has no such flow.      *)
FlowRefused == [NoFlow EXCEPT !.failed = TRUE, !.over = TRUE]

AtStep(kind) ==
  /\ ~flow.over
  /\ ~flow.process
  /\ flow.next \in DOMAIN flow.steps
  /\ flow.steps[flow.next] = kind

StepDone(failed) ==
  [flow EXCEPT !.next = @ + 1, !.process = FALSE, !.failed = @ \/ failed]

-----------------------------------------------------------------------------
(* The command an exec step declares.  Each name of a choice below stands  *)
(* for the declarations the code treats alike: an executable "inside" the  *)
(* package, a framework tool "inside" a search path, a directory "inside"  *)
(* the run directory.                                                      *)
DeadlineAccepted(command) == command.timeout \in {"default", "allowed"}

CaptureAccepted(command) ==
  /\ command.limit \in {"default", "allowed"}
  /\ command.stdout # command.stderr

ExecutableResolved(command) ==
  IF command.tool = "none"
    THEN command.executable = "inside"
    ELSE command.executable = "none" /\ command.tool = "inside"

CwdResolved(command) == command.cwd \in {"run_dir", "inside"}

EnvironmentAccepted(command) == command.env \in {"none", "list"}

CommandAccepted(command) ==
  /\ command.wellFormed          \* an object of strings, without "native"
  /\ EnvironmentAccepted(command)
  /\ CaptureAccepted(command)
  /\ DeadlineAccepted(command)
  /\ ExecutableResolved(command)
  /\ CwdResolved(command)

RefuseCommand(package) ==
  /\ AtStep("exec")
  /\ ~CommandAccepted(package.command)
  /\ flow' = StepDone(TRUE)
  /\ UNCHANGED disk

(* The executable is not there any more, or it does not start.             *)
StartFails(package) ==
  /\ AtStep("exec")
  /\ CommandAccepted(package.command)
  /\ flow' = StepDone(TRUE)
  /\ UNCHANGED disk

StartProcess(package) ==
  /\ AtStep("exec")
  /\ CommandAccepted(package.command)
  /\ flow' = [flow EXCEPT !.process = TRUE]
  /\ UNCHANGED disk

(* {out} and {run_dir} are what the process is told of.                    *)
Writes(run, out, call) ==
  \/ \E name \in Artifacts :
       disk' \in {[disk EXCEPT ![out][name] = File("process", call, {}, TRUE)],
                  [disk EXCEPT ![out][name] = Absent]}
  \/ \E place \in {run, out}, good \in BOOLEAN :
       disk' = [disk EXCEPT ![place]["manifest"] = File("process", call, {}, good)]
  \/ disk' = [disk EXCEPT ![run]["manifest"] = Absent]

ProcessWrites(run, out, call) ==
  /\ flow.process
  /\ Writes(run, out, call)
  /\ UNCHANGED flow

(* What the process said is kept below the run directory, at any path the  *)
(* command declares: writeBytes() replaces the file that was there, or     *)
(* leaves it and says so.                                                  *)
Captures(package) == {package.command.stdout, package.command.stderr}

Captured(saved, run, call) ==
  [name \in Names |->
     IF name \in saved THEN File("process", call, {}, FALSE) ELSE disk[run][name]]

(* It exits: with status 0 and its output captured, or not.                *)
ProcessExits(package, run, call) ==
  /\ flow.process
  /\ \E saved \in SUBSET Captures(package), failed \in BOOLEAN :
       /\ saved # Captures(package) => failed
       /\ flow' = StepDone(failed)
       /\ disk' = [disk EXCEPT ![run] = Captured(saved, run, call)]

(* Mutant: the runner waits for the process, however long it takes.        *)
NoDeadline(package, run, call) == FALSE /\ UNCHANGED <<disk, flow>>

(* timeout_ms has passed: the process is killed, and its children with it. *)
DeadlinePasses(package, run, call) ==
  /\ flow.process
  /\ flow' = StepDone(TRUE)
  /\ \E saved \in SUBSET Captures(package) :
       disk' = [disk EXCEPT ![run] = Captured(saved, run, call)]

(* emitInputs(): each emitter writes its file or leaves a diagnostic, and  *)
(* the manifest lists the files that were written.                         *)
Emissions(package, call) ==
  {File("emitter", call, written, written = package.inputs) :
     written \in SUBSET package.inputs}

(* emit_inputs: the manifest is itself written, or not.                    *)
EmitInputs(package, run, call) ==
  /\ AtStep("emit_inputs")
  /\ \E manifest \in Emissions(package, call), saved \in BOOLEAN :
       LET after == [name \in Names |->
                       IF name \in manifest.lists
                         THEN File("emitter", call, {}, TRUE)
                         ELSE IF name = "manifest" /\ saved
                                THEN manifest
                                ELSE disk[run][name]]
       IN /\ disk' = [disk EXCEPT ![run] = after]
          /\ flow' = [StepDone(~manifest.good \/ ~saved)
                        EXCEPT !.emitted = manifest]

(* collect(): what is there now; a required artifact that is not there and *)
(* a declaration that is no glob are errors.                               *)
Found(package, out) == package.artifacts \cap Present(out)

CollectFails(package, out) ==
  ~(package.required \subseteq Found(package, out)) \/ ~package.wellFormed

CollectArtifacts(package, out) ==
  /\ AtStep("collect_artifacts")
  /\ flow' = [StepDone(CollectFails(package, out))
                 EXCEPT !.index = Found(package, out)]
  /\ UNCHANGED disk

(* parse_diagnostics, plugin_hook and unknown kinds are diagnostics only.  *)
UnsupportedStep ==
  /\ \E kind \in {"parse_diagnostics", "plugin_hook", "unknown"} : AtStep(kind)
  /\ flow' = StepDone(TRUE)
  /\ UNCHANGED disk

(* Mutant: that the manifest is there is enough.                           *)
ManifestPresent(run) ==
  flow.emitted # Absent => disk[run]["manifest"] # Absent

(* After the last step the manifest must be the one emitted.               *)
ManifestUnchanged(run) ==
  flow.emitted # Absent => disk[run]["manifest"] = flow.emitted

EndFlow(run) ==
  /\ ~flow.over
  /\ flow.next = Len(flow.steps) + 1
  /\ flow' = [flow EXCEPT !.over = TRUE, !.failed = @ \/ ~ManifestUnchanged(run)]
  /\ UNCHANGED disk

-----------------------------------------------------------------------------
(* The steps of the editor's own code, and those of the process.           *)
FlowStep(package, run, out, call) ==
  \/ RefuseCommand(package)
  \/ StartFails(package)
  \/ StartProcess(package)
  \/ EmitInputs(package, run, call)
  \/ CollectArtifacts(package, out)
  \/ UnsupportedStep
  \/ EndFlow(run)

ProcessStep(package, run, out, call) ==
  \/ ProcessWrites(run, out, call)
  \/ ProcessExits(package, run, call)
=============================================================================
