-------------------------- MODULE GenerationProofs --------------------------
(***************************************************************************)
(* What holds of Generation for every set of instances, packages and       *)
(* designs and any number of calls, crashes and processes left at work.    *)
(***************************************************************************)
EXTENDS Generation, SequenceTheorems, TLAPS

Flows ==
  [steps: Seq(StepKinds), next: Nat, process: BOOLEAN, failed: BOOLEAN,
   emitted: Contents, index: SUBSET Names, over: BOOLEAN]

TypeInv ==
  /\ disk \in [Places -> [Names -> Contents]]
  /\ flow \in Flows
  /\ phase \in {"idle", "clearOutput", "clearRun", "flow", "snapshot"}
  /\ calls \in 0 .. MaxCalls
  /\ design \in Seq(Instances) /\ todo \in Seq(Instances)

(* No file is of a call to come.                                           *)
FilesOfCalls ==
  \A place \in Places, name \in Names : disk[place][name].call <= calls

(* A process left at work is one of an instance and of a call there was.   *)
SurvivorsKnown ==
  \A s \in survivors :
    /\ s.call \in 0 .. calls
    /\ \E i \in Instances : s.out = Output(i) /\ s.run = Run(i)

(* During a call: what is still to do is the end of the design, and each   *)
(* instance of it has a directory of its own.                              *)
Tried == Len(design) - Len(todo)

InCall ==
  phase # "idle" =>
    /\ calls > 0 /\ reply = "none"
    /\ DistinctOutputs(design)
    /\ Len(todo) <= Len(design)
    /\ \A m \in DOMAIN todo : todo[m] = design[Tried + m]
    /\ phase = "snapshot" <=> todo = <<>>

(* A process is waited for only while a flow runs.                         *)
ProcessInFlow == flow.process => phase = "flow"

Working == phase \in {"clearOutput", "clearRun", "flow"}

(* What the directories of an instance hold while its flow runs, except    *)
(* for what others write.                                                  *)
FilesOfFlow(i) ==
  /\ \A place \in {Output(i), Run(i)} \ disturbed, name \in Names :
       disk[place][name] # Absent => disk[place][name].call = calls
  /\ disk[Output(i)]["record"] = Absent
  /\ disk[Output(i)]["manifest"].by # "emitter"
  /\ flow.emitted = Absent => disk[Run(i)]["manifest"].by # "emitter"

(* How far the flow is, and what the steps behind it have left.            *)
Progress(i) ==
  /\ flow.steps = Package(i).steps \/ (flow.failed /\ flow.over)
  /\ flow.process => /\ ~flow.over
                     /\ flow.next \in DOMAIN flow.steps
                     /\ flow.steps[flow.next] = "exec"
  /\ flow.over /\ ~flow.failed => flow.next = Len(flow.steps) + 1

ManifestEmitted(i) ==
  /\ flow.emitted # Absent =>
       /\ flow.emitted.by = "emitter" /\ flow.emitted.call = calls
       /\ ~flow.failed => flow.emitted.good
       /\ flow.over /\ ~flow.failed /\ Run(i) \notin disturbed =>
            disk[Run(i)]["manifest"] = flow.emitted
  /\ \A n \in DOMAIN flow.steps :
       n < flow.next /\ flow.steps[n] = "emit_inputs" => flow.emitted # Absent

LastCollection(n) ==
  /\ flow.steps[n] = "collect_artifacts"
  /\ \A m \in DOMAIN flow.steps : flow.steps[m] = "exec" => m < n

Collected(i) ==
  ~flow.failed /\ Output(i) \notin disturbed =>
    \A n \in DOMAIN flow.steps :
      n < flow.next /\ LastCollection(n) => Package(i).required \subseteq Present(Output(i))

FlowState(i) ==
  /\ FilesOfFlow(i) /\ Progress(i) /\ ManifestEmitted(i) /\ Collected(i)

InFlow == phase = "flow" => FlowState(Current)

OutputEmpty ==
  phase = "clearRun" =>
    /\ disk[Output(Current)]["record"] = Absent
    /\ disk[Output(Current)]["manifest"].by # "emitter"
    /\ Output(Current) \notin disturbed => Present(Output(Current)) = {}

(* What of the design has been delivered, and what lies where an instance  *)
(* is still to come.                                                       *)
DeliveredInv ==
  phase # "idle" =>
    \A n \in 1 .. Tried : design[n] \notin failures => Delivered(design[n])

PendingInv ==
  phase # "idle" => \A m \in DOMAIN todo : disk[Output(todo[m])]["record"].call # calls

Inv ==
  /\ TypeInv /\ FilesOfCalls /\ SurvivorsKnown /\ InCall /\ ProcessInFlow /\ OutputEmpty /\ InFlow
  /\ DeliveredInv /\ PendingInv
  /\ RecordsAreFresh /\ InputsAreEmitted /\ SuccessIsDelivered

-----------------------------------------------------------------------------
(* Files: what is absent has been written by nobody.                       *)
LEMMA Files ==
  /\ Absent \in Contents
  /\ Absent.by = "nobody" /\ Absent.call = 0 /\ Absent.good = FALSE /\ Absent.lists = {}
  /\ \A by \in {"emitter", "process", "runner"}, lists \in SUBSET Names, good \in BOOLEAN :
       \A call \in 0 .. MaxCalls :
         /\ File(by, call, lists, good) \in Contents
         /\ File(by, call, lists, good) # Absent
         /\ File(by, call, lists, good).by = by
         /\ File(by, call, lists, good).call = call
         /\ File(by, call, lists, good).lists = lists
         /\ File(by, call, lists, good).good = good
BY FlowRunnerAssumption DEF Absent, File, Contents

LEMMA PlainFiles ==
  ASSUME NEW call \in 0 .. MaxCalls
  PROVE  /\ File("process", call, {}, FALSE) \in Contents
         /\ File("process", call, {}, FALSE).by = "process"
         /\ File("process", call, {}, FALSE).call = call
         /\ File("emitter", call, {}, TRUE) \in Contents
         /\ File("emitter", call, {}, TRUE).by = "emitter"
         /\ File("emitter", call, {}, TRUE).call = call
BY DEF File, Contents

(* The names, and which of them are of the copy of the inputs.             *)
LEMMA NamesApart ==
  /\ Names = Artifacts \cup Inputs \cup {"record"}
  /\ "manifest" \in Inputs /\ "record" \notin Inputs /\ "record" \notin Artifacts
  /\ "manifest" \notin Artifacts /\ Artifacts \cap Inputs = {}
BY FlowRunnerAssumption DEF Names, Inputs

(* An instance has two directories, never the other kind of another's.     *)
LEMMA TwoDirectories ==
  ASSUME NEW i \in Instances
  PROVE  /\ Output(i) \in Places /\ Run(i) \in Places
         /\ \A j : Output(i) # Run(j)
         /\ IsPackage(Package(i))
BY GenerationAssumption DEF Output, Run

(* While an instance is worked on it is the first of those to do.          *)
LEMMA AtWork ==
  ASSUME TypeInv, InCall, Working
  PROVE  /\ todo # <<>> /\ Len(todo) \in Nat \ {0} /\ Len(design) \in Nat
         /\ Current \in Instances /\ Current = todo[1] /\ 1 \in DOMAIN todo
         /\ Tail(todo) \in Seq(Instances) /\ Len(Tail(todo)) = Len(todo) - 1
         /\ \A m \in DOMAIN Tail(todo) : m + 1 \in DOMAIN todo /\ Tail(todo)[m] = todo[m + 1]
         /\ Output(Current) \in Places /\ Run(Current) \in Places
         /\ Output(Current) # Run(Current)
<1>1. todo # <<>> /\ todo \in Seq(Instances) /\ design \in Seq(Instances)
  BY DEF Working, InCall, TypeInv
<1>2. /\ Head(todo) \in Instances /\ Tail(todo) \in Seq(Instances)
      /\ Len(Tail(todo)) = Len(todo) - 1 /\ Len(todo) \in Nat \ {0} /\ Len(design) \in Nat
      /\ \A m \in 1 .. Len(Tail(todo)) : Tail(todo)[m] = todo[m + 1]
  BY <1>1, HeadTailProperties, EmptySeq, LenProperties
<1>3. DOMAIN todo = 1 .. Len(todo) /\ DOMAIN Tail(todo) = 1 .. Len(Tail(todo)) /\ Head(todo) = todo[1]
  BY <1>1, <1>2, LenProperties
<1>4. \A m \in DOMAIN Tail(todo) : m + 1 \in DOMAIN todo /\ Tail(todo)[m] = todo[m + 1]
  BY <1>2, <1>3
<1>5. 1 \in DOMAIN todo
  BY <1>2, <1>3
<1> QED BY <1>1, <1>2, <1>3, <1>4, <1>5, TwoDirectories DEF Current

(* A step of a flow, whoever takes it: it stays within its directories.    *)
StepOfFlow(i) ==
  \/ FlowStep(Package(i), Run(i), Output(i), calls)
  \/ ProcessStep(Package(i), Run(i), Output(i), calls)
  \/ DeadlinePasses(Package(i), Run(i), calls)

LEMMA StepDoneTyped ==
  ASSUME flow \in Flows, NEW failed \in BOOLEAN
  PROVE  /\ StepDone(failed) \in Flows
         /\ StepDone(failed).steps = flow.steps
         /\ StepDone(failed).next = flow.next + 1
         /\ StepDone(failed).process = FALSE
         /\ StepDone(failed).failed = (flow.failed \/ failed)
         /\ StepDone(failed).emitted = flow.emitted
         /\ StepDone(failed).over = flow.over
<1> DEFINE b == flow.failed \/ failed
           g1 == [flow EXCEPT !.next = flow.next + 1]
           g2 == [g1 EXCEPT !.process = FALSE]
           g3 == [g2 EXCEPT !.failed = b]
<1>1. b \in BOOLEAN
  OBVIOUS
<1>2. StepDone(failed) = g3
  BY Zenon DEF StepDone
<1> HIDE DEF b
<1>3. /\ g1 \in Flows /\ g1.steps = flow.steps /\ g1.next = flow.next + 1
      /\ g1.emitted = flow.emitted /\ g1.over = flow.over
  BY DEF Flows
<1> HIDE DEF g1
<1>4. /\ g2 \in Flows /\ g2.steps = g1.steps /\ g2.next = g1.next /\ g2.process = FALSE
      /\ g2.emitted = g1.emitted /\ g2.over = g1.over
  BY <1>3 DEF Flows
<1> HIDE DEF g2
<1>5. /\ g3 \in Flows /\ g3.steps = g2.steps /\ g3.next = g2.next /\ g3.process = g2.process
      /\ g3.failed = b /\ g3.emitted = g2.emitted /\ g3.over = g2.over
  BY <1>1, <1>4 DEF Flows
<1> HIDE DEF g3
<1> QED BY <1>2, <1>3, <1>4, <1>5 DEF b

(* The steps of a flow that only fail: nothing is written.                 *)
LEMMA FailingStep ==
  ASSUME TypeInv, NEW i \in Instances, FlowState(i), calls' = calls, disturbed' = disturbed,
         ~flow.over, ~flow.process, flow.next \in DOMAIN flow.steps,
         flow.steps[flow.next] # "emit_inputs",
         flow' = StepDone(TRUE), disk' = disk
  PROVE  flow' \in Flows /\ FlowState(i)'
<1>1. /\ flow' \in Flows /\ flow'.steps = flow.steps /\ flow'.next = flow.next + 1
      /\ flow'.process = FALSE /\ flow'.failed = TRUE
      /\ flow'.emitted = flow.emitted /\ flow'.over = FALSE
  <2>1. flow \in Flows /\ flow.over \in BOOLEAN
    BY DEF TypeInv, Flows
  <2> QED BY <2>1, StepDoneTyped
<1>2. FilesOfFlow(i)'
  BY <1>1 DEF FlowState, FilesOfFlow
<1>3. Progress(i)'
  BY <1>1 DEF FlowState, Progress
<1>4. ManifestEmitted(i)'
  <2>1. \A n \in DOMAIN flow.steps : n < flow.next + 1 => n < flow.next \/ n = flow.next
    BY DEF TypeInv, Flows
  <2> QED BY <1>1, <2>1 DEF FlowState, ManifestEmitted
<1>5. Collected(i)'
  BY <1>1 DEF Collected
<1> QED BY <1>1, <1>2, <1>3, <1>4, <1>5 DEF FlowState

(* A process starts.                                                       *)
LEMMA StartingStep ==
  ASSUME TypeInv, NEW i \in Instances, FlowState(i), calls' = calls, disturbed' = disturbed,
         StartProcess(Package(i))
  PROVE  flow' \in Flows /\ FlowState(i)' /\ disk' = disk
<1>1. /\ flow' = [flow EXCEPT !.process = TRUE] /\ disk' = disk
      /\ ~flow.over /\ flow.next \in DOMAIN flow.steps /\ flow.steps[flow.next] = "exec"
  BY DEF StartProcess, AtStep
<1>2. /\ flow' \in Flows /\ flow'.steps = flow.steps /\ flow'.next = flow.next
      /\ flow'.failed = flow.failed /\ flow'.emitted = flow.emitted /\ flow'.over = flow.over
  BY <1>1 DEF TypeInv, Flows
<1>3. FilesOfFlow(i)' /\ Progress(i)'
  BY <1>1, <1>2 DEF FlowState, FilesOfFlow, Progress
<1>4. ManifestEmitted(i)'
  BY <1>1, <1>2 DEF FlowState, ManifestEmitted
<1>5. Collected(i)'
  BY <1>1, <1>2 DEF FlowState, Collected, LastCollection, Present
<1> QED BY <1>1, <1>2, <1>3, <1>4, <1>5 DEF FlowState

(* While a process runs no collection is behind that is the last one.      *)
LEMMA NothingCollected ==
  ASSUME TypeInv, NEW i \in Instances, FlowState(i), flow.process,
         NEW n \in DOMAIN flow.steps, LastCollection(n)
  PROVE  ~(n < flow.next + 1)
<1>1. n \in Nat /\ flow.next \in Nat
  <2>1. flow.steps \in Seq(StepKinds) /\ flow.next \in Nat
    BY DEF TypeInv, Flows
  <2>2. DOMAIN flow.steps = 1 .. Len(flow.steps) /\ Len(flow.steps) \in Nat
    BY <2>1, LenProperties
  <2> QED BY <2>1, <2>2
<1>2. flow.next \in DOMAIN flow.steps /\ flow.steps[flow.next] = "exec"
  BY DEF FlowState, Progress
<1>3. flow.next < n
  BY <1>2 DEF LastCollection
<1> QED BY <1>1, <1>3

(* What a process writes, the runner's or one left at work: one artifact   *)
(* or manifest.                                                            *)
ProcessFile(file, call) ==
  file = Absent \/ (file.by = "process" /\ file.call = call /\ file # Absent)

LEMMA OneFileWritten ==
  ASSUME TypeInv, NEW run \in Places, NEW out \in Places, NEW call \in 0 .. MaxCalls,
         run # out, Writes(run, out, call)
  PROVE  \E place \in {out, run}, name \in Names, file \in Contents :
           /\ disk' = [disk EXCEPT ![place][name] = file]
           /\ ProcessFile(file, call)
           /\ name # "record" /\ (place = run => name = "manifest")
<1>f. \A good \in BOOLEAN : File("process", call, {}, good) \in Contents
                            /\ ProcessFile(File("process", call, {}, good), call)
  <2>1. {} \in SUBSET Names
    OBVIOUS
  <2> QED BY <2>1, Files DEF ProcessFile
<1>a. Absent \in Contents /\ ProcessFile(Absent, call)
  BY Files DEF ProcessFile
<1>n. "manifest" \in Names /\ Artifacts \subseteq Names /\ "record" \notin Artifacts
  BY NamesApart
<1>1. CASE \E name \in Artifacts :
             disk' \in {[disk EXCEPT ![out][name] = File("process", call, {}, TRUE)],
                        [disk EXCEPT ![out][name] = Absent]}
  BY <1>1, <1>n, <1>f, <1>a
<1>2. CASE \E place \in {run, out}, good \in BOOLEAN :
             disk' = [disk EXCEPT ![place]["manifest"] = File("process", call, {}, good)]
  BY <1>2, <1>n, <1>f
<1>3. CASE disk' = [disk EXCEPT ![run]["manifest"] = Absent]
  BY <1>3, <1>n, <1>a
<1> QED BY <1>1, <1>2, <1>3 DEF Writes

(* The process of the running step writes.                                 *)
LEMMA WritingStep ==
  ASSUME TypeInv, NEW i \in Instances, FlowState(i), calls' = calls, disturbed' = disturbed,
         ProcessWrites(Run(i), Output(i), calls)
  PROVE  /\ flow' = flow /\ FlowState(i)'
         /\ disk' \in [Places -> [Names -> Contents]]
         /\ \A place \in Places \ {Output(i), Run(i)} : disk'[place] = disk[place]
         /\ \A place \in Places, name \in Names :
              \/ disk'[place][name] \in {disk[place][name], Absent}
              \/ disk'[place][name].call = calls
<1>0. flow' = flow /\ flow.process /\ Writes(Run(i), Output(i), calls)
  BY DEF ProcessWrites
<1>d. /\ Output(i) \in Places /\ Run(i) \in Places /\ Output(i) # Run(i)
      /\ disk \in [Places -> [Names -> Contents]] /\ calls \in 0 .. MaxCalls
  BY TwoDirectories DEF TypeInv
<1>1. PICK place \in {Output(i), Run(i)}, name \in Names, file \in Contents :
        /\ disk' = [disk EXCEPT ![place][name] = file]
        /\ ProcessFile(file, calls)
        /\ name # "record" /\ (place = Run(i) => name = "manifest")
  BY <1>0, <1>d, OneFileWritten
<1>2. /\ disk' \in [Places -> [Names -> Contents]]
      /\ \A p \in Places \ {place} : disk'[p] = disk[p]
      /\ \A m \in Names : disk'[place][m] = IF m = name THEN file ELSE disk[place][m]
  BY <1>1, <1>d
<1>3. FilesOfFlow(i)'
  <2>1. file.by # "emitter" /\ (file # Absent => file.call = calls)
    BY <1>1, Files DEF ProcessFile
  <2>2. "manifest" \in Names /\ "record" \in Names
    BY NamesApart
  <2> QED BY <1>0, <1>1, <1>2, <1>d, <2>1, <2>2 DEF FlowState, FilesOfFlow
<1>4. Progress(i)'
  BY <1>0 DEF FlowState, Progress
<1>5. ManifestEmitted(i)'
  <2>1. ~flow.over
    BY <1>0 DEF FlowState, Progress
  <2> QED BY <1>0, <2>1 DEF FlowState, ManifestEmitted
<1>6. Collected(i)'
  <2>1. \A n \in DOMAIN flow.steps : n < flow.next => n < flow.next + 1
    <3>1. flow.steps \in Seq(StepKinds) /\ flow.next \in Nat
      BY DEF TypeInv, Flows
    <3> QED BY <3>1, LenProperties
  <2> QED BY <1>0, <2>1, NothingCollected DEF Collected, LastCollection
<1>7. \A p \in Places, m \in Names :
        disk'[p][m] \in {disk[p][m], Absent} \/ disk'[p][m].call = calls
  BY <1>1, <1>2, <1>d DEF ProcessFile
<1> QED BY <1>0, <1>1, <1>2, <1>3, <1>4, <1>5, <1>6, <1>7 DEF FlowState

(* A process ends, by itself or at its deadline, and what it said is kept. *)
LEMMA EndingStep ==
  ASSUME TypeInv, NEW i \in Instances, FlowState(i), calls' = calls, disturbed' = disturbed,
         NEW failed \in BOOLEAN, flow.process, flow' = StepDone(failed),
         NEW saved, disk' = [disk EXCEPT ![Run(i)] = Captured(saved, Run(i), calls)]
  PROVE  /\ flow' \in Flows /\ FlowState(i)'
         /\ disk' \in [Places -> [Names -> Contents]]
         /\ \A place \in Places \ {Output(i), Run(i)} : disk'[place] = disk[place]
         /\ \A place \in Places, name \in Names :
              \/ disk'[place][name] \in {disk[place][name], Absent}
              \/ disk'[place][name].call = calls
<1>d. /\ Output(i) \in Places /\ Run(i) \in Places /\ Output(i) # Run(i)
      /\ disk \in [Places -> [Names -> Contents]] /\ calls \in 0 .. MaxCalls
  BY TwoDirectories DEF TypeInv
<1>p. ~flow.over /\ flow.next \in DOMAIN flow.steps /\ flow.steps[flow.next] = "exec"
  BY DEF FlowState, Progress
<1>1. /\ flow' \in Flows /\ flow'.steps = flow.steps /\ flow'.next = flow.next + 1
      /\ flow'.process = FALSE /\ flow'.failed = (flow.failed \/ failed)
      /\ flow'.emitted = flow.emitted /\ flow'.over = flow.over
  BY StepDoneTyped DEF TypeInv
<1> DEFINE said == File("process", calls, {}, FALSE)
           after == [name \in Names |-> IF name \in saved THEN said ELSE disk[Run(i)][name]]
<1>2. said \in Contents /\ said.by = "process" /\ said.call = calls
  BY <1>d, PlainFiles
<1>3. disk' = [disk EXCEPT ![Run(i)] = after]
  BY DEF Captured
<1> HIDE DEF said
<1>4. /\ disk' \in [Places -> [Names -> Contents]]
      /\ \A place \in Places \ {Run(i)} : disk'[place] = disk[place]
      /\ \A name \in Names : disk'[Run(i)][name] \in {said, disk[Run(i)][name]}
  BY <1>2, <1>3, <1>d
<1>5. FilesOfFlow(i)'
  <2>1. "manifest" \in Names
    BY NamesApart
  <2> QED BY <1>1, <1>2, <1>4, <1>d, <2>1 DEF FlowState, FilesOfFlow
<1>6. Progress(i)'
  BY <1>1, <1>p DEF FlowState, Progress
<1>7. ManifestEmitted(i)'
  <2>1. \A n \in DOMAIN flow.steps : n < flow.next + 1 => n < flow.next \/ n = flow.next
    BY DEF TypeInv, Flows
  <2>2. flow.failed \in BOOLEAN
    BY DEF TypeInv, Flows
  <2> QED BY <1>1, <1>p, <2>1, <2>2 DEF FlowState, ManifestEmitted
<1>8. Collected(i)'
  BY <1>1, NothingCollected DEF Collected, LastCollection
<1>9. \A place \in Places, name \in Names :
        disk'[place][name] = disk[place][name] \/ disk'[place][name].call = calls
  BY <1>2, <1>4, <1>d
<1> QED BY <1>1, <1>4, <1>5, <1>6, <1>7, <1>8, <1>9 DEF FlowState

(* The emitters write the inputs, and the manifest that lists them.        *)
LEMMA EmittingStep ==
  ASSUME TypeInv, NEW i \in Instances, FlowState(i), calls' = calls, disturbed' = disturbed,
         EmitInputs(Package(i), Run(i), calls)
  PROVE  /\ flow' \in Flows /\ FlowState(i)'
         /\ disk' \in [Places -> [Names -> Contents]]
         /\ \A place \in Places \ {Output(i), Run(i)} : disk'[place] = disk[place]
         /\ \A place \in Places, name \in Names :
              \/ disk'[place][name] \in {disk[place][name], Absent}
              \/ disk'[place][name].call = calls
<1>d. /\ Output(i) \in Places /\ Run(i) \in Places /\ Output(i) # Run(i)
      /\ disk \in [Places -> [Names -> Contents]] /\ calls \in 0 .. MaxCalls
      /\ Package(i).inputs \subseteq Names
  BY TwoDirectories, NamesApart DEF TypeInv, IsPackage, Inputs
<1>p. /\ ~flow.over /\ flow.next \in DOMAIN flow.steps
      /\ flow.steps[flow.next] = "emit_inputs" /\ ~flow.process
  BY DEF EmitInputs, AtStep
<1> DEFINE input == File("emitter", calls, {}, TRUE)
           After(manifest, saved) ==
             [name \in Names |-> IF name \in manifest.lists THEN input
                                 ELSE IF name = "manifest" /\ saved THEN manifest
                                 ELSE disk[Run(i)][name]]
<1>1. PICK manifest \in Emissions(Package(i), calls), saved \in BOOLEAN :
        /\ disk' = [disk EXCEPT ![Run(i)] = After(manifest, saved)]
        /\ flow' = [StepDone(~manifest.good \/ ~saved) EXCEPT !.emitted = manifest]
  BY DEF EmitInputs
<1>2. PICK written \in SUBSET Package(i).inputs :
        manifest = File("emitter", calls, written, written = Package(i).inputs)
  BY <1>1 DEF Emissions
<1>3. /\ manifest \in Contents /\ manifest # Absent /\ manifest.good \in BOOLEAN
      /\ manifest.by = "emitter" /\ manifest.call = calls /\ manifest.lists = written
      /\ input \in Contents /\ input.call = calls
  <2>1. written \in SUBSET Names
    BY <1>d
  <2> DEFINE all == written = Package(i).inputs
  <2>2. all \in BOOLEAN
    OBVIOUS
  <2> HIDE DEF all
  <2>3. manifest = File("emitter", calls, written, all)
    BY <1>2 DEF all
  <2> HIDE DEF input
  <2>4. input \in Contents /\ input.call = calls
    BY <1>d, PlainFiles DEF input
  <2>5. /\ manifest \in Contents /\ manifest # Absent /\ manifest.good = all
        /\ manifest.by = "emitter" /\ manifest.call = calls /\ manifest.lists = written
    BY <1>d, <2>1, <2>2, <2>3, Files
  <2> QED BY <2>2, <2>4, <2>5
<1> HIDE DEF input
<1>4. /\ disk' \in [Places -> [Names -> Contents]]
      /\ \A place \in Places \ {Run(i)} : disk'[place] = disk[place]
      /\ \A name \in Names : disk'[Run(i)][name] \in {input, manifest, disk[Run(i)][name]}
  BY <1>1, <1>3, <1>d
<1>5. /\ flow' \in Flows /\ flow'.steps = flow.steps /\ flow'.next = flow.next + 1
      /\ flow'.process = FALSE /\ flow'.emitted = manifest /\ flow'.over = flow.over
      /\ ~flow'.failed => ~flow.failed /\ manifest.good
  <2> DEFINE b == ~manifest.good \/ ~saved
             g == StepDone(b)
  <2>1. b \in BOOLEAN
    OBVIOUS
  <2>2. flow' = [g EXCEPT !.emitted = manifest]
    BY <1>1
  <2> HIDE DEF b
  <2>3. /\ g \in Flows /\ g.steps = flow.steps /\ g.next = flow.next + 1
        /\ g.process = FALSE /\ g.failed = (flow.failed \/ b) /\ g.over = flow.over
    BY <2>1, StepDoneTyped DEF TypeInv
  <2> HIDE DEF g
  <2>4. /\ flow' \in Flows /\ flow'.steps = g.steps /\ flow'.next = g.next
        /\ flow'.process = g.process /\ flow'.emitted = manifest /\ flow'.over = g.over
        /\ flow'.failed = g.failed
    BY <2>2, <2>3, <1>3 DEF Flows
  <2>5. ~(flow.failed \/ b) => ~flow.failed /\ manifest.good
    BY DEF b
  <2> QED BY <2>3, <2>4, <2>5
<1>6. FilesOfFlow(i)'
  BY <1>3, <1>4, <1>5, <1>d DEF FlowState, FilesOfFlow
<1>7. Progress(i)'
  BY <1>5, <1>p DEF FlowState, Progress
<1>8. ManifestEmitted(i)'
  BY <1>3, <1>5, <1>p DEF FlowState, ManifestEmitted
<1>9. Collected(i)'
  <2>1. \A n \in DOMAIN flow.steps :
          n < flow.next + 1 /\ flow.steps[n] = "collect_artifacts" => n < flow.next
    BY <1>p DEF TypeInv, Flows
  <2>2. disk'[Output(i)] = disk[Output(i)]
    BY <1>4, <1>d
  <2> QED BY <1>5, <2>1, <2>2 DEF FlowState, Collected, LastCollection, Present
<1>10. \A place \in Places, name \in Names :
         disk'[place][name] = disk[place][name] \/ disk'[place][name].call = calls
  BY <1>3, <1>4, <1>d
<1> QED BY <1>4, <1>5, <1>6, <1>7, <1>8, <1>9, <1>10 DEF FlowState

(* The artifacts are collected, those that are required or the flow fails. *)
LEMMA CollectingStep ==
  ASSUME TypeInv, NEW i \in Instances, FlowState(i), calls' = calls, disturbed' = disturbed,
         CollectArtifacts(Package(i), Output(i))
  PROVE  flow' \in Flows /\ FlowState(i)' /\ disk' = disk
<1> DEFINE fails == CollectFails(Package(i), Output(i))
           found == Found(Package(i), Output(i))
           g == StepDone(fails)
<1>1. /\ ~flow.over /\ flow.next \in DOMAIN flow.steps /\ disk' = disk
      /\ flow.steps[flow.next] = "collect_artifacts" /\ ~flow.process
      /\ flow' = [g EXCEPT !.index = found]
  BY DEF CollectArtifacts, AtStep
<1>2. /\ fails \in BOOLEAN
      /\ ~fails => Package(i).required \subseteq Present(Output(i))
      /\ found \in SUBSET Names
  BY DEF CollectFails, Found, Present
<1> HIDE DEF fails, found
<1>3. /\ g \in Flows /\ g.steps = flow.steps /\ g.next = flow.next + 1 /\ g.process = FALSE
      /\ g.failed = (flow.failed \/ fails) /\ g.emitted = flow.emitted /\ g.over = flow.over
  BY <1>2, StepDoneTyped DEF TypeInv
<1> HIDE DEF g
<1>4. /\ flow' \in Flows /\ flow'.steps = flow.steps /\ flow'.next = flow.next + 1
      /\ flow'.process = FALSE /\ flow'.failed = g.failed
      /\ flow'.emitted = flow.emitted /\ flow'.over = flow.over
  BY <1>1, <1>2, <1>3 DEF Flows
<1>5. ~flow'.failed => ~flow.failed /\ ~fails
  BY <1>3, <1>4
<1>6. FilesOfFlow(i)'
  BY <1>1, <1>4 DEF FlowState, FilesOfFlow
<1>7. Progress(i)'
  BY <1>1, <1>4, <1>5 DEF FlowState, Progress
<1>8. \A n \in DOMAIN flow.steps : n < flow.next + 1 => n < flow.next \/ n = flow.next
  BY <1>1 DEF TypeInv, Flows
<1>9. ManifestEmitted(i)'
  BY <1>1, <1>4, <1>5, <1>8 DEF FlowState, ManifestEmitted
<1>10. Collected(i)'
  BY <1>1, <1>2, <1>4, <1>5, <1>8 DEF FlowState, Collected, LastCollection, Present
<1> QED BY <1>1, <1>4, <1>6, <1>7, <1>9, <1>10 DEF FlowState

(* The flow is over, and fails if its manifest is not the one emitted.     *)
LEMMA FinalStep ==
  ASSUME TypeInv, NEW i \in Instances, FlowState(i), calls' = calls, disturbed' = disturbed,
         EndFlow(Run(i))
  PROVE  flow' \in Flows /\ FlowState(i)' /\ disk' = disk
<1> DEFINE b == flow.failed \/ ~ManifestUnchanged(Run(i))
           g == [flow EXCEPT !.over = TRUE]
<1>1. /\ ~flow.over /\ flow.next = Len(flow.steps) + 1 /\ disk' = disk
      /\ flow' = [flow EXCEPT !.over = TRUE, !.failed = b]
  BY DEF EndFlow
<1>p. ~flow.process
  <2>1. flow.steps \in Seq(StepKinds)
    BY DEF TypeInv, Flows
  <2>2. DOMAIN flow.steps = 1 .. Len(flow.steps) /\ Len(flow.steps) \in Nat
    BY <2>1, LenProperties
  <2>3. flow.next \notin DOMAIN flow.steps
    BY <1>1, <2>2
  <2> QED BY <2>3 DEF FlowState, Progress
<1>2. /\ b \in BOOLEAN
      /\ ~b => ~flow.failed /\ (flow.emitted # Absent => disk[Run(i)]["manifest"] = flow.emitted)
  BY DEF ManifestUnchanged
<1>3. flow' = [g EXCEPT !.failed = b]
  BY <1>1
<1> HIDE DEF b
<1>4. /\ g \in Flows /\ g.steps = flow.steps /\ g.next = flow.next /\ g.over = TRUE
      /\ g.process = flow.process /\ g.emitted = flow.emitted
  BY DEF TypeInv, Flows
<1> HIDE DEF g
<1>5. /\ flow' \in Flows /\ flow'.steps = flow.steps /\ flow'.next = flow.next
      /\ flow'.process = flow.process /\ flow'.emitted = flow.emitted
      /\ flow'.over = TRUE /\ flow'.failed = b
  BY <1>2, <1>3, <1>4 DEF Flows
<1>6. FilesOfFlow(i)'
  BY <1>1, <1>5 DEF FlowState, FilesOfFlow
<1>7. Progress(i)'
  BY <1>1, <1>p, <1>5 DEF FlowState, Progress
<1>8. ManifestEmitted(i)'
  BY <1>1, <1>2, <1>5 DEF FlowState, ManifestEmitted
<1>9. Collected(i)'
  BY <1>1, <1>2, <1>5 DEF FlowState, Collected, LastCollection, Present
<1> QED BY <1>1, <1>5, <1>6, <1>7, <1>8, <1>9 DEF FlowState

(* Whoever steps, the flow stays in its two directories and in its state.  *)
LEMMA FlowKeeps ==
  ASSUME TypeInv, NEW i \in Instances, FlowState(i), calls' = calls, disturbed' = disturbed, StepOfFlow(i)
  PROVE  /\ flow' \in Flows /\ FlowState(i)'
         /\ disk' \in [Places -> [Names -> Contents]]
         /\ \A place \in Places \ {Output(i), Run(i)} : disk'[place] = disk[place]
         /\ \A place \in Places, name \in Names :
              \/ disk'[place][name] \in {disk[place][name], Absent}
              \/ disk'[place][name].call = calls
<1>0. disk \in [Places -> [Names -> Contents]]
  BY DEF TypeInv
<1>1. CASE RefuseCommand(Package(i)) \/ StartFails(Package(i)) \/ UnsupportedStep
  <2>1. /\ ~flow.over /\ ~flow.process /\ flow.next \in DOMAIN flow.steps
        /\ flow.steps[flow.next] # "emit_inputs" /\ flow' = StepDone(TRUE) /\ disk' = disk
    BY <1>1 DEF RefuseCommand, StartFails, UnsupportedStep, AtStep
  <2> QED BY <1>0, <2>1, FailingStep
<1>2. CASE StartProcess(Package(i))
  BY <1>0, <1>2, StartingStep
<1>3. CASE ProcessWrites(Run(i), Output(i), calls)
  <2>1. flow \in Flows
    BY DEF TypeInv
  <2> QED BY <1>3, <2>1, WritingStep
<1>4. CASE ProcessExits(Package(i), Run(i), calls)
  <2>1. PICK saved \in SUBSET Captures(Package(i)), failed \in BOOLEAN :
          /\ flow' = StepDone(failed)
          /\ disk' = [disk EXCEPT ![Run(i)] = Captured(saved, Run(i), calls)]
    BY <1>4 DEF ProcessExits
  <2> QED BY <1>4, <2>1, EndingStep DEF ProcessExits
<1>5. CASE DeadlinePasses(Package(i), Run(i), calls)
  <2>1. PICK saved \in SUBSET Captures(Package(i)), failed \in BOOLEAN :
          /\ flow' = StepDone(failed)
          /\ disk' = [disk EXCEPT ![Run(i)] = Captured(saved, Run(i), calls)]
    BY <1>5 DEF DeadlinePasses
  <2> QED BY <1>5, <2>1, EndingStep DEF DeadlinePasses
<1>6. CASE EmitInputs(Package(i), Run(i), calls)
  BY <1>6, EmittingStep
<1>7. CASE CollectArtifacts(Package(i), Output(i))
  BY <1>0, <1>7, CollectingStep
<1>8. CASE EndFlow(Run(i))
  BY <1>0, <1>8, FinalStep
<1> QED BY <1>1, <1>2, <1>3, <1>4, <1>5, <1>6, <1>7, <1>8
        DEF StepOfFlow, FlowStep, ProcessStep

-----------------------------------------------------------------------------
(* The instances of a design have directories of their own.                *)
LEMMA OthersApart ==
  ASSUME TypeInv, InCall, Working
  PROVE  /\ Tried \in Nat /\ Tried + 1 \in DOMAIN design /\ design[Tried + 1] = Current
         /\ \A n \in DOMAIN design :
              n # Tried + 1 => /\ Output(design[n]) \notin {Output(Current), Run(Current)}
                               /\ Run(design[n]) \notin {Output(Current), Run(Current)}
         /\ \A m \in DOMAIN Tail(todo) :
              Output(Tail(todo)[m]) \notin {Output(Current), Run(Current)}
         /\ \A n \in DOMAIN design : design[n] \in Instances /\ n \in Nat
         /\ \A n \in 1 .. Tried : n \in DOMAIN design /\ n # Tried + 1
         /\ \A n \in DOMAIN design :
              n \in 1 .. Tried \/ \E m \in DOMAIN todo : design[n] = todo[m]
<1>1. /\ Len(todo) \in Nat \ {0} /\ Len(design) \in Nat /\ Len(todo) <= Len(design)
      /\ DOMAIN todo = 1 .. Len(todo) /\ DOMAIN design = 1 .. Len(design)
      /\ \A n \in DOMAIN design : design[n] \in Instances
  <2>1. todo \in Seq(Instances) /\ design \in Seq(Instances)
    BY DEF TypeInv
  <2>2. DOMAIN todo = 1 .. Len(todo) /\ DOMAIN design = 1 .. Len(design)
    BY <2>1, LenProperties
  <2>3. \A n \in DOMAIN design : design[n] \in Instances
    BY <2>1, <2>2, ElementOfSeq
  <2>4. Len(todo) <= Len(design)
    BY DEF InCall, Working
  <2> QED BY <2>2, <2>3, <2>4, AtWork
<1>2. \A m \in DOMAIN todo : todo[m] = design[Tried + m]
  BY DEF InCall, Working
<1>3. Tried \in Nat /\ Tried + 1 \in DOMAIN design /\ design[Tried + 1] = Current
  <2>1. Tried \in Nat /\ Tried + 1 \in DOMAIN design
    BY <1>1 DEF Tried
  <2>2. Current = todo[1] /\ 1 \in DOMAIN todo
    BY AtWork
  <2> QED BY <1>2, <2>1, <2>2
<1>4. \A n \in DOMAIN design :
        n # Tried + 1 => /\ Output(design[n]) \notin {Output(Current), Run(Current)}
                         /\ Run(design[n]) \notin {Output(Current), Run(Current)}
  <2>1. DistinctOutputs(design)
    BY DEF InCall, Working
  <2> QED BY <1>3, <2>1 DEF DistinctOutputs, Output, Run
<1>5. \A m \in DOMAIN Tail(todo) :
        Output(Tail(todo)[m]) \notin {Output(Current), Run(Current)}
  <2> TAKE m \in DOMAIN Tail(todo)
  <2>1. m + 1 \in DOMAIN todo /\ Tail(todo)[m] = todo[m + 1] /\ m \in Nat \ {0}
    <3>1. DOMAIN Tail(todo) = 1 .. Len(Tail(todo))
      BY AtWork, LenProperties
    <3>2. Len(Tail(todo)) \in Nat
      BY AtWork, LenProperties
    <3> QED BY <3>1, <3>2, AtWork
  <2>2. Tail(todo)[m] = design[Tried + (m + 1)] /\ Tried + (m + 1) \in DOMAIN design
    BY <1>1, <1>2, <2>1 DEF Tried
  <2>3. Tried + (m + 1) # Tried + 1
    BY <1>3, <2>1
  <2> QED BY <1>4, <2>2, <2>3
<1>6. \A n \in 1 .. Tried : n \in DOMAIN design /\ n # Tried + 1
  BY <1>1, <1>3 DEF Tried
<1>7. \A n \in DOMAIN design :
        n \in 1 .. Tried \/ \E m \in DOMAIN todo : design[n] = todo[m]
  <2> SUFFICES ASSUME NEW n \in DOMAIN design, n \notin 1 .. Tried
               PROVE  \E m \in DOMAIN todo : design[n] = todo[m]
    OBVIOUS
  <2> DEFINE k == n - Tried
  <2>1. k \in DOMAIN todo /\ Tried + k = n
    BY <1>1, <1>3 DEF Tried
  <2> QED BY <1>2, <2>1
<1>8. \A n \in DOMAIN design : n \in Nat
  BY <1>1
<1> QED BY <1>1, <1>3, <1>4, <1>5, <1>6, <1>7, <1>8

(* What is delivered stays so while nobody writes there.                   *)
(* After the step the record of a directory is of the call its files are   *)
(* of, unless others have written there.                                   *)
FreshAfter(place) ==
  disk'[place]["record"] # Absent /\ place \notin disturbed' =>
    \A name \in Names \ Inputs :
      disk'[place][name] # Absent => disk'[place][name].call = disk'[place]["record"].call

LEMMA DeliveredKept ==
  ASSUME NEW i, Delivered(i), disk'[Output(i)] = disk[Output(i)], calls' = calls,
         Output(i) \in disturbed => Output(i) \in disturbed'
  PROVE  Delivered(i)'
BY DEF Delivered, CollectsLast, Output

(* A step on the current instance that neither begins nor ends it keeps    *)
(* what is said of the others.                                             *)
LEMMA OthersKept ==
  ASSUME Inv, Working, UNCHANGED <<calls, design, todo, failures, reply>>,
         phase' \in {"clearOutput", "clearRun", "flow"},
         disk' \in [Places -> [Names -> Contents]], flow' \in Flows,
         \A place \in Places \ {Output(Current), Run(Current)} :
           disk'[place] = disk[place] /\ (place \in disturbed => place \in disturbed'),
         disk'[Output(Current)]["record"].call # calls,
         FilesOfCalls', SurvivorsKnown', ProcessInFlow', InFlow', OutputEmpty',
         FreshAfter(Output(Current))
  PROVE  Inv'
<1>i. TypeInv /\ InCall /\ reply = "none" /\ phase # "idle" /\ phase' # "idle"
  BY DEF Inv, InCall, Working
<1>1. TypeInv'
  BY <1>i DEF TypeInv
<1>2. InCall'
  BY <1>i DEF InCall, Working, Tried
<1>3. \A n \in 1 .. Tried :
        /\ disk'[Output(design[n])] = disk[Output(design[n])]
        /\ Output(design[n]) \in disturbed => Output(design[n]) \in disturbed'
        /\ Run(design[n]) \in disturbed => Run(design[n]) \in disturbed'
  BY <1>i, OthersApart, TwoDirectories
<1>4. DeliveredInv'
  <2>1. \A n \in 1 .. Tried : design[n] \notin failures => Delivered(design[n])
    BY <1>i DEF Inv, DeliveredInv
  <2>2. Tried' = Tried
    BY DEF Tried
  <2> SUFFICES ASSUME NEW n \in 1 .. Tried, design[n] \notin failures
               PROVE  Delivered(design[n])'
    BY <2>2 DEF DeliveredInv
  <2>3. PICK i : i = design[n]
    OBVIOUS
  <2>4. Delivered(i)'
    BY <1>3, <2>1, <2>3, DeliveredKept
  <2> QED BY <2>3, <2>4 DEF Delivered
<1>5. PendingInv'
  <2> SUFFICES ASSUME NEW m \in DOMAIN todo
               PROVE  disk'[Output(todo[m])]["record"].call # calls
    BY DEF PendingInv
  <2>1. CASE m = 1
    BY <1>i, <2>1, AtWork
  <2>2. CASE m # 1
    <3>1. /\ m - 1 \in DOMAIN Tail(todo) /\ Tail(todo)[m - 1] = todo[m]
      <4>1. DOMAIN todo = 1 .. Len(todo) /\ DOMAIN Tail(todo) = 1 .. Len(Tail(todo))
            /\ Len(Tail(todo)) = Len(todo) - 1 /\ Len(todo) \in Nat
        BY <1>i, AtWork, LenProperties DEF TypeInv
      <4>2. m - 1 \in DOMAIN Tail(todo) /\ (m - 1) + 1 = m
        BY <2>2, <4>1
      <4> QED BY <1>i, <4>2, AtWork
    <3>2. Output(todo[m]) \in Places \ {Output(Current), Run(Current)}
      <4>1. todo[m] \in Instances
        BY <1>i, ElementOfSeq, LenProperties DEF TypeInv
      <4> QED BY <1>i, <3>1, <4>1, OthersApart, TwoDirectories
    <3>3. disk[Output(todo[m])]["record"].call # calls
      BY <1>i DEF Inv, PendingInv
    <3> QED BY <3>2, <3>3
  <2> QED BY <2>1, <2>2
<1>6. RecordsAreFresh'
  <2> SUFFICES ASSUME NEW i \in Instances, disk'[Output(i)]["record"] # Absent,
                      Output(i) \notin disturbed', NEW name \in Names \ Inputs, disk'[Output(i)][name] # Absent
               PROVE  disk'[Output(i)][name].call = disk'[Output(i)]["record"].call
    BY DEF RecordsAreFresh, Present
  <2>1. CASE Output(i) = Output(Current)
    BY <2>1 DEF FreshAfter
  <2>2. CASE Output(i) # Output(Current)
    <3>1. disk'[Output(i)] = disk[Output(i)] /\ Output(i) \notin disturbed
      BY <2>2, TwoDirectories
    <3> QED BY <3>1 DEF Inv, RecordsAreFresh, Present
  <2> QED BY <2>1, <2>2
<1>7. InputsAreEmitted'
  <2> SUFFICES ASSUME NEW n \in DOMAIN design, disk'[Output(design[n])]["record"].call = calls,
                      disk'[Output(design[n])]["record"].good,
                      disturbed' \cap {Output(design[n]), Run(design[n])} = {}
               PROVE  /\ disk'[Output(design[n])]["manifest"].call = calls
                      /\ disk'[Output(design[n])]["manifest"].good
                      /\ Emits(design[n]) => disk'[Output(design[n])]["manifest"].by = "emitter"
    BY DEF InputsAreEmitted, Undisturbed, Output, Run
  <2>1. n \in 1 .. Tried
    BY <1>i, <1>5, OthersApart DEF PendingInv
  <2>2. disk'[Output(design[n])] = disk[Output(design[n])] /\ Undisturbed(design[n])
    BY <1>3, <2>1 DEF Undisturbed
  <2> QED BY <2>2 DEF Inv, InputsAreEmitted
<1>8. SuccessIsDelivered'
  BY <1>i DEF SuccessIsDelivered
<1> QED BY <1>1, <1>2, <1>4, <1>5, <1>6, <1>7, <1>8 DEF Inv

(* The current instance is done with: nothing but its output directory has *)
(* changed, and that is delivered or the instance has failed.              *)
LEMMA InstanceDone ==
  ASSUME Inv, Working, NEW failed \in BOOLEAN, NextInstance(failed),
         NEW done, done = Current,
         disk' \in [Places -> [Names -> Contents]], FilesOfCalls',
         \A place \in Places \ {Output(Current)} : disk'[place] = disk[place],
         \A place \in Places \ {Output(Current), Run(Current)} :
           place \in disturbed => place \in disturbed',
         ~failed => Delivered(done)',
         FreshAfter(Output(Current)),
         disk'[Output(Current)]["record"].call = calls
           /\ disk'[Output(Current)]["record"].good
           /\ disturbed' \cap {Output(Current), Run(Current)} = {} =>
           /\ disk'[Output(Current)]["manifest"].call = calls
           /\ disk'[Output(Current)]["manifest"].good
           /\ Emits(Current) => disk'[Output(Current)]["manifest"].by = "emitter"
  PROVE  Inv'
<1>i. TypeInv /\ InCall /\ reply = "none" /\ phase # "idle"
  BY DEF Inv, InCall, Working
<1>n. /\ failures' = IF failed THEN failures \cup {Current} ELSE failures
      /\ todo' = Tail(todo) /\ phase' = Starting(Tail(todo)) /\ flow' = NoFlow
      /\ UNCHANGED <<calls, design, reply, snapshot, survivors>>
  BY DEF NextInstance
<1>p. phase' \in {"clearOutput", "snapshot"} /\ (phase' = "snapshot" <=> todo' = <<>>)
  BY <1>n DEF Starting
<1>t. /\ Len(todo) \in Nat \ {0} /\ Len(design) \in Nat /\ Len(todo) <= Len(design)
      /\ Len(todo') = Len(todo) - 1 /\ Tried' = Tried + 1 /\ Tried \in Nat
  <2>1. Len(todo) <= Len(design)
    BY <1>i DEF InCall
  <2> QED BY <1>i, <1>n, <2>1, AtWork DEF Tried
<1>1. TypeInv'
  <2>1. NoFlow \in Flows
    BY Files DEF NoFlow, Flows
  <2> QED BY <1>i, <1>n, <1>p, <2>1, AtWork DEF TypeInv
<1>2. InCall'
  <2>1. \A m \in DOMAIN Tail(todo) : Tail(todo)[m] = design[Tried + 1 + m]
    <3> TAKE m \in DOMAIN Tail(todo)
    <3>1. m + 1 \in DOMAIN todo /\ Tail(todo)[m] = todo[m + 1] /\ m \in Nat
      <4>1. DOMAIN Tail(todo) = 1 .. Len(Tail(todo)) /\ Len(Tail(todo)) \in Nat
        BY <1>i, AtWork, LenProperties
      <4> QED BY <1>i, <4>1, AtWork
    <3>2. todo[m + 1] = design[Tried + (m + 1)]
      BY <1>i, <3>1 DEF InCall
    <3>3. Tried + (m + 1) = Tried + 1 + m
      BY <1>t, <3>1
    <3> QED BY <3>1, <3>2, <3>3
  <2> QED BY <1>i, <1>n, <1>p, <1>t, <2>1 DEF InCall
<1>3. \A n \in 1 .. Tried :
        /\ disk'[Output(design[n])] = disk[Output(design[n])]
        /\ Output(design[n]) \in disturbed => Output(design[n]) \in disturbed'
        /\ Run(design[n]) \in disturbed => Run(design[n]) \in disturbed'
  BY <1>i, OthersApart, TwoDirectories
<1>4. DeliveredInv'
  <2> SUFFICES ASSUME NEW n \in 1 .. Tried + 1, design[n] \notin failures'
               PROVE  Delivered(design[n])'
    BY <1>n, <1>t DEF DeliveredInv
  <2>1. CASE n = Tried + 1
    <3>1. design[n] = done /\ ~failed
      BY <1>i, <1>n, <2>1, OthersApart
    <3>2. Delivered(done)'
      BY <3>1
    <3> QED BY <1>n, <3>1, <3>2 DEF Delivered
  <2>2. CASE n # Tried + 1
    <3>1. n \in 1 .. Tried
      BY <1>t, <2>2
    <3>2. PICK i : i = design[n]
      OBVIOUS
    <3>3. Delivered(i)
      BY <1>i, <1>n, <3>1, <3>2 DEF Inv, DeliveredInv
    <3>4. Delivered(i)'
      BY <1>3, <1>n, <3>1, <3>2, <3>3, DeliveredKept
    <3> QED BY <1>n, <3>2, <3>4 DEF Delivered
  <2> QED BY <2>1, <2>2
<1>5. PendingInv'
  <2> SUFFICES ASSUME NEW m \in DOMAIN Tail(todo)
               PROVE  disk'[Output(Tail(todo)[m])]["record"].call # calls
    BY <1>n DEF PendingInv
  <2>1. m + 1 \in DOMAIN todo /\ Tail(todo)[m] = todo[m + 1] /\ todo[m + 1] \in Instances
    BY <1>i, AtWork, ElementOfSeq, LenProperties DEF TypeInv
  <2>2. disk'[Output(Tail(todo)[m])] = disk[Output(Tail(todo)[m])]
    BY <1>i, <2>1, OthersApart, TwoDirectories
  <2> QED BY <1>i, <2>1, <2>2 DEF Inv, PendingInv
<1>6. RecordsAreFresh'
  <2> SUFFICES ASSUME NEW i \in Instances, disk'[Output(i)]["record"] # Absent,
                      Output(i) \notin disturbed', NEW name \in Names \ Inputs, disk'[Output(i)][name] # Absent
               PROVE  disk'[Output(i)][name].call = disk'[Output(i)]["record"].call
    BY DEF RecordsAreFresh, Present
  <2>1. CASE Output(i) = Output(Current)
    BY <2>1 DEF FreshAfter
  <2>2. CASE Output(i) # Output(Current)
    <3>1. disk'[Output(i)] = disk[Output(i)] /\ Output(i) \notin disturbed
      BY <2>2, TwoDirectories
    <3> QED BY <3>1 DEF Inv, RecordsAreFresh, Present
  <2> QED BY <2>1, <2>2
<1>7. InputsAreEmitted'
  <2> SUFFICES ASSUME NEW n \in DOMAIN design, disk'[Output(design[n])]["record"].call = calls,
                      disk'[Output(design[n])]["record"].good,
                      disturbed' \cap {Output(design[n]), Run(design[n])} = {}
               PROVE  /\ disk'[Output(design[n])]["manifest"].call = calls
                      /\ disk'[Output(design[n])]["manifest"].good
                      /\ Emits(design[n]) => disk'[Output(design[n])]["manifest"].by = "emitter"
    BY <1>n DEF InputsAreEmitted, Undisturbed, Output, Run
  <2>1. CASE n = Tried + 1
    BY <1>i, <2>1, OthersApart
  <2>2. CASE n # Tried + 1
    <3>1. disk'[Output(design[n])] = disk[Output(design[n])] /\ Undisturbed(design[n])
      BY <1>i, <2>2, OthersApart, TwoDirectories DEF Undisturbed
    <3> QED BY <3>1 DEF Inv, InputsAreEmitted
  <2> QED BY <2>1, <2>2
<1>8. InFlow' /\ OutputEmpty' /\ SurvivorsKnown' /\ ProcessInFlow'
  <2>1. NoFlow.process = FALSE
    BY DEF NoFlow
  <2> QED BY <1>n, <1>p, <2>1 DEF InFlow, OutputEmpty, Inv, SurvivorsKnown, ProcessInFlow,
                                  Output, Run
<1>9. SuccessIsDelivered'
  BY <1>i, <1>n DEF SuccessIsDelivered
<1> QED BY <1>1, <1>2, <1>4, <1>5, <1>6, <1>7, <1>8, <1>9 DEF Inv

(* The record is written beside files of this call, whatever it says.      *)
LEMMA RecordWritten ==
  ASSUME Inv, Working, NEW success \in BOOLEAN, NEW directory \in [Names -> Contents],
         WriteRecord(success, directory),
         \A place \in Places \ {Run(Current)} : place \in disturbed' <=> place \in disturbed,
         \A name \in Names : directory[name].call <= calls,
         Output(Current) \notin disturbed =>
           \A name \in Names \ Inputs : directory[name] # Absent => directory[name].call = calls,
         directory["record"] = Absent,
         \A name \in Artifacts : directory[name] = disk[Output(Current)][name],
         success /\ CollectsLast(Current) /\ Output(Current) \notin disturbed =>
           Package(Current).required \subseteq Present(Output(Current)),
         success /\ disturbed' \cap {Output(Current), Run(Current)} = {} =>
           /\ directory["manifest"].call = calls /\ directory["manifest"].good
           /\ Emits(Current) => directory["manifest"].by = "emitter"
  PROVE  Inv'
<1>i. TypeInv /\ InCall /\ calls \in 1 .. MaxCalls
  BY DEF Inv, InCall, Working, TypeInv
<1>d. /\ Output(Current) \in Places /\ disk \in [Places -> [Names -> Contents]]
      /\ Current \in Instances /\ IsPackage(Package(Current))
  BY <1>i, AtWork, TwoDirectories DEF TypeInv
<1> DEFINE written == Record(success)
           listed == Artifacts \cap Present(Output(Current))
<1>r. /\ written \in Contents /\ written.by = "runner" /\ written.call = calls
      /\ written.lists = listed /\ written.good = success /\ written # Absent
  <2>1. listed \in SUBSET Names /\ calls \in 0 .. MaxCalls
    BY <1>i DEF Present
  <2>2. written = File("runner", calls, listed, success)
    BY DEF Record
  <2> HIDE DEF written, listed
  <2> QED BY <2>1, <2>2, Files
<1>1. PICK saved \in BOOLEAN :
        /\ disk' = [disk EXCEPT ![Output(Current)] =
                      IF saved THEN [directory EXCEPT !["record"] = written] ELSE directory]
        /\ NextInstance(~success \/ ~saved)
  BY DEF WriteRecord
<1> HIDE DEF written
<1>n. "record" \in Names /\ "record" \notin Inputs /\ "manifest" \in Names /\ "manifest" # "record"
  BY NamesApart
<1>2. /\ disk' \in [Places -> [Names -> Contents]]
      /\ \A place \in Places \ {Output(Current)} : disk'[place] = disk[place]
      /\ \A name \in Names \ {"record"} : disk'[Output(Current)][name] = directory[name]
      /\ disk'[Output(Current)]["record"] = IF saved THEN written ELSE Absent
  BY <1>1, <1>d, <1>r, <1>n
<1>c. calls' = calls
  BY <1>1 DEF NextInstance
<1>f. Output(Current) \notin disturbed =>
        \A name \in Names \ Inputs : disk'[Output(Current)][name] # Absent =>
                                      disk'[Output(Current)][name].call = calls
  BY <1>2, <1>r
<1>h. Output(Current) \in disturbed' <=> Output(Current) \in disturbed
  BY <1>d, TwoDirectories
<1>3. FilesOfCalls'
  <2>1. \A place \in Places \ {Output(Current)}, name \in Names : disk'[place][name].call <= calls
    BY <1>2 DEF Inv, FilesOfCalls
  <2>2. \A name \in Names : disk'[Output(Current)][name].call <= calls
    <3>1. Absent.call = 0 /\ 0 <= calls /\ calls <= calls
      BY <1>i, Files
    <3> QED BY <1>2, <1>r, <3>1
  <2> QED BY <2>1, <2>2, <1>c DEF FilesOfCalls
<1>k. PICK done : done = Current
  OBVIOUS
<1> DEFINE failed == ~success \/ ~saved
<1>4. ~failed => Delivered(done)'
  <2> SUFFICES ASSUME success, saved
               PROVE  Delivered(done)'
    OBVIOUS
  <2>1. disk'[Output(done)]["record"] = written
    BY <1>2, <1>k
  <2>2. CollectsLast(done) /\ Output(done) \notin disturbed' =>
          \A name \in Package(done).required :
            name \in written.lists /\ disk'[Output(done)][name].call = calls
    <3> SUFFICES ASSUME CollectsLast(done), Output(done) \notin disturbed',
                        NEW name \in Package(done).required
                 PROVE  name \in written.lists /\ disk'[Output(done)][name].call = calls
      OBVIOUS
    <3>1. name \in Artifacts /\ name \in Present(Output(done))
      BY <1>d, <1>h, <1>k DEF IsPackage
    <3>2. name \in Names \ Inputs /\ name # "record" /\ disk[Output(done)][name] # Absent
      BY <3>1, NamesApart DEF Present
    <3>3. directory[name] # Absent /\ disk'[Output(done)][name] = directory[name]
      BY <1>2, <1>k, <3>1, <3>2
    <3> QED BY <1>f, <1>h, <1>k, <1>r, <3>1, <3>2, <3>3
  <2>3. Delivered(done)'
    BY <1>c, <1>r, <2>1, <2>2 DEF Delivered, CollectsLast, Output
  <2> QED BY <2>3
<1>5. FreshAfter(Output(Current))
  BY <1>2, <1>f, <1>h, <1>n, <1>r DEF FreshAfter
<1>6. disk'[Output(Current)]["record"].call = calls
        /\ disk'[Output(Current)]["record"].good
        /\ disturbed' \cap {Output(Current), Run(Current)} = {} =>
        /\ disk'[Output(Current)]["manifest"].call = calls
        /\ disk'[Output(Current)]["manifest"].good
        /\ Emits(Current) => disk'[Output(Current)]["manifest"].by = "emitter"
  <2>1. Absent.call # calls
    BY <1>i, Files
  <2> QED BY <1>2, <1>n, <1>r, <2>1
<1> QED BY <1>1, <1>2, <1>3, <1>4, <1>5, <1>6, <1>k, InstanceDone

-----------------------------------------------------------------------------
(* A call begins: nothing on the disk is of it yet.                        *)
LEMMA GenerateKeeps ==
  ASSUME Inv, NEW instances \in Designs, Generate(instances)
  PROVE  Inv'
<1>n. /\ phase = "idle" /\ calls < MaxCalls /\ DistinctOutputs(instances)
      /\ calls' = calls + 1 /\ phase' = Starting(instances) /\ design' = instances
      /\ todo' = instances /\ failures' = {} /\ reply' = "none"
      /\ UNCHANGED <<disk, flow, snapshot, survivors, disturbed>>
  BY DEF Generate, Acceptable
<1>i. TypeInv /\ instances \in Seq(Instances) /\ calls \in Nat /\ MaxCalls \in Nat
  BY GenerationAssumption, FlowRunnerAssumption DEF Inv, TypeInv
<1>l. /\ Len(instances) \in Nat /\ DOMAIN instances = 1 .. Len(instances)
      /\ \A n \in DOMAIN instances : instances[n] \in Instances
      /\ instances = <<>> <=> Len(instances) = 0
  <2>1. Len(instances) \in Nat /\ DOMAIN instances = 1 .. Len(instances)
    BY <1>i, LenProperties
  <2>2. instances = <<>> <=> Len(instances) = 0
    BY <1>i, EmptySeq
  <2> QED BY <1>i, <2>1, <2>2, ElementOfSeq
<1>p. phase' \in {"clearOutput", "snapshot"} /\ (phase' = "snapshot" <=> instances = <<>>)
  BY <1>n DEF Starting
<1>t. Tried' = 0 /\ \A m \in DOMAIN instances : 0 + m = m
  BY <1>n, <1>l DEF Tried
<1>1. TypeInv'
  BY <1>i, <1>n, <1>p DEF TypeInv
<1>2. \A place \in Places, name \in Names : disk'[place][name].call < calls'
  <2> SUFFICES ASSUME NEW place \in Places, NEW name \in Names
               PROVE  disk[place][name].call < calls + 1
    BY <1>n
  <2>1. disk[place][name].call <= calls /\ disk[place][name] \in Contents
    BY DEF Inv, FilesOfCalls, TypeInv
  <2>2. disk[place][name].call \in Nat
    BY <2>1, <1>i DEF Contents
  <2> QED BY <1>i, <2>1, <2>2
<1>3. FilesOfCalls'
  <2> SUFFICES ASSUME NEW place \in Places, NEW name \in Names
               PROVE  disk'[place][name].call <= calls'
    BY DEF FilesOfCalls
  <2>1. disk'[place][name].call < calls' /\ disk'[place][name] \in Contents
    BY <1>1, <1>2 DEF TypeInv
  <2>2. disk'[place][name].call \in Nat /\ calls' \in Nat
    BY <1>i, <1>n, <2>1 DEF Contents
  <2> QED BY <2>1, <2>2
<1>4. InCall'
  <2>1. calls' > 0
    BY <1>i, <1>n
  <2>2. Len(instances) <= Len(instances)
    BY <1>l
  <2> QED BY <1>n, <1>p, <1>t, <2>1, <2>2 DEF InCall
<1>5. DeliveredInv'
  BY <1>t DEF DeliveredInv
<1>6. \A n \in DOMAIN instances : disk'[Output(instances[n])]["record"].call # calls'
  <2> TAKE n \in DOMAIN instances
  <2>1. Output(instances[n]) \in Places /\ "record" \in Names
    BY <1>l, TwoDirectories, NamesApart
  <2>2. /\ disk'[Output(instances[n])]["record"].call < calls'
        /\ disk'[Output(instances[n])]["record"] \in Contents
    BY <1>1, <1>2, <2>1 DEF TypeInv
  <2> QED BY <1>i, <1>n, <2>2 DEF Contents
<1>7. PendingInv' /\ InputsAreEmitted'
  BY <1>n, <1>6 DEF PendingInv, InputsAreEmitted
<1>8. InFlow' /\ OutputEmpty' /\ SuccessIsDelivered'
  BY <1>n, <1>p DEF InFlow, OutputEmpty, SuccessIsDelivered
<1>9. RecordsAreFresh' /\ SurvivorsKnown' /\ ProcessInFlow'
  <2>1. \A n \in 0 .. calls : n \in 0 .. calls + 1
    BY <1>i
  <2> QED BY <1>n, <2>1 DEF Inv, RecordsAreFresh, Present, SurvivorsKnown, ProcessInFlow, Output, Run
<1> QED BY <1>1, <1>3, <1>4, <1>5, <1>7, <1>8, <1>9 DEF Inv

(* A call is refused.                                                      *)
LEMMA RefuseKeeps ==
  ASSUME Inv, NEW instances \in Designs, RefuseGenerate(instances)
  PROVE  Inv'
<1>1. /\ phase = "idle" /\ reply' = "refused"
      /\ UNCHANGED <<disk, flow, phase, calls, design, todo, failures, snapshot,
                     survivors, disturbed>>
  BY DEF RefuseGenerate
<1>2. /\ TypeInv' /\ FilesOfCalls' /\ RecordsAreFresh' /\ InputsAreEmitted' /\ SurvivorsKnown'
      /\ ProcessInFlow'
  BY <1>1 DEF Inv, TypeInv, FilesOfCalls, RecordsAreFresh, Present, InputsAreEmitted,
              SurvivorsKnown, ProcessInFlow, Undisturbed, Output, Run
<1>3. InCall' /\ OutputEmpty' /\ InFlow' /\ DeliveredInv' /\ PendingInv' /\ SuccessIsDelivered'
  BY <1>1 DEF InCall, OutputEmpty, InFlow, DeliveredInv, PendingInv, SuccessIsDelivered
<1> QED BY <1>2, <1>3 DEF Inv

(* Whoever stays at work is a process of the current instance.             *)
LEMMA SurvivorJoins ==
  ASSUME Inv, Working, calls' = calls, survivors' \in {survivors, WithSurvivor}
  PROVE  SurvivorsKnown'
<1>1. /\ Survivor.run = Run(Current) /\ Survivor.out = Output(Current)
      /\ Survivor.call = calls /\ calls \in 0 .. calls
  BY FlowRunnerAssumption DEF Survivor, Inv, TypeInv
<1>2. \A s \in survivors' : s \in survivors \/ s = Survivor
  BY DEF WithSurvivor
<1>3. Current \in Instances
  BY AtWork DEF Inv
<1> QED BY <1>1, <1>2, <1>3 DEF Inv, SurvivorsKnown, Output, Run

(* The editor stops: the directories stay, and maybe a process.            *)
LEMMA CrashKeeps ==
  ASSUME Inv, Crash
  PROVE  Inv'
<1>1. /\ phase' = "idle" /\ todo' = <<>> /\ flow' = NoFlow /\ reply' = "none"
      /\ UNCHANGED <<disk, calls, design, failures, snapshot, disturbed>>
      /\ survivors' = IF flow.process THEN WithSurvivor ELSE survivors
  BY DEF Crash
<1>2. NoFlow \in Flows /\ NoFlow.process = FALSE
  BY Files DEF NoFlow, Flows
<1>3. TypeInv' /\ FilesOfCalls' /\ RecordsAreFresh' /\ InputsAreEmitted'
  BY <1>1, <1>2 DEF Inv, TypeInv, FilesOfCalls, RecordsAreFresh, Present, InputsAreEmitted,
                    Undisturbed
<1>5. SurvivorsKnown'
  <2>1. CASE flow.process
    <3>1. Working /\ calls' = calls /\ survivors' \in {survivors, WithSurvivor}
      BY <1>1, <2>1 DEF Inv, ProcessInFlow, Working
    <3> QED BY <3>1, SurvivorJoins
  <2>2. CASE ~flow.process
    BY <1>1, <2>2 DEF Inv, SurvivorsKnown, Output, Run
  <2> QED BY <2>1, <2>2
<1>6. ProcessInFlow'
  BY <1>1, <1>2 DEF ProcessInFlow
<1>4. InCall' /\ OutputEmpty' /\ InFlow' /\ DeliveredInv' /\ PendingInv' /\ SuccessIsDelivered'
  BY <1>1 DEF InCall, OutputEmpty, InFlow, DeliveredInv, PendingInv, SuccessIsDelivered
<1> QED BY <1>3, <1>4, <1>5, <1>6 DEF Inv

(* The call ends: it is a success when the snapshot is saved and every     *)
(* instance is delivered.                                                  *)
LEMMA FinishGenerateKeeps ==
  ASSUME Inv, FinishGenerate
  PROVE  Inv'
<1>1. PICK saved \in BOOLEAN :
        /\ snapshot' = IF saved THEN [call |-> calls, design |-> design] ELSE snapshot
        /\ reply' = IF saved /\ failures = {} THEN "ok" ELSE "failed"
  BY DEF FinishGenerate
<1>2. /\ phase = "snapshot" /\ phase' = "idle"
      /\ UNCHANGED <<disk, flow, calls, design, todo, failures, survivors, disturbed>>
  BY DEF FinishGenerate
<1>3. /\ TypeInv' /\ FilesOfCalls' /\ RecordsAreFresh' /\ InputsAreEmitted'
      /\ SurvivorsKnown' /\ ProcessInFlow'
  BY <1>2 DEF Inv, TypeInv, FilesOfCalls, RecordsAreFresh, Present, InputsAreEmitted,
              SurvivorsKnown, ProcessInFlow, Undisturbed, Output, Run
<1>4. InCall' /\ OutputEmpty' /\ InFlow' /\ DeliveredInv' /\ PendingInv'
  BY <1>2 DEF InCall, OutputEmpty, InFlow, DeliveredInv, PendingInv
<1>5. SuccessIsDelivered'
  <2> SUFFICES ASSUME reply' = "ok"
               PROVE  /\ \A n \in DOMAIN design : Delivered(design[n])'
                      /\ \A m, n \in DOMAIN design : Output(design[m]) = Output(design[n]) => m = n
                      /\ snapshot' = [call |-> calls, design |-> design]
    BY <1>2 DEF SuccessIsDelivered, Delivered, Output
  <2>1. saved /\ failures = {}
    BY <1>1
  <2>2. todo = <<>> /\ DistinctOutputs(design)
    BY <1>2 DEF Inv, InCall
  <2>3. DOMAIN design = 1 .. Tried
    <3>1. Len(todo) = 0 /\ DOMAIN design = 1 .. Len(design) /\ Len(design) \in Nat
      BY <2>2, LenProperties DEF Inv, TypeInv
    <3> QED BY <3>1 DEF Tried
  <2>4. \A n \in DOMAIN design : Delivered(design[n])'
    <3> TAKE n \in DOMAIN design
    <3>1. PICK i : i = design[n]
      OBVIOUS
    <3>2. Delivered(i)
      BY <1>2, <2>1, <2>3, <3>1 DEF Inv, DeliveredInv
    <3>3. Delivered(i)'
      BY <1>2, <3>2, DeliveredKept
    <3> QED BY <1>2, <3>1, <3>3 DEF Delivered
  <2>5. \A m, n \in DOMAIN design : Output(design[m]) = Output(design[n]) => m = n
    BY <2>2 DEF DistinctOutputs, Output
  <2> QED BY <1>1, <2>1, <2>4, <2>5
<1> QED BY <1>3, <1>4, <1>5 DEF Inv

(* A directory is being cleared: one file less.                            *)
LEMMA RemoveFileKeeps ==
  ASSUME Inv, NEW where \in {"clearOutput", "clearRun"},
         NEW place \in {Output(Current), Run(Current)},
         where = "clearRun" => place = Run(Current),
         RemoveFile(where, place)
  PROVE  Inv'
<1>w. Working /\ phase = where
  BY DEF RemoveFile, Working
<1>i. TypeInv /\ InCall /\ calls > 0 /\ 0 <= calls
  BY <1>w, FlowRunnerAssumption DEF Inv, InCall, Working, TypeInv
<1>1. PICK name \in Names : disk' = [disk EXCEPT ![place][name] = Absent]
  BY DEF RemoveFile, Present
<1>2. UNCHANGED <<flow, phase, calls, design, todo, failures, reply, snapshot,
                  survivors, disturbed>>
  BY DEF RemoveFile
<1>d. /\ place \in Places /\ Current \in Instances /\ disk \in [Places -> [Names -> Contents]]
      /\ Output(Current) \in Places /\ "record" \in Names
  BY <1>i, <1>w, AtWork, NamesApart DEF TypeInv
<1>3. /\ disk' \in [Places -> [Names -> Contents]]
      /\ \A p \in Places \ {place} : disk'[p] = disk[p]
      /\ \A p \in Places, n \in Names : disk'[p][n] \in {disk[p][n], Absent}
      /\ \A n \in Names : disk'[place][n] = IF n = name THEN Absent ELSE disk[place][n]
  BY <1>1, <1>d, Files
<1>4. FilesOfCalls'
  <2>1. \A p \in Places, n \in Names : disk[p][n].call <= calls
    BY DEF Inv, FilesOfCalls
  <2>2. Absent.call <= calls
    BY <1>i, Files
  <2> QED BY <1>2, <1>3, <2>1, <2>2 DEF FilesOfCalls
<1>5. InFlow'
  BY <1>2, <1>w DEF InFlow
<1>6. OutputEmpty'
  <2> SUFFICES ASSUME phase = "clearRun"
               PROVE  OutputEmpty'
    BY <1>2 DEF OutputEmpty
  <2>1. disk'[Output(Current)] = disk[Output(Current)]
    <3>1. Output(Current) # place
      BY <1>w, TwoDirectories, <1>d
    <3> QED BY <1>3, <1>d, <3>1
  <2> QED BY <1>2, <2>1 DEF Inv, OutputEmpty, Present, Output, Current
<1>7. disk'[Output(Current)]["record"].call # calls
  <2>1. disk[Output(Current)]["record"].call # calls
    BY <1>i, <1>w, AtWork DEF Inv, PendingInv, Working
  <2>2. Absent.call # calls
    BY <1>i, Files
  <2> QED BY <1>3, <1>d, <2>1, <2>2
<1>8. FreshAfter(Output(Current))
  <2> DEFINE i == Current
  <2> SUFFICES ASSUME disk'[Output(i)]["record"] # Absent, Output(i) \notin disturbed',
                      NEW n \in Names \ Inputs, disk'[Output(i)][n] # Absent
               PROVE  disk'[Output(i)][n].call = disk'[Output(i)]["record"].call
    BY DEF FreshAfter
  <2>1. Output(i) \in Places /\ i \in Instances
    BY <1>d
  <2>2. /\ disk'[Output(i)]["record"] = disk[Output(i)]["record"]
        /\ disk'[Output(i)][n] = disk[Output(i)][n]
    BY <1>3, <1>d, <2>1
  <2> HIDE DEF i
  <2> QED BY <1>2, <2>1, <2>2 DEF Inv, RecordsAreFresh, Present
<1>9. flow' \in Flows /\ phase' \in {"clearOutput", "clearRun", "flow"}
  BY <1>2, <1>i, <1>w DEF TypeInv
<1>10. /\ \A p \in Places \ {Output(Current), Run(Current)} :
            disk'[p] = disk[p] /\ (p \in disturbed => p \in disturbed')
       /\ SurvivorsKnown' /\ ProcessInFlow'
  BY <1>2, <1>3 DEF Inv, SurvivorsKnown, ProcessInFlow, Output, Run
<1> QED BY <1>2, <1>3, <1>4, <1>5, <1>6, <1>7, <1>8, <1>9, <1>10, <1>w, OthersKept

(* What RecordsAreFresh, InputsAreEmitted and FilesOfCalls say as the disk *)
(* is, for a step that leaves the disk alone.                              *)
LEMMA SameDisk ==
  ASSUME Inv, Working, disk' = disk, calls' = calls,
         \A place \in Places \ {Run(Current)} :
           place \in disturbed =>
             \/ place \in disturbed'
             \/ place = Output(Current) /\ disk[place]["record"] = Absent
  PROVE  /\ disk' \in [Places -> [Names -> Contents]] /\ FilesOfCalls'
         /\ \A place \in Places : disk'[place] = disk[place]
         /\ disk'[Output(Current)]["record"].call # calls
         /\ FreshAfter(Output(Current))
<1>1. disk' \in [Places -> [Names -> Contents]] /\ FilesOfCalls'
  BY DEF Inv, TypeInv, FilesOfCalls
<1>2. disk[Output(Current)]["record"].call # calls
  BY AtWork DEF Inv, PendingInv, Working
<1>3. FreshAfter(Output(Current))
  <2>1. Current \in Instances /\ Output(Current) \in Places /\ Output(Current) # Run(Current)
    BY AtWork DEF Inv
  <2> QED BY <2>1 DEF Inv, RecordsAreFresh, Present, FreshAfter
<1> QED BY <1>1, <1>2, <1>3

(* An instance that ends without a record of this call.                    *)
LEMMA GivenUpKeeps ==
  ASSUME Inv, Working, NextInstance(TRUE), disk' = disk,
         \A place \in Places \ {Run(Current)} : place \in disturbed => place \in disturbed'
  PROVE  Inv'
<1>1. calls' = calls
  BY DEF NextInstance
<1>2. PICK done : done = Current
  OBVIOUS
<1>3. /\ disk' \in [Places -> [Names -> Contents]] /\ FilesOfCalls'
      /\ \A place \in Places : disk'[place] = disk[place]
      /\ disk'[Output(Current)]["record"].call # calls
      /\ FreshAfter(Output(Current))
  BY <1>1, SameDisk
<1> QED BY <1>2, <1>3, InstanceDone

LEMMA RemoveFailsKeeps ==
  ASSUME Inv, NEW where \in {"clearOutput", "clearRun"}, RemoveFails(where)
  PROVE  Inv'
BY GivenUpKeeps DEF RemoveFails, Working

(* The output directory is empty: now the run directory.                   *)
LEMMA OutputClearedKeeps ==
  ASSUME Inv, OutputCleared
  PROVE  Inv'
<1>1. /\ phase = "clearOutput" /\ phase' = "clearRun" /\ Present(Output(Current)) = {}
      /\ UNCHANGED <<disk, flow, calls, design, todo, failures, reply, snapshot, survivors>>
      /\ disturbed' = disturbed \ {Output(Current)}
  BY DEF OutputCleared, IsCleared
<1>2. Working /\ flow' \in Flows
  BY <1>1 DEF Working, Inv, TypeInv
<1>a. \A name \in Names : disk[Output(Current)][name] = Absent
  BY <1>1 DEF Present
<1>b. disk[Output(Current)]["record"] = Absent /\ disk[Output(Current)]["manifest"] = Absent
  BY <1>a, NamesApart
<1>3. OutputEmpty'
  BY <1>1, <1>b, Files DEF OutputEmpty, Present, Output, Current
<1>4. InFlow' /\ SurvivorsKnown' /\ ProcessInFlow'
  BY <1>1 DEF InFlow, Inv, SurvivorsKnown, ProcessInFlow, Output, Run
<1>5. \A place \in Places : place \in disturbed =>
        \/ place \in disturbed'
        \/ place = Output(Current) /\ disk[place]["record"] = Absent
  <2> SUFFICES ASSUME NEW place \in Places, place \in disturbed, place # Output(Current)
               PROVE  place \in disturbed'
    BY <1>b
  <2> QED BY <1>1
<1>6. /\ disk' \in [Places -> [Names -> Contents]] /\ FilesOfCalls'
      /\ \A place \in Places : disk'[place] = disk[place]
      /\ disk'[Output(Current)]["record"].call # calls
      /\ FreshAfter(Output(Current))
  BY <1>1, <1>2, <1>5, SameDisk
<1> QED BY <1>1, <1>2, <1>3, <1>4, <1>5, <1>6, OthersKept

(* Both are empty: the flow starts, or the instance ends without one.      *)
LEMMA RunClearedKeeps ==
  ASSUME Inv, RunCleared
  PROVE  Inv'
<1>1. /\ phase = "clearRun" /\ Present(Run(Current)) = {}
      /\ disturbed' = disturbed \ {Run(Current)}
      /\ disk[Output(Current)]["record"] = Absent
      /\ disk[Output(Current)]["manifest"].by # "emitter"
      /\ Output(Current) \notin disturbed => Present(Output(Current)) = {}
  BY DEF RunCleared, IsCleared, Inv, OutputEmpty
<1>i. Working /\ TypeInv /\ InCall
  BY <1>1 DEF Inv, Working
<1>d. /\ Output(Current) \in Places /\ Run(Current) \in Places /\ Current \in Instances
      /\ disk \in [Places -> [Names -> Contents]] /\ "record" \in Names /\ "manifest" \in Names
  BY <1>i, AtWork, NamesApart DEF TypeInv
<1>e. \A name \in Names :
        /\ disk[Run(Current)][name] = Absent
        /\ Output(Current) \notin disturbed => disk[Output(Current)][name] = Absent
  BY <1>1 DEF Present
<1>g. /\ \A place \in Places \ {Run(Current)} : place \in disturbed' <=> place \in disturbed
      /\ Output(Current) \in disturbed' <=> Output(Current) \in disturbed
      /\ Output(Current) # Run(Current)
  BY <1>1, <1>d, TwoDirectories
<1>2. CASE NextInstance(TRUE) /\ UNCHANGED disk
  BY <1>g, <1>i, <1>2, GivenUpKeeps
<1>3. CASE WriteRecord(FALSE, disk[Output(Current)])
  <2> DEFINE directory == disk[Output(Current)]
             success == FALSE
  <2>1. /\ success \in BOOLEAN /\ directory \in [Names -> Contents] /\ ~success
        /\ \A name \in Names : directory[name].call <= calls
        /\ Output(Current) \notin disturbed =>
             \A name \in Names \ Inputs : directory[name] # Absent => directory[name].call = calls
        /\ directory["record"] = Absent
        /\ \A name \in Artifacts : directory[name] = disk[Output(Current)][name]
        /\ WriteRecord(success, directory)
    BY <1>1, <1>3, <1>d, <1>e DEF Inv, FilesOfCalls
  <2> HIDE DEF directory, success
  <2> QED BY <1>g, <1>i, <2>1, RecordWritten
<1>4. CASE /\ flow' \in {FlowStarts(Package(Current)), FlowRefused}
           /\ phase' = "flow"
           /\ UNCHANGED <<disk, calls, design, todo, failures, reply, snapshot, survivors>>
  <2>0. PICK i \in Instances : i = Current
    BY <1>d
  <2>1. IsPackage(Package(i))
    BY TwoDirectories
  <2> DEFINE steps == Package(i).steps
             g == [NoFlow EXCEPT !.steps = steps]
             r == [NoFlow EXCEPT !.failed = TRUE]
  <2>n. /\ NoFlow \in Flows /\ NoFlow.emitted = Absent /\ NoFlow.process = FALSE
        /\ NoFlow.over = FALSE /\ NoFlow.failed = FALSE
    BY Files DEF NoFlow, Flows
  <2>2. \/ /\ flow' \in Flows /\ flow'.steps = Package(i).steps /\ flow'.next = 1
           /\ flow'.process = FALSE /\ flow'.over = FALSE /\ flow'.emitted = Absent
        \/ /\ flow' \in Flows /\ flow'.failed = TRUE /\ flow'.over = TRUE /\ flow'.process = FALSE
           /\ flow'.emitted = Absent /\ flow'.steps = <<>>
    <3>1. CASE flow' = FlowStarts(Package(i))
      <4>1. steps \in Seq(StepKinds)
        BY <2>1 DEF IsPackage
      <4>2. flow' = [g EXCEPT !.next = 1]
        BY <3>1 DEF FlowStarts
      <4> HIDE DEF steps
      <4>3. /\ g \in Flows /\ g.steps = steps /\ g.process = FALSE /\ g.over = FALSE
            /\ g.emitted = Absent
        BY <2>n, <4>1 DEF Flows
      <4> HIDE DEF g
      <4>4. /\ flow' \in Flows /\ flow'.next = 1 /\ flow'.steps = g.steps
            /\ flow'.process = g.process /\ flow'.over = g.over /\ flow'.emitted = g.emitted
        BY <4>2, <4>3 DEF Flows
      <4> QED BY <4>3, <4>4 DEF steps
    <3>2. CASE flow' = FlowRefused
      <4>1. flow' = [r EXCEPT !.over = TRUE]
        BY <3>2 DEF FlowRefused
      <4>2. /\ r \in Flows /\ r.failed = TRUE /\ r.process = FALSE /\ r.emitted = Absent
            /\ r.steps = <<>>
        BY <2>n DEF Flows, NoFlow
      <4> HIDE DEF r
      <4>3. /\ flow' \in Flows /\ flow'.over = TRUE /\ flow'.failed = r.failed
            /\ flow'.process = r.process /\ flow'.emitted = r.emitted /\ flow'.steps = r.steps
        BY <4>1, <4>2 DEF Flows
      <4> QED BY <4>2, <4>3
    <3> QED BY <1>4, <2>0, <3>1, <3>2
  <2>3. FilesOfFlow(i)'
    <3>1. Absent.by # "emitter"
      BY Files
    <3> QED BY <1>1, <1>4, <1>d, <1>e, <1>g, <2>0, <3>1 DEF FilesOfFlow
  <2>4. \A n \in DOMAIN flow'.steps : ~(n < flow'.next)
    <3>1. flow'.steps \in Seq(StepKinds)
      BY <2>2 DEF Flows
    <3>2. DOMAIN flow'.steps = 1 .. Len(flow'.steps) /\ Len(flow'.steps) \in Nat
      BY <3>1, LenProperties
    <3>3. CASE flow'.next = 1
      BY <3>2, <3>3
    <3>4. CASE flow'.steps = <<>>
      <4>1. Len(flow'.steps) = 0
        BY <3>4
      <4> QED BY <3>2, <4>1
    <3> QED BY <2>2, <3>3, <3>4
  <2>5. Progress(i)' /\ ManifestEmitted(i)' /\ Collected(i)'
    BY <2>2, <2>4 DEF Progress, ManifestEmitted, Collected
  <2>6. InFlow'
    <3>1. FlowState(i)'
      BY <2>3, <2>5 DEF FlowState
    <3>2. Current' = i
      BY <1>4, <2>0 DEF Current
    <3> QED BY <3>1, <3>2 DEF InFlow
  <2>7. OutputEmpty' /\ flow' \in Flows /\ SurvivorsKnown' /\ ProcessInFlow'
    BY <1>4, <2>2 DEF OutputEmpty, Inv, SurvivorsKnown, ProcessInFlow, Output, Run
  <2>8. /\ disk' \in [Places -> [Names -> Contents]] /\ FilesOfCalls'
        /\ \A place \in Places : disk'[place] = disk[place]
        /\ disk'[Output(Current)]["record"].call # calls
        /\ FreshAfter(Output(Current))
    BY <1>4, <1>g, <1>i, SameDisk
  <2>9. \A place \in Places \ {Output(Current), Run(Current)} :
          place \in disturbed => place \in disturbed'
    BY <1>g
  <2> HIDE DEF steps, g, r
  <2> QED BY <1>4, <1>i, <2>6, <2>7, <2>8, <2>9, OthersKept
<1> QED BY <1>2, <1>3, <1>4 DEF RunCleared

(* The flow goes on.                                                       *)
LEMMA FlowGoesOn ==
  ASSUME Inv, phase = "flow", NEW i, i = Current, StepOfFlow(i),
         UNCHANGED <<phase, calls, design, todo, failures, reply, snapshot, disturbed>>,
         survivors' \in {survivors, WithSurvivor}
  PROVE  Inv'
<1>i. Working /\ TypeInv /\ InCall /\ calls > 0 /\ 0 <= calls
  BY FlowRunnerAssumption DEF Inv, Working, InCall, TypeInv
<1>1. i \in Instances /\ FlowState(i) /\ Output(i) \in Places
  BY <1>i, AtWork DEF Inv, InFlow
<1>2. /\ flow' \in Flows /\ FlowState(i)'
      /\ disk' \in [Places -> [Names -> Contents]]
      /\ \A place \in Places \ {Output(i), Run(i)} : disk'[place] = disk[place]
      /\ \A place \in Places, name \in Names :
           \/ disk'[place][name] \in {disk[place][name], Absent}
           \/ disk'[place][name].call = calls
  BY <1>i, <1>1, FlowKeeps
<1>3. InFlow' /\ OutputEmpty' /\ SurvivorsKnown' /\ ProcessInFlow'
  <2>1. Current' = i
    BY DEF Current
  <2>2. SurvivorsKnown'
    BY <1>i, SurvivorJoins
  <2> QED BY <1>2, <2>1, <2>2 DEF InFlow, OutputEmpty, ProcessInFlow
<1>4. /\ \A place \in {Output(i), Run(i)} \ disturbed, name \in Names :
           disk'[place][name] # Absent => disk'[place][name].call = calls
      /\ disk'[Output(i)]["record"] = Absent
  BY <1>2 DEF FlowState, FilesOfFlow
<1>5. FilesOfCalls'
  <2> SUFFICES ASSUME NEW place \in Places, NEW name \in Names
               PROVE  disk'[place][name].call <= calls
    BY DEF FilesOfCalls
  <2>1. disk[place][name].call <= calls /\ Absent.call <= calls /\ calls <= calls
    BY <1>i, Files DEF Inv, FilesOfCalls, TypeInv
  <2> QED BY <1>2, <2>1
<1>6. disk'[Output(i)]["record"].call # calls
  BY <1>i, <1>4, Files
<1>7. FreshAfter(Output(Current))
  BY <1>4 DEF FreshAfter
<1> QED BY <1>2, <1>3, <1>4, <1>5, <1>6, <1>7, <1>i, OthersKept

(* What the copy of the inputs leaves in the output directory, and what it *)
(* is when the copy succeeds.                                              *)
LEMMA CopiedDirectory ==
  ASSUME Inv, phase = "flow", NEW copy \in Materialized
  PROVE  /\ copy[1] \in BOOLEAN /\ copy[2] \in [Names -> Contents]
         /\ \A name \in Names : copy[2][name].call <= calls
         /\ Output(Current) \notin disturbed =>
              \A name \in Names \ Inputs : copy[2][name] # Absent => copy[2][name].call = calls
         /\ Undisturbed(Current) =>
              \A name \in Names : copy[2][name] # Absent => copy[2][name].call = calls
         /\ copy[2]["record"] = Absent
         /\ \A name \in Artifacts : copy[2][name] = disk[Output(Current)][name]
         /\ copy[1] =>
              \/ ~RunHasInputs /\ copy[2] = disk[Output(Current)]
              \/ /\ disk[Run(Current)]["manifest"] # Absent
                 /\ copy[2]["manifest"] = disk[Run(Current)]["manifest"]
<1>i. Working /\ TypeInv /\ InCall /\ FilesOfFlow(Current)
  BY DEF Inv, Working, InFlow, FlowState
<1>d. /\ Output(Current) \in Places /\ Run(Current) \in Places
      /\ disk \in [Places -> [Names -> Contents]]
  BY <1>i, AtWork DEF TypeInv
<1>f. /\ \A place \in {Output(Current), Run(Current)} \ disturbed, name \in Names :
           disk[place][name] # Absent => disk[place][name].call = calls
      /\ disk[Output(Current)]["record"] = Absent
  BY <1>i DEF FilesOfFlow
<1>c. /\ \A place \in Places, name \in Names : disk[place][name].call <= calls
      /\ Absent.call <= calls
  BY Files, FlowRunnerAssumption DEF Inv, FilesOfCalls, TypeInv
<1> DEFINE Fits(directory) ==
             /\ directory \in [Names -> Contents]
             /\ \A name \in Names : directory[name].call <= calls
             /\ Output(Current) \notin disturbed =>
                  \A name \in Names \ Inputs :
                    directory[name] # Absent => directory[name].call = calls
             /\ Undisturbed(Current) =>
                  \A name \in Names : directory[name] # Absent => directory[name].call = calls
             /\ directory["record"] = Absent
             /\ \A name \in Artifacts : directory[name] = disk[Output(Current)][name]
<1>1. Fits(disk[Output(Current)])
  BY <1>c, <1>d, <1>f DEF Undisturbed
<1>2. \A names : Fits(Copied(names))
  <2> TAKE names
  <2> DEFINE directory == Copied(names)
  <2>1. /\ directory \in [Names -> Contents]
        /\ \A name \in Names : directory[name] = disk[Output(Current)][name]
                               \/ directory[name] = disk[Run(Current)][name]
                               \/ directory[name] = Absent
        /\ \A name \in Names \ Inputs : directory[name] = disk[Output(Current)][name]
    BY <1>d, Files DEF Copied
  <2> HIDE DEF directory
  <2>2. Artifacts \subseteq Names \ Inputs /\ "record" \in Names \ Inputs
    BY NamesApart
  <2>3. Undisturbed(Current) =>
          \A name \in Names : directory[name] # Absent => directory[name].call = calls
    BY <1>f, <2>1 DEF Undisturbed
  <2>4. /\ \A name \in Names : directory[name].call <= calls
        /\ \A name \in Artifacts : directory[name] = disk[Output(Current)][name]
        /\ directory["record"] = Absent
    BY <1>c, <1>d, <1>f, <2>1, <2>2
  <2>5. Output(Current) \notin disturbed =>
          \A name \in Names \ Inputs :
            directory[name] # Absent => directory[name].call = calls
    BY <1>f, <2>1
  <2>6. Fits(directory)
    BY <2>1, <2>3, <2>4, <2>5
  <2> QED BY <2>6 DEF directory
<1> HIDE DEF Fits
<1>3. CASE copy = <<RunHasInputs => "manifest" \in Present(Run(Current)),
                    IF RunHasInputs /\ "manifest" \in Present(Run(Current))
                      THEN Copied(Inputs) ELSE disk[Output(Current)]>>
  <2>1. RunHasInputs \in BOOLEAN
    BY DEF RunHasInputs
  <2>2. /\ copy[1] = (RunHasInputs => "manifest" \in Present(Run(Current)))
        /\ copy[2] = IF RunHasInputs /\ "manifest" \in Present(Run(Current))
                       THEN Copied(Inputs) ELSE disk[Output(Current)]
    BY <1>3
  <2>3. Copied(Inputs)["manifest"] = disk[Run(Current)]["manifest"]
    BY NamesApart DEF Copied
  <2>4. "manifest" \in Present(Run(Current)) => disk[Run(Current)]["manifest"] # Absent
    BY DEF Present
  <2>5. Fits(copy[2])
    BY <1>1, <1>2, <2>2
  <2>6. copy[1] \in BOOLEAN
    BY <2>2
  <2>7. copy[1] =>
          \/ ~RunHasInputs /\ copy[2] = disk[Output(Current)]
          \/ /\ disk[Run(Current)]["manifest"] # Absent
             /\ copy[2]["manifest"] = disk[Run(Current)]["manifest"]
    BY <2>2, <2>3, <2>4
  <2> QED BY <2>5, <2>6, <2>7 DEF Fits
<1>4. CASE copy[1] = FALSE /\ (copy[2] = disk[Output(Current)] \/ \E names : copy[2] = Copied(names))
  <2>1. Fits(copy[2])
    BY <1>1, <1>2, <1>4
  <2> QED BY <1>4, <2>1 DEF Fits
<1>5. \A directory : copy = <<FALSE, directory>> => copy[1] = FALSE /\ copy[2] = directory
  OBVIOUS
<1> QED BY <1>3, <1>4, <1>5 DEF Materialized

(* The flow is over: the inputs are copied and the record is written.      *)
LEMMA FinishInstanceKeeps ==
  ASSUME Inv, FinishInstance
  PROVE  Inv'
<1>1. phase = "flow" /\ flow.over
  BY DEF FinishInstance
<1>2. PICK copy \in Materialized :
        WriteRecord(~flow.failed /\ copy[1] /\ ValidInputs(copy[2]), copy[2])
  BY DEF FinishInstance
<1>u. disturbed' = disturbed
  BY DEF FinishInstance
<1>i. Working /\ TypeInv /\ InCall /\ FlowState(Current)
  BY <1>1 DEF Inv, Working, InFlow
<1>d. /\ Output(Current) \in Places /\ Run(Current) \in Places /\ Current \in Instances
      /\ disk \in [Places -> [Names -> Contents]]
  BY <1>i, AtWork DEF TypeInv
<1> DEFINE success == ~flow.failed /\ copy[1] /\ ValidInputs(copy[2])
           directory == copy[2]
<1>3. /\ directory \in [Names -> Contents] /\ directory["record"] = Absent
      /\ \A name \in Names : directory[name].call <= calls
      /\ Output(Current) \notin disturbed =>
           \A name \in Names \ Inputs : directory[name] # Absent => directory[name].call = calls
      /\ Undisturbed(Current) =>
           \A name \in Names : directory[name] # Absent => directory[name].call = calls
      /\ \A name \in Artifacts : directory[name] = disk[Output(Current)][name]
  BY <1>1, CopiedDirectory
<1>4. success \in BOOLEAN
  BY DEF ValidInputs
<1>5. success => /\ flow.steps = Package(Current).steps
                 /\ \A n \in DOMAIN flow.steps : n < flow.next
  <2> SUFFICES ASSUME ~flow.failed
               PROVE  /\ flow.steps = Package(Current).steps
                      /\ \A n \in DOMAIN flow.steps : n < flow.next
    OBVIOUS
  <2>1. flow.steps = Package(Current).steps /\ flow.next = Len(flow.steps) + 1
    BY <1>1, <1>i DEF FlowState, Progress
  <2>2. flow.steps \in Seq(StepKinds)
    BY <1>i DEF TypeInv, Flows
  <2>3. DOMAIN flow.steps = 1 .. Len(flow.steps) /\ Len(flow.steps) \in Nat
    BY <2>2, LenProperties
  <2> QED BY <2>1, <2>3
<1>6. success /\ CollectsLast(Current) /\ Output(Current) \notin disturbed =>
        Package(Current).required \subseteq Present(Output(Current))
  BY <1>i, <1>5 DEF FlowState, Collected, LastCollection, CollectsLast
<1>7. success /\ Undisturbed(Current) =>
        /\ directory["manifest"].call = calls /\ directory["manifest"].good
        /\ Emits(Current) => directory["manifest"].by = "emitter"
  <2> SUFFICES ASSUME ~flow.failed, copy[1], ValidInputs(directory), Undisturbed(Current)
               PROVE  /\ directory["manifest"].call = calls /\ directory["manifest"].good
                      /\ Emits(Current) => directory["manifest"].by = "emitter"
    OBVIOUS
  <2> HIDE DEF directory
  <2>n. "manifest" \in Names
    BY NamesApart
  <2>1. directory["manifest"] # Absent
    BY Files DEF ValidInputs
  <2>2. directory["manifest"].call = calls
    BY <1>3, <2>1, <2>n
  <2>3. \/ ~RunHasInputs /\ directory = disk[Output(Current)]
        \/ directory["manifest"] = disk[Run(Current)]["manifest"]
    BY <1>1, CopiedDirectory DEF directory
  <2>4. CASE flow.emitted # Absent
    <3>1. RunHasInputs
      BY <2>4 DEF RunHasInputs
    <3>2. /\ disk[Run(Current)]["manifest"] = flow.emitted
          /\ flow.emitted.by = "emitter" /\ flow.emitted.good
      BY <1>1, <1>i, <2>4 DEF FlowState, ManifestEmitted, Undisturbed
    <3> QED BY <2>2, <2>3, <3>1, <3>2
  <2>5. CASE flow.emitted = Absent
    <3>1. directory["manifest"].by # "emitter"
      BY <1>i, <2>3, <2>5 DEF FlowState, FilesOfFlow
    <3>2. directory["manifest"].good
      BY <3>1 DEF ValidInputs
    <3>3. ~Emits(Current)
      BY <1>i, <1>4, <1>5, <2>5 DEF FlowState, ManifestEmitted, Emits, directory
    <3> QED BY <2>2, <3>2, <3>3
  <2> QED BY <2>4, <2>5
<1>8. WriteRecord(success, directory)
  BY <1>2
<1>9. success /\ disturbed' \cap {Output(Current), Run(Current)} = {} =>
        /\ directory["manifest"].call = calls /\ directory["manifest"].good
        /\ Emits(Current) => directory["manifest"].by = "emitter"
  BY <1>7, <1>u DEF Undisturbed
<1> HIDE DEF success, directory
<1> QED BY <1>3, <1>4, <1>6, <1>8, <1>9, <1>i, <1>u, RecordWritten

(* A process left at work writes: it leaves the records alone, and what it *)
(* writes to is disturbed.                                                 *)
LEMMA SurvivorWritesOneFile ==
  ASSUME Inv, NEW s \in survivors, SurvivorWrites(s)
  PROVE  /\ disk' \in [Places -> [Names -> Contents]]
         /\ \A place \in Places \ {s.out, s.run} : disk'[place] = disk[place]
         /\ \A place \in Places, name \in Names :
              \/ disk'[place][name] = disk[place][name]
              \/ /\ disk'[place][name].call <= calls
                 /\ disk'[place][name].by # "emitter" /\ name # "record"
                 /\ place \in disturbed'
<1>1. PICK i \in Instances : s.out = Output(i) /\ s.run = Run(i)
  BY DEF Inv, SurvivorsKnown
<1>2. /\ s.out \in Places /\ s.run \in Places /\ s.run # s.out
      /\ s.call \in 0 .. MaxCalls /\ s.call <= calls /\ TypeInv /\ 0 <= calls
  BY <1>1, TwoDirectories, FlowRunnerAssumption DEF Inv, SurvivorsKnown, TypeInv
<1>3. Writes(s.run, s.out, s.call) /\ disturbed' = disturbed \cup {s.run, s.out}
  BY DEF SurvivorWrites
<1> DEFINE out == s.out  run == s.run  call == s.call
<1>4. PICK place \in {out, run}, name \in Names, file \in Contents :
        /\ disk' = [disk EXCEPT ![place][name] = file]
        /\ ProcessFile(file, call)
        /\ name # "record"
  <2>1. run \in Places /\ out \in Places /\ run # out /\ call \in 0 .. MaxCalls
        /\ Writes(run, out, call)
    BY <1>2, <1>3
  <2> HIDE DEF out, run, call
  <2> QED BY <1>2, <2>1, OneFileWritten
<1>5. disk \in [Places -> [Names -> Contents]]
  BY <1>2 DEF TypeInv
<1>6. /\ disk' \in [Places -> [Names -> Contents]]
      /\ \A p \in Places \ {place} : disk'[p] = disk[p]
      /\ \A m \in Names : disk'[place][m] = IF m = name THEN file ELSE disk[place][m]
  BY <1>2, <1>4, <1>5
<1>7. file.call <= calls /\ file.by # "emitter"
  <2>1. Absent.call = 0 /\ Absent.by = "nobody"
    BY Files
  <2> QED BY <1>2, <1>4, <2>1 DEF ProcessFile
<1> QED BY <1>2, <1>3, <1>4, <1>6, <1>7

LEMMA SurvivorKeeps ==
  ASSUME Inv, NEW s \in survivors, SurvivorWrites(s)
  PROVE  Inv'
<1>1. /\ UNCHANGED <<flow, phase, calls, design, todo, failures, reply, snapshot, survivors>>
      /\ \A place : place \notin disturbed' => place \notin disturbed
  BY DEF SurvivorWrites
<1>2. /\ disk' \in [Places -> [Names -> Contents]]
      /\ \A place \in Places : place \notin disturbed' => disk'[place] = disk[place]
      /\ \A place \in Places, name \in Names :
           \/ disk'[place][name] = disk[place][name]
           \/ /\ disk'[place][name].call <= calls
              /\ disk'[place][name].by # "emitter" /\ name # "record"
  BY SurvivorWritesOneFile DEF SurvivorWrites
<1>n. "record" \in Names /\ "manifest" \in Names
  BY NamesApart
<1>r. \A i \in Instances : /\ disk'[Output(i)]["record"] = disk[Output(i)]["record"]
                          /\ Output(i) \in Places /\ Run(i) \in Places
  BY <1>2, <1>n, TwoDirectories
<1>3. TypeInv' /\ InCall' /\ SurvivorsKnown' /\ ProcessInFlow'
  BY <1>1, <1>2 DEF Inv, TypeInv, InCall, Tried, SurvivorsKnown, ProcessInFlow, Output, Run
<1>4. FilesOfCalls'
  BY <1>1, <1>2 DEF Inv, FilesOfCalls
<1>5. ASSUME phase \in {"clearRun", "flow"}
      PROVE  Current \in Instances
  BY <1>5, AtWork DEF Inv, Working
<1>6. OutputEmpty'
  <2> SUFFICES ASSUME phase = "clearRun"
               PROVE  /\ disk'[Output(Current)]["record"] = Absent
                      /\ disk'[Output(Current)]["manifest"].by # "emitter"
                      /\ Output(Current) \notin disturbed' => disk'[Output(Current)] = disk[Output(Current)]
    BY <1>1 DEF Inv, OutputEmpty, Present, Output, Current
  <2> QED BY <1>2, <1>5, <1>n, <1>r DEF Inv, OutputEmpty
<1>7. InFlow'
  <2> SUFFICES ASSUME phase = "flow"
               PROVE  InFlow'
    BY <1>1 DEF InFlow
  <2>1. PICK i \in Instances : i = Current
    BY <1>5
  <2>2. FlowState(i) /\ Current' = i
    BY <1>1, <2>1 DEF Inv, InFlow, Current
  <2>3. FilesOfFlow(i)'
    BY <1>1, <1>2, <1>n, <1>r, <2>2 DEF FlowState, FilesOfFlow
  <2>4. Progress(i)'
    BY <1>1, <2>2 DEF FlowState, Progress
  <2>5. ManifestEmitted(i)'
    BY <1>1, <1>2, <1>r, <2>2 DEF FlowState, ManifestEmitted
  <2>6. Collected(i)'
    <3>1. Output(i) \notin disturbed' => disk'[Output(i)] = disk[Output(i)]
      BY <1>2, <1>r
    <3> QED BY <1>1, <2>2, <3>1 DEF FlowState, Collected, LastCollection, Present
  <2> QED BY <2>2, <2>3, <2>4, <2>5, <2>6 DEF InFlow, FlowState
<1>8. \A i \in Instances : Delivered(i) => Delivered(i)'
  <2> TAKE i \in Instances
  <2>1. Output(i) \notin disturbed' => disk'[Output(i)] = disk[Output(i)]
    BY <1>2, <1>r
  <2> QED BY <1>1, <1>r, <2>1 DEF Delivered, CollectsLast, Output
<1>d. \A n \in DOMAIN design : design[n] \in Instances
  BY ElementOfSeq, LenProperties DEF Inv, TypeInv
<1>9. DeliveredInv'
  <2> SUFFICES ASSUME phase # "idle", NEW n \in 1 .. Tried, design[n] \notin failures
               PROVE  Delivered(design[n])'
    BY <1>1 DEF DeliveredInv, Tried
  <2>1. n \in DOMAIN design
    <3>1. Len(todo) \in Nat /\ Len(design) \in Nat /\ DOMAIN design = 1 .. Len(design)
      BY LenProperties DEF Inv, TypeInv
    <3> QED BY <3>1 DEF Tried
  <2>2. PICK i \in Instances : i = design[n]
    BY <1>d, <2>1
  <2>3. Delivered(i)'
    BY <1>8, <2>2 DEF Inv, DeliveredInv
  <2> QED BY <1>1, <2>2, <2>3 DEF Delivered
<1>10. PendingInv'
  <2>1. \A m \in DOMAIN todo : todo[m] \in Instances
    BY ElementOfSeq, LenProperties DEF Inv, TypeInv
  <2> QED BY <1>1, <1>r, <2>1 DEF Inv, PendingInv, Output
<1>11. RecordsAreFresh'
  BY <1>1, <1>2, <1>r DEF Inv, RecordsAreFresh, Present, Output
<1>12. InputsAreEmitted'
  <2> SUFFICES ASSUME NEW i \in Instances, Undisturbed(i)'
               PROVE  Undisturbed(i) /\ disk'[Output(i)] = disk[Output(i)]
    BY <1>1, <1>d DEF Inv, InputsAreEmitted, Undisturbed, Output, Run, Emits
  <2> QED BY <1>1, <1>2, <1>r DEF Undisturbed, Output, Run
<1>13. SuccessIsDelivered'
  <2> SUFFICES ASSUME reply = "ok", NEW n \in DOMAIN design
               PROVE  Delivered(design[n])'
    BY <1>1 DEF Inv, SuccessIsDelivered, Output
  <2>1. PICK i \in Instances : i = design[n]
    BY <1>d
  <2>2. Delivered(i)'
    BY <1>8, <2>1 DEF Inv, SuccessIsDelivered
  <2> QED BY <1>1, <2>1, <2>2 DEF Delivered
<1> QED BY <1>3, <1>4, <1>6, <1>7, <1>9, <1>10, <1>11, <1>12, <1>13 DEF Inv

-----------------------------------------------------------------------------
LEMMA InitInv == Init => Inv
<1> SUFFICES ASSUME Init
             PROVE  Inv
  OBVIOUS
<1>1. /\ disk = [place \in Places |-> EmptyDirectory] /\ flow = NoFlow /\ phase = "idle"
      /\ calls = 0 /\ design = <<>> /\ todo = <<>> /\ reply = "none" /\ survivors = {}
  BY DEF Init
<1>2. /\ disk \in [Places -> [Names -> Contents]]
      /\ \A place \in Places, name \in Names : disk[place][name] = Absent
  BY <1>1, Files DEF EmptyDirectory
<1>3. NoFlow \in Flows
  BY Files DEF NoFlow, Flows
<1>4. TypeInv
  BY <1>1, <1>2, <1>3, FlowRunnerAssumption DEF TypeInv
<1>5. FilesOfCalls
  BY <1>1, <1>2, Files DEF FilesOfCalls
<1>6. RecordsAreFresh
  <2>1. \A i \in Instances : disk[Output(i)]["record"] = Absent
    BY <1>2, NamesApart, TwoDirectories
  <2> QED BY <2>1 DEF RecordsAreFresh
<1>7. InputsAreEmitted
  <2>1. DOMAIN design = {}
    BY <1>1
  <2> QED BY <2>1 DEF InputsAreEmitted
<1>8. InCall /\ OutputEmpty /\ InFlow /\ DeliveredInv /\ PendingInv /\ SuccessIsDelivered
  BY <1>1 DEF InCall, OutputEmpty, InFlow, DeliveredInv, PendingInv, SuccessIsDelivered
<1>9. SurvivorsKnown /\ ProcessInFlow
  BY <1>1 DEF SurvivorsKnown, ProcessInFlow, NoFlow
<1> QED BY <1>4, <1>5, <1>6, <1>7, <1>8, <1>9 DEF Inv

(* Every step keeps the invariant.                                         *)
LEMMA StepInv == Inv /\ [Next]_genVars => Inv'
<1> SUFFICES ASSUME Inv, [Next]_genVars
             PROVE  Inv'
  OBVIOUS
<1>1. ASSUME NEW instances \in Designs, Generate(instances)
      PROVE  Inv'
  BY <1>1, GenerateKeeps
<1>2. ASSUME NEW instances \in Designs, RefuseGenerate(instances)
      PROVE  Inv'
  BY <1>2, RefuseKeeps
<1>3. CASE RemoveFile("clearOutput", Output(Current))
  <2> DEFINE where == "clearOutput"
             place == Output(Current)
  <2>1. /\ where \in {"clearOutput", "clearRun"} /\ where # "clearRun"
        /\ place \in {Output(Current), Run(Current)} /\ RemoveFile(where, place)
    BY <1>3
  <2> HIDE DEF where, place
  <2> QED BY <2>1, RemoveFileKeeps
<1>4. CASE RemoveFile("clearRun", Run(Current))
  <2> DEFINE where == "clearRun"
             place == Run(Current)
  <2>1. /\ where \in {"clearOutput", "clearRun"} /\ place = Run(Current)
        /\ place \in {Output(Current), Run(Current)} /\ RemoveFile(where, place)
    BY <1>4
  <2> HIDE DEF where, place
  <2> QED BY <2>1, RemoveFileKeeps
<1>5. ASSUME NEW where \in {"clearOutput", "clearRun"}, RemoveFails(where)
      PROVE  Inv'
  BY <1>5, RemoveFailsKeeps
<1>6. CASE OutputCleared
  BY <1>6, OutputClearedKeeps
<1>7. CASE RunCleared
  BY <1>7, RunClearedKeeps
<1>8. CASE FlowSteps \/ ProcessSteps \/ DeadlineOfStep
  <2>1. PICK i : i = Current
    OBVIOUS
  <2>2. /\ phase = "flow" /\ StepOfFlow(i)
        /\ UNCHANGED <<phase, calls, design, todo, failures, reply, snapshot, disturbed>>
        /\ survivors' \in {survivors, WithSurvivor}
    BY <1>8, <2>1 DEF FlowSteps, ProcessSteps, DeadlineOfStep, StepOfFlow
  <2> QED BY <2>1, <2>2, FlowGoesOn
<1>9. CASE FinishInstance
  BY <1>9, FinishInstanceKeeps
<1>10. CASE FinishGenerate
  BY <1>10, FinishGenerateKeeps
<1>11. CASE Crash
  BY <1>11, CrashKeeps
<1>13. ASSUME NEW s \in survivors, SurvivorWrites(s)
       PROVE  Inv'
  BY <1>13, SurvivorKeeps
<1>12. CASE UNCHANGED genVars
  <2>1. UNCHANGED <<disk, flow, phase, calls, design, todo, failures, reply, snapshot,
                    survivors, disturbed>>
    BY <1>12 DEF genVars
  <2>2. /\ TypeInv' /\ FilesOfCalls' /\ InCall' /\ OutputEmpty' /\ PendingInv'
        /\ SurvivorsKnown' /\ ProcessInFlow'
    BY <2>1 DEF Inv, TypeInv, FilesOfCalls, InCall, Tried, OutputEmpty, Present, Output, Run,
                Current, PendingInv, SurvivorsKnown, ProcessInFlow
  <2>3. InFlow'
    BY <2>1 DEF Inv, InFlow, FlowState, FilesOfFlow, Progress, ManifestEmitted, Collected,
                LastCollection, Present, Output, Run, Current
  <2>4. DeliveredInv' /\ SuccessIsDelivered'
    BY <2>1 DEF Inv, DeliveredInv, SuccessIsDelivered, Delivered, CollectsLast, Tried, Output
  <2>5. RecordsAreFresh' /\ InputsAreEmitted'
    BY <2>1 DEF Inv, RecordsAreFresh, InputsAreEmitted, Emits, Undisturbed, Present, Output, Run
  <2> QED BY <2>2, <2>3, <2>4, <2>5 DEF Inv
<1> QED BY <1>1, <1>2, <1>3, <1>4, <1>5, <1>6, <1>7, <1>8, <1>9, <1>10, <1>11, <1>12, <1>13
        DEF Next, RunnerStep, Clearing, ClearingEnds

(* The inductive invariant of generate().                                  *)
LEMMA Invariant == Spec => []Inv
BY InitInv, StepInv, PTL DEF Spec

(* RecordsAreFresh for any packages: whatever failed and wherever the      *)
(* editor died, a record never lies beside a file of another call, unless  *)
(* a process left at work has written there since the clearing.            *)
THEOREM RecordsAlwaysFresh == Spec => []RecordsAreFresh
<1>1. Inv => RecordsAreFresh
  BY DEF Inv
<1> QED BY <1>1, Invariant, PTL

(* SuccessIsDelivered for any design: "ok" means that every instance has   *)
(* the record and the required artifacts of this call in a directory of    *)
(* its own, the artifacts as long as no process left at work writes there, *)
(* and that the snapshot is of this design.                                *)
THEOREM SuccessAlwaysDelivered == Spec => []SuccessIsDelivered
<1>1. Inv => SuccessIsDelivered
  BY DEF Inv
<1> QED BY <1>1, Invariant, PTL

(* InputsAreEmitted for any flow and any captured files: the manifest      *)
(* beside the record of a success is the emitter's own, of the same call,  *)
(* unless a process left at work has written there since.                  *)
THEOREM InputsAlwaysEmitted == Spec => []InputsAreEmitted
<1>1. Inv => InputsAreEmitted
  BY DEF Inv
<1> QED BY <1>1, Invariant, PTL

(* A step of generate() changes only the two directories of the instance   *)
(* it is working on, and a process left at work those it knows.            *)
LEMMA StepStaysAtHome ==
  ASSUME Inv, Next, NEW place \in Places, disk'[place] # disk[place]
  PROVE  \/ todo # <<>> /\ place \in {Output(Current), Run(Current)}
         \/ \E s \in survivors : SurvivorWrites(s) /\ place \in {s.out, s.run}
<1>s. CASE \E s \in survivors : SurvivorWrites(s)
  BY <1>s, SurvivorWritesOneFile
<1> SUFFICES ASSUME ~\E s \in survivors : SurvivorWrites(s)
             PROVE  todo # <<>> /\ place \in {Output(Current), Run(Current)}
  BY <1>s
<1>1. disk' # disk
  OBVIOUS
<1>2. Working
  BY <1>1 DEF Next, RunnerStep, Clearing, ClearingEnds, Generate, RefuseGenerate, RemoveFile, RemoveFails,
              OutputCleared, RunCleared, FlowSteps, ProcessSteps, DeadlineOfStep,
              FinishInstance, FinishGenerate, Crash, Working
<1>3. /\ todo # <<>> /\ Output(Current) \in Places /\ Run(Current) \in Places
      /\ Current \in Instances /\ disk \in [Places -> [Names -> Contents]]
  BY <1>2, AtWork DEF Inv, TypeInv
<1>4. \A where, there : RemoveFile(where, there) => (disk'[place] = disk[place] \/ place = there)
  <2> SUFFICES ASSUME NEW where, NEW there, RemoveFile(where, there), place # there
               PROVE  disk'[place] = disk[place]
    OBVIOUS
  <2>1. PICK name \in Present(there) : disk' = [disk EXCEPT ![there][name] = Absent]
    BY DEF RemoveFile
  <2> QED BY <1>3, <2>1
<1>5. \A success, directory : WriteRecord(success, directory) =>
                                (disk'[place] = disk[place] \/ place = Output(Current))
  BY <1>3 DEF WriteRecord
<1>6. FlowSteps \/ ProcessSteps \/ DeadlineOfStep => place \in {Output(Current), Run(Current)}
  <2> SUFFICES ASSUME FlowSteps \/ ProcessSteps \/ DeadlineOfStep
               PROVE  place \in {Output(Current), Run(Current)}
    OBVIOUS
  <2>1. PICK i : i = Current
    OBVIOUS
  <2>2. phase = "flow" /\ StepOfFlow(i) /\ calls' = calls /\ disturbed' = disturbed
    BY <2>1 DEF FlowSteps, ProcessSteps, DeadlineOfStep, StepOfFlow
  <2>3. FlowState(i) /\ i \in Instances
    BY <1>3, <2>1, <2>2 DEF Inv, InFlow
  <2> QED BY <2>1, <2>2, <2>3, FlowKeeps DEF Inv
<1> QED BY <1>1, <1>3, <1>4, <1>5, <1>6
        DEF Next, RunnerStep, Clearing, ClearingEnds, Generate, RefuseGenerate, RemoveFails, OutputCleared,
            RunCleared, FinishInstance, FinishGenerate, Crash

(* OnlyOwnDirectories for any packages: generating one instance leaves the *)
(* directories of the others alone, whatever its process writes, and those *)
(* left at work keep to theirs.                                            *)
THEOREM OnlyOwnDirectoriesTouched == Spec => OnlyOwnDirectories
<1>1. Inv /\ [Next]_genVars =>
        [\A place \in Places : disk'[place] # disk[place] =>
            \/ todo # <<>> /\ place \in {Output(Current), Run(Current)}
            \/ \E s \in survivors : SurvivorWrites(s) /\ place \in {s.out, s.run}]_genVars
  BY StepStaysAtHome
<1> QED BY <1>1, Invariant, PTL DEF Spec, OnlyOwnDirectories

=============================================================================
