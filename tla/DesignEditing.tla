--------------------------- MODULE DesignEditing ----------------------------
(***************************************************************************)
(* DesignEditingService: the design being edited and the snapshots undo    *)
(* and redo return to.  A patch is applied operation by operation to a     *)
(* copy; the copy becomes the design only if every operation applied and   *)
(* the result is valid.  While patch # Idle, applyPatch is running.        *)
(***************************************************************************)
EXTENDS ProjectPatch

CONSTANTS
  Patches,      \* the patches clients send: non-empty sequences of operations
  Seeds,        \* the designs the project is opened with
  Idle,         \* no patch is being applied
  MaxHistory    \* bound of the model on the snapshots kept; the code has none

IsSequence(s) == s \in Seq(ToSet(s))

(* The form of what the operations take apart: components and their graphs.*)
IsComponent(component) ==
  LET graph == component.graph
  IN  /\ component = [id |-> component.id, package |-> component.package,
                      config |-> component.config, graph |-> graph]
      /\ graph = [objects |-> graph.objects, relationships |-> graph.relationships]
      /\ IsSequence(graph.objects) /\ IsSequence(graph.relationships)

IsDesign(d) ==
  /\ d = [packages |-> d.packages, components |-> d.components,
          interfaces |-> d.interfaces, connections |-> d.connections,
          topologies |-> d.topologies, views |-> d.views, sound |-> d.sound]
  /\ IsSequence(d.components)
  /\ \A component \in ToSet(d.components) : IsComponent(component)

AddsComponent(o) == o.formed /\ o.op = "component.add"

ASSUME DesignEditingAssumption ==
  /\ \A ops \in Patches : ops \in Seq(ToSet(ops)) /\ ops # << >>
  /\ \A ops \in Patches : \A o \in ToSet(ops) : AddsComponent(o) => IsComponent(o.component)
  /\ \A seed \in Seeds : IsDesign(seed)
  /\ Idle \notin Patches
  /\ Refused \notin Seeds
  /\ MaxHistory \in Nat

VARIABLES
  design,       \* m_design
  undo, redo,   \* m_undo, m_redo: stacks of designs, the last on top
  patch,        \* the patch being applied, or Idle
  next,         \* the operation that is next
  candidate     \* the copy the operations work on

vars == <<design, undo, redo, patch, next, candidate>>

Init ==
  /\ design \in Seeds
  /\ undo = << >> /\ redo = << >>
  /\ patch = Idle /\ next = 1 /\ candidate = design

(* A call of the service; applyPatch must have returned.                   *)
Returned == patch = Idle

(* Mutant: the loop variable outlives the loop.                            *)
ReturnKeepsPlace == patch' = Idle /\ next' = next /\ candidate' = design'

(* The end of applyPatch, whatever its result.                             *)
Return == patch' = Idle /\ next' = 1 /\ candidate' = design'

ReplaceDesign ==
  /\ Returned
  /\ \E seed \in Seeds : design' = seed /\ candidate' = seed
  /\ undo' = << >> /\ redo' = << >>
  /\ UNCHANGED <<patch, next>>

(* A patch of another schema or without operations is refused at once and  *)
(* changes nothing.                                                        *)
BeginPatch ==
  /\ Returned
  /\ Len(undo) + Len(redo) < MaxHistory
  /\ patch' \in Patches
  /\ next' = 1 /\ candidate' = design
  /\ UNCHANGED <<design, undo, redo>>

Applying == ~Returned /\ next <= Len(patch)

ApplyOperation ==
  /\ Applying
  /\ Operation(candidate, patch[next]) # Refused
  /\ candidate' = Operation(candidate, patch[next])
  /\ next' = next + 1
  /\ UNCHANGED <<design, undo, redo, patch>>

(* Mutant: the patch goes on without the operation that failed.            *)
SkipOperation ==
  /\ Applying
  /\ Operation(candidate, patch[next]) = Refused
  /\ next' = next + 1
  /\ UNCHANGED <<design, undo, redo, patch, candidate>>

RejectOperation ==
  /\ Applying
  /\ Operation(candidate, patch[next]) = Refused
  /\ UNCHANGED <<design, undo, redo>>
  /\ Return

Finished == ~Returned /\ next > Len(patch)

(* Mutant: what was undone can still be redone after an edit.              *)
CommitKeepsRedo ==
  /\ Finished /\ Valid(candidate)
  /\ undo' = Append(undo, design)
  /\ design' = candidate
  /\ Return
  /\ UNCHANGED redo

Commit ==
  /\ Finished /\ Valid(candidate)
  /\ undo' = Append(undo, design)
  /\ design' = candidate
  /\ redo' = << >>
  /\ Return

RejectCandidate ==
  /\ Finished /\ ~Valid(candidate)
  /\ UNCHANGED <<design, undo, redo>>
  /\ Return

Undo ==
  /\ Returned /\ undo # << >>
  /\ redo' = Append(redo, design)
  /\ design' = Last(undo) /\ candidate' = design'
  /\ undo' = Front(undo)
  /\ UNCHANGED <<patch, next>>

Redo ==
  /\ Returned /\ redo # << >>
  /\ undo' = Append(undo, design)
  /\ design' = Last(redo) /\ candidate' = design'
  /\ redo' = Front(redo)
  /\ UNCHANGED <<patch, next>>

Next ==
  \/ ReplaceDesign \/ BeginPatch
  \/ ApplyOperation \/ RejectOperation \/ Commit \/ RejectCandidate
  \/ Undo \/ Redo

Spec == Init /\ [][Next]_vars

-----------------------------------------------------------------------------
(* Properties.                                                             *)

(* All snapshots, from the oldest to the one furthest ahead.               *)
Line(behind, here, ahead) == behind \o <<here>> \o Reverse(ahead)

Timeline == Line(undo, design, redo)

(* The state the loops of applyPatch and the service keep.                 *)
TypeOK ==
  /\ IsSequence(undo) /\ IsSequence(redo)
  /\ patch \in Patches \cup {Idle}
  /\ next \in Nat \ {0}
  /\ patch = Idle => next = 1 /\ candidate = design
  /\ patch # Idle => next <= Len(patch) + 1
  /\ Len(undo) + Len(redo) <= MaxHistory
  /\ patch # Idle => Len(undo) + Len(redo) < MaxHistory

(* DesignEditingService keeps what DesignTimeline promises: nobody sees a  *)
(* patch half applied, and no snapshot is lost or changed by undo or redo. *)
Abstract == INSTANCE DesignTimeline WITH
              timeline <- Timeline, at <- Len(undo) + 1, Acceptable <- Valid

ImplementsTimeline == Abstract!Spec

(* A sound design, said without the words of the validator: ids name one   *)
(* thing each, and whatever is referred to is there.                       *)
NamesOneThing(list) ==
  \A id \in IdsOf(list) :
    \E i \in DOMAIN list : \A j \in DOMAIN list : list[j].id = id <=> j = i

SoundDesign(d) ==
  /\ NamesOneThing(d.components) /\ NamesOneThing(d.connections)
  /\ NamesOneThing(d.topologies) /\ NamesOneThing(d.views)
  /\ {component.package : component \in ToSet(d.components)} \subseteq ToSet(d.packages)
  /\ \A component \in ToSet(d.components) : component.config \cap LayoutKeys = {}
  /\ UNION {{c.from[1], c.to[1]} : c \in ToSet(d.connections)} \subseteq IdsOf(d.components)
  /\ {interface[1] : interface \in d.interfaces} \subseteq IdsOf(d.components)
  /\ \/ d.interfaces = {}
     \/ UNION {{c.from, c.to} : c \in ToSet(d.connections)} \subseteq d.interfaces
  /\ \A topology \in ToSet(d.topologies) : NamesOneThing(topology.attachments)

(* Whatever undo, redo and patches lead to is a sound design or the one    *)
(* the project was opened with: an operation that leaves a connection or   *)
(* an interface without its component does not survive to a snapshot.      *)
SnapshotsAreSound ==
  \A i \in 2 .. Len(Timeline) : SoundDesign(Timeline[i])

(* The design all operations of a patch make of d, one after the other.    *)
Outcome(d, ops) ==
  LET after[i \in 0 .. Len(ops)] ==
        IF i = 0 THEN d
        ELSE IF after[i - 1] = Refused THEN Refused
        ELSE Operation(after[i - 1], ops[i])
  IN  after[Len(ops)]

(* A patch takes effect with all its operations or with none: when         *)
(* applyPatch returns, the design is what the whole patch makes of it, if  *)
(* every operation applies and the result is valid, and else as it was.    *)
PatchReturns ==
  LET outcome == Outcome(design, patch)
  IN  design' = IF outcome # Refused /\ Valid(outcome) THEN outcome ELSE design

WholePatchOrNothing ==
  [][~Returned /\ patch' = Idle => PatchReturns]_vars

(* Relationships that are in good order, with the component they belong to.*)
GoodRelationships(d) ==
  UNION {{<<component.id, r>> : r \in {s \in ToSet(component.graph.relationships) : WellFormed(s)}} :
         component \in ToSet(d.components)}

(* What an operation, and a patch, takes away.                             *)
Takes(o, id, relationshipId) ==
  \/ o.op = "component.remove" /\ o.id = id
  \/ /\ o.op = "component.graph_relationship.remove"
     /\ o.id = id /\ o.relationship = relationshipId

Removes(ops, id, relationshipId) == \E o \in ToSet(ops) : Takes(o, id, relationshipId)

(* A patch keeps every well-formed relationship of a graph_config it does  *)
(* not remove by name, although each operation on a graph_config writes    *)
(* the whole of it anew.                                                   *)
RelationshipsKept ==
  [][~Returned => \A entry \in GoodRelationships(design) \ GoodRelationships(design') :
                    Removes(patch, entry[1], entry[2].id)]_vars
=============================================================================
