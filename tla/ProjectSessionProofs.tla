------------------------ MODULE ProjectSessionProofs ------------------------
(***************************************************************************)
(* What a session on one project promises, for every catalog, every set of *)
(* projects and every bound: a clean document is the file, the two owners  *)
(* of the document keep what is the other's, and the layout is saved.      *)
(*                                                                         *)
(*   1. what the conversions between the copies keep;                      *)
(*   2. the loop that merges the design's components into the document;    *)
(*   3. the undo and redo stacks: a call that takes effect moves the state *)
(*      id, one that does not leaves the records alone;                    *)
(*   4. the copies agree as far as the dirty flags say they do.            *)
(***************************************************************************)
EXTENDS ProjectSession, InstanceCommandsProofs, NaturalsInduction, WellFoundedInduction

-----------------------------------------------------------------------------
Files == [components: Seq(Records), views: Views]

Instances ==
  [core: Cores, inst: Tokens \X (0 .. MaxSuffix),
   config: Values \cup {NoValue}, state: Values \cup {NoValue, NoState}]

ProjectDocs == [instances: Seq(Instances), modules: SUBSET Refs, views: Views]

LEMMA SequenceOf ==
  ASSUME NEW T, NEW n \in Nat, NEW t \in [1 .. n -> T]
  PROVE  t \in Seq(T) /\ Len(t) = n /\ DOMAIN t = 1 .. n
OBVIOUS

LEMMA EntriesOf ==
  ASSUME NEW T, NEW t \in Seq(T)
  PROVE  Len(t) \in Nat /\ DOMAIN t = 1 .. Len(t) /\ \A i \in DOMAIN t : t[i] \in T
BY LenProperties, ElementOfSeq

LEMMA RecordParts ==
  ASSUME NEW r \in Records
  PROVE  /\ r.core \in Cores /\ r.inst \in Tokens \X (0 .. MaxSuffix)
         /\ r.value \in Values \cup {NoValue}
         /\ r = [core |-> r.core, inst |-> r.inst, value |-> r.value]
BY DEF Records

LEMMA RefsInTyped ==
  ASSUME NEW s \in Seq(Records)
  PROVE  RefsIn(s) \subseteq Refs
BY EntriesOf, RefsOfRecords DEF RefsIn

(* The components of a document are those of its instances.                *)
ComponentOf(x) == [core |-> x.core, inst |-> x.inst, value |-> x.config]

LEMMA DesignOfTyped ==
  ASSUME NEW doc \in ProjectDocs
  PROVE  /\ DesignOf(doc) \in Files /\ DesignOf(doc).views = doc.views
         /\ DOMAIN DesignOf(doc).components = DOMAIN doc.instances
         /\ \A i \in DOMAIN doc.instances :
              DesignOf(doc).components[i] = ComponentOf(doc.instances[i])
<1>1. PICK s \in Seq(Instances) : s = doc.instances
  BY DEF ProjectDocs
<1>2. PICK n \in Nat : DOMAIN s = 1 .. n /\ \A i \in 1 .. n : s[i] \in Instances
  BY EntriesOf
<1>3. \A x \in Instances : ComponentOf(x) \in Records
  BY DEF Instances, ComponentOf, Records
<1>4. PICK t : t = [i \in 1 .. n |-> ComponentOf(s[i])]
  OBVIOUS
<1>5. t \in Seq(Records) /\ DOMAIN t = 1 .. n /\ \A i \in 1 .. n : t[i] = ComponentOf(s[i])
  <2>1. t \in [1 .. n -> Records]
    BY <1>2, <1>3, <1>4
  <2> QED BY <1>4, <2>1, SequenceOf
<1>6. DesignOf(doc) = [components |-> t, views |-> doc.views]
  BY <1>1, <1>2, <1>4 DEF DesignOf, ComponentOf
<1>7. doc.views \in Views
  BY DEF ProjectDocs
<1> QED BY <1>1, <1>2, <1>5, <1>6, <1>7 DEF Files

(* Two designs with the same components and views are the same.            *)
LEMMA SameFile ==
  ASSUME NEW f \in Files, NEW g \in Files, f.views = g.views,
         DOMAIN f.components = DOMAIN g.components,
         \A i \in DOMAIN f.components : f.components[i] = g.components[i]
  PROVE  f = g
<1>1. f.components \in Seq(Records) /\ g.components \in Seq(Records)
  BY DEF Files
<1>2. f.components = g.components
  BY <1>1, EntriesOf, SeqEqual
<1> QED BY <1>2 DEF Files

(* Reading a file and forming the design again gives the file.             *)
LEMMA Reread ==
  ASSUME NEW file \in Files, NEW drawn \in SUBSET Refs
  PROVE  Reading(file, drawn) \in ProjectDocs /\ DesignOf(Reading(file, drawn)) = file
<1> DEFINE doc == Reading(file, drawn)
           made(r) == [core |-> r.core, inst |-> r.inst, config |-> r.value, state |-> r.value]
<1>1. PICK s \in Seq(Records) : s = file.components
  BY DEF Files
<1>2. PICK n \in Nat : DOMAIN s = 1 .. n /\ \A i \in 1 .. n : s[i] \in Records
  BY EntriesOf
<1>3. \A r \in Records : made(r) \in Instances /\ ComponentOf(made(r)) = r
  BY RecordParts DEF Instances, ComponentOf
<1>4. PICK t : t = [i \in 1 .. n |-> made(s[i])]
  OBVIOUS
<1>5. t \in Seq(Instances) /\ DOMAIN t = 1 .. n /\ \A i \in 1 .. n : t[i] = made(s[i])
  <2>1. \A i \in 1 .. n : made(s[i]) \in Instances
    BY <1>2, <1>3
  <2> HIDE DEF made
  <2>2. t \in [1 .. n -> Instances]
    BY <1>4, <2>1
  <2> QED BY <1>4, <2>2, SequenceOf
<1>6. doc = [instances |-> t, modules |-> drawn, views |-> file.views]
  BY <1>1, <1>2, <1>4 DEF Reading
<1>7. doc \in ProjectDocs
  BY <1>5, <1>6 DEF ProjectDocs, Files
<1> HIDE DEF doc, made
<1>8. DesignOf(doc) = file
  <2>1. doc.instances = t /\ doc.views = file.views
    BY <1>6
  <2>2. \A i \in 1 .. n : DesignOf(doc).components[i] = s[i]
    BY <1>2, <1>3, <1>5, <1>7, <2>1, DesignOfTyped
  <2> QED BY <1>1, <1>2, <1>5, <1>7, <2>1, <2>2, DesignOfTyped, SameFile
<1> QED BY <1>7, <1>8 DEF doc

(* Writing records to a document makes them its components.                *)
LEMMA Rewritten ==
  ASSUME NEW doc \in ProjectDocs, NEW s \in Seq(Records)
  PROVE  /\ WriteToDocument(doc, s) \in ProjectDocs
         /\ WriteToDocument(doc, s).views = doc.views
         /\ DOMAIN WriteToDocument(doc, s).instances = DOMAIN s
         /\ \A i \in DOMAIN s : ComponentOf(WriteToDocument(doc, s).instances[i]) = s[i]
<1> DEFINE made(r) == [core |-> r.core, inst |-> r.inst, config |-> r.value, state |-> r.value]
<1>1. PICK n \in Nat : DOMAIN s = 1 .. n /\ \A i \in 1 .. n : s[i] \in Records
  BY EntriesOf
<1>2. \A r \in Records : made(r) \in Instances /\ ComponentOf(made(r)) = r
  BY RecordParts DEF Instances, ComponentOf
<1>3. PICK t : t = [i \in 1 .. n |-> made(s[i])]
  OBVIOUS
<1>4. t \in Seq(Instances) /\ DOMAIN t = 1 .. n /\ \A i \in 1 .. n : t[i] = made(s[i])
  <2>1. \A i \in 1 .. n : made(s[i]) \in Instances
    BY <1>1, <1>2
  <2> HIDE DEF made
  <2>2. t \in [1 .. n -> Instances]
    BY <1>3, <2>1
  <2> QED BY <1>3, <2>2, SequenceOf
<1>5. WriteToDocument(doc, s) = [doc EXCEPT !.instances = t]
  BY <1>1, <1>3 DEF WriteToDocument
<1> HIDE DEF made
<1>6. PICK w : w = [doc EXCEPT !.instances = t]
  OBVIOUS
<1>7. w \in ProjectDocs /\ w.views = doc.views /\ w.instances = t
  BY <1>4, <1>6 DEF ProjectDocs
<1>8. \A i \in 1 .. n : ComponentOf(t[i]) = s[i]
  BY <1>1, <1>2, <1>4
<1> QED BY <1>1, <1>4, <1>5, <1>6, <1>7, <1>8

LEMMA OwnedTyped ==
  ASSUME NEW doc \in ProjectDocs, NEW r \in Records
  PROVE  OwnedInstance(doc, r) \in Instances /\ ComponentOf(OwnedInstance(doc, r)) = r
<1>1. PICK s \in Seq(Instances) : s = doc.instances
  BY DEF ProjectDocs
<1>2. \A i \in DOMAIN s : s[i] \in Instances
  BY EntriesOf
<1>3. PICK x : x = IF r.inst \in IdsIn(s) THEN WithId(s, r.inst).state ELSE NoState
  OBVIOUS
<1>4. x \in Values \cup {NoValue, NoState}
  <2>1. CASE r.inst \in IdsIn(s)
    <3> DEFINE k == CHOOSE i \in DOMAIN s : s[i].inst = r.inst
    <3>1. k \in DOMAIN s
      BY <2>1 DEF IdsIn
    <3>2. WithId(s, r.inst) = s[k]
      BY DEF WithId
    <3> HIDE DEF k
    <3>3. s[k].state \in Values \cup {NoValue, NoState}
      BY <1>2, <3>1 DEF Instances
    <3> QED BY <1>3, <2>1, <3>2, <3>3
  <2>2. CASE r.inst \notin IdsIn(s)
    BY <1>3, <2>2
  <2> QED BY <2>1, <2>2
<1>5. OwnedInstance(doc, r) = [core |-> r.core, inst |-> r.inst, config |-> r.value, state |-> x]
  BY <1>1, <1>3 DEF OwnedInstance
<1>6. OwnedInstance(doc, r) \in Instances
  BY <1>4, <1>5, RecordParts DEF Instances
<1> QED BY <1>5, <1>6, RecordParts DEF ComponentOf

(* A document the design replaced is of that design.                       *)
LEMMA Replaced ==
  ASSUME NEW doc \in ProjectDocs, NEW d \in Files
  PROVE  MergeDesign(doc, d) \in ProjectDocs /\ DesignOf(MergeDesign(doc, d)) = d
<1> DEFINE made(r) == OwnedInstance(doc, r)
<1>1. PICK s \in Seq(Records) : s = d.components
  BY DEF Files
<1>2. PICK n \in Nat : DOMAIN s = 1 .. n /\ \A i \in 1 .. n : s[i] \in Records
  BY EntriesOf
<1>3. \A i \in 1 .. n : made(s[i]) \in Instances /\ ComponentOf(made(s[i])) = s[i]
  BY <1>2, OwnedTyped
<1>4. PICK t : t = [i \in 1 .. n |-> made(s[i])]
  OBVIOUS
<1>5. t \in Seq(Instances) /\ DOMAIN t = 1 .. n /\ \A i \in 1 .. n : t[i] = made(s[i])
  <2> HIDE DEF made
  <2>1. t \in [1 .. n -> Instances]
    BY <1>3, <1>4
  <2> QED BY <1>4, <2>1, SequenceOf
<1>6. PICK w : w = MergeDesign(doc, d)
  OBVIOUS
<1>7. w = [instances |-> t, modules |-> RefsIn(s), views |-> d.views]
  BY <1>1, <1>2, <1>4, <1>6 DEF MergeDesign
<1>8. w \in ProjectDocs /\ w.instances = t /\ w.views = d.views
  BY <1>5, <1>7, RefsInTyped DEF ProjectDocs, Files
<1> HIDE DEF made
<1>9. \A i \in 1 .. n : DesignOf(w).components[i] = s[i]
  BY <1>3, <1>5, <1>8, DesignOfTyped
<1>10. DesignOf(w) = d
  BY <1>1, <1>2, <1>5, <1>8, <1>9, DesignOfTyped, SameFile
<1> QED BY <1>6, <1>8, <1>10

(* The records a document is read into.                                    *)
LEMMA RecordsInTyped ==
  ASSUME NEW doc \in ProjectDocs
  PROVE  RecordsIn(doc) \in Seq(Records)
<1> DEFINE made(x) == [core |-> x.core, inst |-> x.inst,
                       value |-> IF x.state = NoState THEN x.config ELSE x.state]
<1>1. PICK s \in Seq(Instances) : s = doc.instances
  BY DEF ProjectDocs
<1>2. PICK n \in Nat : DOMAIN s = 1 .. n /\ \A i \in 1 .. n : s[i] \in Instances
  BY EntriesOf
<1>3. ASSUME NEW x \in Instances PROVE made(x) \in Records
  <2>1. x.core \in Cores /\ x.inst \in Tokens \X (0 .. MaxSuffix)
    BY DEF Instances
  <2>2. x.config \in Values \cup {NoValue} /\ x.state \in Values \cup {NoValue, NoState}
    BY DEF Instances
  <2>3. (IF x.state = NoState THEN x.config ELSE x.state) \in Values \cup {NoValue}
    BY <2>2
  <2> QED BY <2>1, <2>3 DEF Records
<1>4. RecordsIn(doc) = [i \in 1 .. n |-> made(s[i])]
  BY <1>1, <1>2 DEF RecordsIn
<1> HIDE DEF made
<1>5. RecordsIn(doc) \in [1 .. n -> Records]
  BY <1>2, <1>3, <1>4
<1> QED BY <1>5, SequenceOf

LEMMA OpenedTyped ==
  ASSUME NEW s \in Seq(Records)
  PROVE  OpenedOn(s) \in Workspaces /\ OpenedOn(s).records = s
<1>1. SelectFirst(s) \in Refs \cup {NoInstance}
  <2>1. CASE s = <<>>
    BY <2>1 DEF SelectFirst
  <2>2. CASE s # <<>>
    <3>1. s[1] \in Records
      BY <2>2, ElementOfSeq, EmptySeq
    <3> QED BY <2>2, <3>1, RefsOfRecords DEF SelectFirst
  <2> QED BY <2>1, <2>2
<1> QED BY <1>1, WorkspaceParts DEF OpenedOn

-----------------------------------------------------------------------------
(* The loop that merges the design's components into the document.         *)

(* Numbers are reached one by one.                                         *)
LEMMA OneByOne ==
  ASSUME NEW S, 0 \in S, \A n \in Nat : n \in S => n + 1 \in S
  PROVE  Nat \subseteq S
<1> DEFINE R == OpToRel(<, Nat)
           T == Nat \ S
<1>1. IsWellFoundedOn(R, Nat)
  BY NatLessThanWellFounded
<1>2. SUFFICES ASSUME T # {} PROVE FALSE
  OBVIOUS
<1>3. PICK n \in T : \A m \in T : ~(<<m, n>> \in R)
  <2>1. T \subseteq Nat
    OBVIOUS
  <2> HIDE DEF R, T
  <2> QED BY <1>1, <1>2, <2>1, WFMin
<1>4. n \in Nat /\ n # 0 /\ n - 1 \in Nat /\ n - 1 < n
  <2>1. n \in Nat /\ n # 0
    OBVIOUS
  <2> HIDE DEF T, R
  <2> QED BY <2>1
<1>5. <<n - 1, n>> \in R
  BY <1>4 DEF OpToRel
<1>6. n - 1 \in S
  <2> HIDE DEF R
  <2> QED BY <1>3, <1>4, <1>5
<1> HIDE DEF R
<1>7. n - 1 + 1 = n /\ n \notin S
  BY <1>4
<1> QED BY <1>4, <1>6, <1>7

(* merged[i] is the document's list after the first i components.          *)
FirstMerged(merged, instances, components, n) ==
  merged = [i \in 0 .. n |->
              IF i = 0 THEN instances
              ELSE IF components[i].inst \in IdsIn(merged[i - 1]) THEN merged[i - 1]
              ELSE Append(merged[i - 1], Stateless(components[i]))]

(* What the list is then: the old one, longer, and with the ids so far.    *)
Extends(t, s, components, n) ==
  /\ t \in Seq(Instances)
  /\ \A i \in DOMAIN s : i \in DOMAIN t /\ t[i] = s[i]
  /\ \A k \in 1 .. n : components[k].inst \in IdsIn(t)

LEMMA OneMoreMerged ==
  ASSUME NEW s \in Seq(Instances), NEW t, NEW components, NEW n \in Nat,
         Extends(t, s, components, n), components[n + 1] \in Records,
         NEW u, u = IF components[n + 1].inst \in IdsIn(t) THEN t
                    ELSE Append(t, Stateless(components[n + 1]))
  PROVE  Extends(u, s, components, n + 1)
<1> DEFINE r == components[n + 1]
<1>1. t \in Seq(Instances) /\ Len(t) \in Nat /\ DOMAIN t = 1 .. Len(t)
  BY EntriesOf DEF Extends
<1>2. Stateless(r) \in Instances /\ Stateless(r).inst = r.inst
  BY RecordParts DEF Stateless, Instances
<1>3. \A k \in 1 .. n + 1 : k \in 1 .. n \/ k = n + 1
  OBVIOUS
<1> HIDE DEF r
<1>4. CASE r.inst \in IdsIn(t)
  <2>1. u = t
    BY <1>4 DEF r
  <2> QED BY <1>3, <1>4, <2>1 DEF Extends, r
<1>5. CASE r.inst \notin IdsIn(t)
  <2>1. u = Append(t, Stateless(r))
    BY <1>5 DEF r
  <2>2. /\ u \in Seq(Instances) /\ Len(u) = Len(t) + 1
        /\ \A i \in 1 .. Len(t) : u[i] = t[i]
        /\ u[Len(t) + 1] = Stateless(r)
    BY <1>1, <1>2, <2>1, AppendProperties
  <2>3. DOMAIN u = 1 .. Len(t) + 1
    BY <2>2, EntriesOf
  <2>4. IdsIn(t) \subseteq IdsIn(u)
    BY <1>1, <2>2, <2>3 DEF IdsIn
  <2>5. r.inst \in IdsIn(u)
    <3>1. Len(t) + 1 \in DOMAIN u /\ u[Len(t) + 1].inst = r.inst
      BY <1>1, <1>2, <2>2, <2>3
    <3> QED BY <3>1 DEF IdsIn
  <2>6. \A i \in DOMAIN s : i \in DOMAIN u /\ u[i] = s[i]
    BY <1>1, <2>2, <2>3 DEF Extends
  <2> QED BY <1>3, <2>2, <2>4, <2>5, <2>6 DEF Extends, r
<1> QED BY <1>4, <1>5

LEMMA MergingExists ==
  ASSUME NEW s, NEW components, NEW m \in Nat
  PROVE  \E f : FirstMerged(f, s, components, m)
<1> DEFINE S == {n \in Nat : \E f : FirstMerged(f, s, components, n)}
<1>1. 0 \in S
  <2> DEFINE f == [i \in 0 .. 0 |-> s]
  <2>1. \A i \in 0 .. 0 : i = 0
    OBVIOUS
  <2>2. FirstMerged(f, s, components, 0)
    BY <2>1 DEF FirstMerged
  <2> QED BY <2>2
<1>2. ASSUME NEW n \in Nat, n \in S PROVE n + 1 \in S
  <2>1. PICK f : FirstMerged(f, s, components, n)
    BY <1>2
  <2> DEFINE last == IF components[n + 1].inst \in IdsIn(f[n]) THEN f[n]
                     ELSE Append(f[n], Stateless(components[n + 1]))
             g == [i \in 0 .. n + 1 |-> IF i = n + 1 THEN last ELSE f[i]]
  <2>2. (\A i \in 0 .. n : g[i] = f[i]) /\ g[n + 1] = last
    OBVIOUS
  <2>3. ASSUME NEW i \in 0 .. n + 1
        PROVE  g[i] = IF i = 0 THEN s
                      ELSE IF components[i].inst \in IdsIn(g[i - 1]) THEN g[i - 1]
                      ELSE Append(g[i - 1], Stateless(components[i]))
    <3> HIDE DEF g
    <3>1. CASE i = n + 1
      <4>1. i # 0 /\ i - 1 = n /\ n \in 0 .. n /\ g[n] = f[n]
        BY <2>2, <3>1
      <4> QED BY <2>2, <3>1, <4>1
    <3>2. CASE i \in 0 .. n
      <4>1. g[i] = f[i] /\ (i # 0 => i - 1 \in 0 .. n /\ g[i - 1] = f[i - 1])
        BY <2>2, <3>2
      <4>2. f[i] = IF i = 0 THEN s
                   ELSE IF components[i].inst \in IdsIn(f[i - 1]) THEN f[i - 1]
                   ELSE Append(f[i - 1], Stateless(components[i]))
        BY <2>1, <3>2 DEF FirstMerged
      <4> HIDE DEF last
      <4> QED BY <4>1, <4>2
    <3> QED BY <3>1, <3>2
  <2>4. FirstMerged(g, s, components, n + 1)
    BY <2>3 DEF FirstMerged
  <2> QED BY <2>4
<1>3. Nat \subseteq S
  <2> HIDE DEF S
  <2> QED BY <1>1, <1>2, OneByOne
<1> QED BY <1>3

LEMMA MergingExtends ==
  ASSUME NEW s \in Seq(Instances), NEW components \in Seq(Records),
         NEW f, FirstMerged(f, s, components, Len(components))
  PROVE  Extends(f[Len(components)], s, components, Len(components))
<1>1. PICK m \in Nat : m = Len(components) /\ \A i \in 1 .. m : components[i] \in Records
  BY EntriesOf
<1> DEFINE S == {n \in Nat : n <= m => Extends(f[n], s, components, n)}
<1>2. 0 \in S
  <2>1. f[0] = s
    BY <1>1 DEF FirstMerged
  <2>2. \A k \in 1 .. 0 : FALSE
    OBVIOUS
  <2> QED BY <2>1, <2>2 DEF Extends
<1>3. ASSUME NEW n \in Nat, n \in S PROVE n + 1 \in S
  <2> SUFFICES ASSUME n + 1 <= m PROVE Extends(f[n + 1], s, components, n + 1)
    OBVIOUS
  <2>1. Extends(f[n], s, components, n) /\ components[n + 1] \in Records
    BY <1>1, <1>3
  <2>2. n + 1 \in 0 .. m /\ n + 1 # 0 /\ n + 1 - 1 = n
    BY <1>1
  <2>3. f[n + 1] = IF n + 1 = 0 THEN s
                   ELSE IF components[n + 1].inst \in IdsIn(f[n + 1 - 1]) THEN f[n + 1 - 1]
                   ELSE Append(f[n + 1 - 1], Stateless(components[n + 1]))
    <3>1. PICK k \in 0 .. m : k = n + 1
      BY <2>2
    <3>2. f[k] = IF k = 0 THEN s
                 ELSE IF components[k].inst \in IdsIn(f[k - 1]) THEN f[k - 1]
                 ELSE Append(f[k - 1], Stateless(components[k]))
      BY <1>1 DEF FirstMerged
    <3> QED BY <3>1, <3>2
  <2>4. f[n + 1] = IF components[n + 1].inst \in IdsIn(f[n]) THEN f[n]
                   ELSE Append(f[n], Stateless(components[n + 1]))
    BY <2>2, <2>3
  <2> QED BY <2>1, <2>4, OneMoreMerged
<1>4. Nat \subseteq S
  <2> HIDE DEF S
  <2> QED BY <1>2, <1>3, OneByOne
<1> QED BY <1>1, <1>4

LEMMA MissingAdded ==
  ASSUME NEW s \in Seq(Instances), NEW components \in Seq(Records)
  PROVE  Extends(WithMissing(s, components), s, components, Len(components))
<1> DEFINE f == CHOOSE merged : FirstMerged(merged, s, components, Len(components))
<1>1. Len(components) \in Nat
  BY EntriesOf
<1>2. FirstMerged(f, s, components, Len(components))
  BY <1>1, MergingExists
<1>3. WithMissing(s, components) = f[Len(components)]
  BY DEF WithMissing, FirstMerged
<1> HIDE DEF f
<1> QED BY <1>2, <1>3, MergingExtends

(* Merging keeps the document's instances, adds what ids the design has    *)
(* alone, and takes its layout.                                            *)
LEMMA Merged ==
  ASSUME NEW doc \in ProjectDocs, NEW d \in Files
  PROVE  /\ MergeDesignOnly(doc, d) \in ProjectDocs
         /\ MergeDesignOnly(doc, d).views = d.views
         /\ Extends(MergeDesignOnly(doc, d).instances, doc.instances, d.components, Len(d.components))
<1>1. doc.instances \in Seq(Instances) /\ d.components \in Seq(Records)
  BY DEF ProjectDocs, Files
<1>2. PICK t : t = WithMissing(doc.instances, d.components)
  OBVIOUS
<1>3. Extends(t, doc.instances, d.components, Len(d.components))
  BY <1>1, <1>2, MissingAdded
<1>4. MergeDesignOnly(doc, d) = [instances |-> t, modules |-> doc.modules, views |-> d.views]
  BY <1>2 DEF MergeDesignOnly
<1>5. t \in Seq(Instances)
  BY <1>3 DEF Extends
<1> QED BY <1>3, <1>4, <1>5 DEF ProjectDocs, Files

(* Records written to a document and merged with a design are among the    *)
(* components of the design formed from it, and no id of the design is     *)
(* lost.                                                                   *)
LEMMA WrittenAndMerged ==
  ASSUME NEW doc \in ProjectDocs, NEW s \in Seq(Records), NEW d \in Files,
         NEW w, w = MergeDesignOnly(WriteToDocument(doc, s), d)
  PROVE  /\ w \in ProjectDocs
         /\ ToSet(s) \subseteq ToSet(DesignOf(w).components)
         /\ IdsIn(d.components) \subseteq IdsIn(DesignOf(w).components)
         /\ DesignOf(w).views = d.views
<1>1. PICK v : v = WriteToDocument(doc, s)
  OBVIOUS
<1>2. /\ v \in ProjectDocs /\ DOMAIN v.instances = DOMAIN s
      /\ \A i \in DOMAIN s : ComponentOf(v.instances[i]) = s[i]
  BY <1>1, Rewritten
<1>3. /\ w \in ProjectDocs /\ w.views = d.views
      /\ Extends(w.instances, v.instances, d.components, Len(d.components))
  BY <1>1, <1>2, Merged
<1>4. PICK c : c = DesignOf(w).components
  OBVIOUS
<1>5. /\ DOMAIN c = DOMAIN w.instances /\ DesignOf(w).views = d.views
      /\ \A i \in DOMAIN w.instances : c[i] = ComponentOf(w.instances[i])
  BY <1>3, <1>4, DesignOfTyped
<1>6. \A i \in DOMAIN s : i \in DOMAIN c /\ c[i] = s[i]
  BY <1>2, <1>3, <1>5 DEF Extends
<1>7. ToSet(s) \subseteq ToSet(c)
  BY <1>6 DEF ToSet
<1>8. IdsIn(d.components) \subseteq IdsIn(c)
  <2>1. IdsIn(c) = IdsIn(w.instances)
    <3>0. \A x : ComponentOf(x).inst = x.inst
      BY DEF ComponentOf
    <3>1. \A i \in DOMAIN w.instances : c[i].inst = w.instances[i].inst
      BY <1>5, <3>0
    <3> QED BY <1>5, <3>1 DEF IdsIn
  <2>2. d.components \in Seq(Records)
    BY DEF Files
  <2>3. DOMAIN d.components = 1 .. Len(d.components)
    BY <2>2, EntriesOf
  <2> QED BY <1>3, <2>1, <2>3 DEF Extends, IdsIn
<1> QED BY <1>3, <1>4, <1>5, <1>7, <1>8

-----------------------------------------------------------------------------
(* The stacks: on the undo stack the ids climb to the present one, on the  *)
(* redo stack they climb from it.                                          *)
Entries(n) ==
  {e \in [command: Commands, before: Nat, after: Nat] : e.before < e.after /\ e.after < n}

UpTo(s, id) ==
  /\ \A i, j \in 1 .. Len(s) : i < j => s[i].after <= s[j].before
  /\ \A i \in 1 .. Len(s) : s[i].after <= id

DownTo(s, id) ==
  /\ \A i, j \in 1 .. Len(s) : i < j => s[j].after <= s[i].before
  /\ \A i \in 1 .. Len(s) : id <= s[i].before

LEMMA EntryParts ==
  ASSUME NEW n \in Nat, NEW e \in Entries(n)
  PROVE  /\ e.command \in Commands /\ e.before \in Nat /\ e.after \in Nat
         /\ e.before < e.after /\ e.after < n
         /\ \A m \in Nat : n <= m => e \in Entries(m)
         /\ \A c \in Commands :
              /\ [e EXCEPT !.command = c] \in Entries(n)
              /\ [e EXCEPT !.command = c].before = e.before
              /\ [e EXCEPT !.command = c].after = e.after
BY DEF Entries

LEMMA EmptyStack ==
  /\ \A S : <<>> \in Seq(S)
  /\ \A id : UpTo(<<>>, id) /\ DownTo(<<>>, id)
BY DEF UpTo, DownTo

LEMMA PoppedStack ==
  ASSUME NEW n \in Nat, NEW s \in Seq(Entries(n)), s # <<>>
  PROVE  /\ Top(s) \in Entries(n) /\ Pop(s) \in Seq(Entries(n))
         /\ \A id : UpTo(s, id) => UpTo(Pop(s), Top(s).before) /\ Top(s).after <= id
         /\ \A id : DownTo(s, id) => DownTo(Pop(s), Top(s).after) /\ id <= Top(s).before
<1>1. PICK m \in Nat : m = Len(s) /\ m >= 1 /\ \A i \in 1 .. m : s[i] \in Entries(n)
  BY EmptySeq, EntriesOf
<1>2. Top(s) = s[m] /\ m \in 1 .. m
  BY <1>1 DEF Top
<1>3. PICK t : t = Pop(s)
  OBVIOUS
<1>4. t \in Seq(Entries(n)) /\ Len(t) = m - 1 /\ \A i \in 1 .. m - 1 : t[i] = s[i]
  <2>1. \A i \in 1 .. m - 1 : s[i] \in Entries(n)
    BY <1>1
  <2>2. t = SubSeq(s, 1, m - 1)
    BY <1>1, <1>3 DEF Pop
  <2>3. /\ t \in Seq(Entries(n))
        /\ Len(t) = IF 1 <= m - 1 THEN m - 1 - 1 + 1 ELSE 0
        /\ \A i \in 1 .. m - 1 - 1 + 1 : t[i] = s[1 + i - 1]
    BY <1>1, <2>1, <2>2, SubSeqProperties
  <2> QED BY <1>1, <2>3
<1>5. \A i \in 1 .. m - 1 : i \in 1 .. m /\ i < m
  BY <1>1
<1>6. ASSUME NEW id, UpTo(s, id)
      PROVE  UpTo(t, s[m].before) /\ s[m].after <= id
  BY <1>1, <1>2, <1>4, <1>5, <1>6 DEF UpTo
<1>7. ASSUME NEW id, DownTo(s, id)
      PROVE  DownTo(t, s[m].after) /\ id <= s[m].before
  BY <1>1, <1>2, <1>4, <1>5, <1>7 DEF DownTo
<1> QED BY <1>1, <1>2, <1>3, <1>4, <1>6, <1>7

LEMMA PushedStack ==
  ASSUME NEW n \in Nat, NEW s \in Seq(Entries(n)), NEW e \in Entries(n)
  PROVE  /\ Append(s, e) \in Seq(Entries(n)) /\ Append(s, e) # <<>>
         /\ UpTo(s, e.before) => UpTo(Append(s, e), e.after)
         /\ DownTo(s, e.after) => DownTo(Append(s, e), e.before)
<1>1. PICK m \in Nat : m = Len(s) /\ \A i \in 1 .. m : s[i] \in Entries(n)
  BY EntriesOf
<1>2. PICK t : t = Append(s, e)
  OBVIOUS
<1>3. /\ t \in Seq(Entries(n)) /\ t # <<>> /\ Len(t) = m + 1 /\ t[m + 1] = e
      /\ \A i \in 1 .. m : t[i] = s[i]
  BY <1>1, <1>2, AppendProperties
<1>4. \A i \in 1 .. m + 1 : i \in 1 .. m \/ i = m + 1
  BY <1>1
<1>5. /\ e.before \in Nat /\ e.after \in Nat /\ e.before < e.after
      /\ \A i \in 1 .. m : s[i].before \in Nat /\ s[i].after \in Nat /\ s[i].before < s[i].after
  BY <1>1, EntryParts
<1>6. ASSUME UpTo(s, e.before) PROVE UpTo(t, e.after)
  <2>1. \A i \in 1 .. m : t[i].after <= e.before
    BY <1>1, <1>3, <1>6 DEF UpTo
  <2>2. \A i \in 1 .. m + 1 : t[i].after <= e.after
    BY <1>3, <1>4, <1>5, <2>1
  <2>3. ASSUME NEW i \in 1 .. m + 1, NEW j \in 1 .. m + 1, i < j
        PROVE  t[i].after <= t[j].before
    <3>1. i \in 1 .. m
      BY <1>1, <2>3
    <3>2. CASE j = m + 1
      BY <1>3, <2>1, <3>1, <3>2
    <3>3. CASE j \in 1 .. m
      BY <1>1, <1>3, <1>6, <2>3, <3>1, <3>3 DEF UpTo
    <3> QED BY <1>4, <3>2, <3>3
  <2> QED BY <1>3, <2>2, <2>3 DEF UpTo
<1>7. ASSUME DownTo(s, e.after) PROVE DownTo(t, e.before)
  <2>1. \A i \in 1 .. m : e.after <= t[i].before
    BY <1>1, <1>3, <1>7 DEF DownTo
  <2>2. \A i \in 1 .. m + 1 : e.before <= t[i].before
    BY <1>3, <1>4, <1>5, <2>1
  <2>3. ASSUME NEW i \in 1 .. m + 1, NEW j \in 1 .. m + 1, i < j
        PROVE  t[j].after <= t[i].before
    <3>1. i \in 1 .. m
      BY <1>1, <2>3
    <3>2. CASE j = m + 1
      BY <1>3, <2>1, <3>1, <3>2
    <3>3. CASE j \in 1 .. m
      BY <1>1, <1>3, <1>7, <2>3, <3>1, <3>3 DEF DownTo
    <3> QED BY <1>4, <3>2, <3>3
  <2> QED BY <1>3, <2>2, <2>3 DEF DownTo
<1> QED BY <1>2, <1>3, <1>6, <1>7

LEMMA TrimmedStack ==
  ASSUME NEW n \in Nat, NEW s \in Seq(Entries(n)), NEW id, UpTo(s, id)
  PROVE  Trim(s) \in Seq(Entries(n)) /\ UpTo(Trim(s), id)
<1>1. PICK m \in Nat : m = Len(s) /\ \A i \in 1 .. m : s[i] \in Entries(n)
  BY EntriesOf
<1>2. PICK depth \in Nat \ {0} : depth = MaxUndoDepth
  BY ProjectSessionAssumption
<1>3. CASE m <= depth
  <2>1. Trim(s) = s
    BY <1>1, <1>2, <1>3 DEF Trim
  <2> QED BY <2>1
<1>4. CASE m > depth
  <2>1. PICK k \in Nat : k = m - depth
    <3>1. m - depth \in Nat
      BY <1>1, <1>2, <1>4
    <3> QED BY <3>1
  <2>2. PICK t : t = SubSeq(s, k + 1, m)
    OBVIOUS
  <2>3. Trim(s) = t
    BY <1>1, <1>2, <1>4, <2>1, <2>2 DEF Trim
  <2>4. /\ t \in Seq(Entries(n)) /\ Len(t) = depth
        /\ \A i \in 1 .. depth : t[i] = s[i + k]
    <3>0. k + 1 \in Nat /\ k + 1 <= m /\ m - (k + 1) + 1 = depth
      <4>1. k + depth = m /\ depth >= 1
        BY <1>1, <1>2, <2>1
      <4> QED BY <1>1, <1>2, <2>1, <4>1
    <3>1. PICK q \in Nat : q = k + 1 /\ q <= m /\ m - q + 1 = depth
      BY <3>0
    <3>2. \A i \in q .. m : s[i] \in Entries(n)
      BY <1>1, <3>1
    <3>3. /\ t \in Seq(Entries(n)) /\ Len(t) = IF q <= m THEN m - q + 1 ELSE 0
          /\ \A i \in 1 .. m - q + 1 : t[i] = s[q + i - 1]
      <4>1. t = SubSeq(s, q, m) /\ q \in Int /\ m \in Int
        BY <2>2, <3>1
      <4> QED BY <3>2, <4>1, SubSeqProperties
    <3>4. \A i \in 1 .. depth : q + i - 1 = i + k
      <4>1. \A a, b \in Nat : \A i \in Int : a = b + 1 => a + i - 1 = i + b
        OBVIOUS
      <4> QED BY <1>2, <3>1, <4>1
    <3> QED BY <3>1, <3>3, <3>4
  <2>5. \A i \in 1 .. depth : i + k \in 1 .. m
    BY <1>1, <1>2, <2>1
  <2>6. \A i, j \in 1 .. depth : i < j => i + k < j + k
    BY <2>1
  <2>7. UpTo(t, id)
    BY <1>1, <2>4, <2>5, <2>6 DEF UpTo
  <2> QED BY <2>3, <2>4, <2>7
<1> QED BY <1>1, <1>2, <1>3, <1>4

LEMMA Weaker ==
  ASSUME NEW n \in Nat, NEW s \in Seq(Entries(n)), NEW a \in Nat, NEW b \in Nat
  PROVE  /\ a <= b /\ UpTo(s, a) => UpTo(s, b)
         /\ b <= a /\ DownTo(s, a) => DownTo(s, b)
<1>1. \A i \in 1 .. Len(s) : s[i].before \in Nat /\ s[i].after \in Nat
  BY EntriesOf, EntryParts
<1> QED BY <1>1 DEF UpTo, DownTo

(* The history while a project is open.                                    *)
HistoryInv ==
  /\ nextStateId \in Nat /\ currentStateId \in Nat /\ currentStateId < nextStateId
  /\ undoStack \in Seq(Entries(nextStateId)) /\ redoStack \in Seq(Entries(nextStateId))
  /\ UpTo(undoStack, currentStateId) /\ DownTo(redoStack, currentStateId)
  /\ document \in Workspaces

(* A call on the history keeps it, and leaves the records alone unless it  *)
(* moves the state id, which it does if it mints one.                      *)
CallKeeps ==
  /\ HistoryInv'
  /\ currentStateId' = currentStateId => document' = document /\ nextStateId' = nextStateId

(* Accepting a new command.                                                *)
LEMMA ExecuteKeeps ==
  ASSUME HistoryInv, NEW c \in NewCommands, ExecuteCommand(c)
  PROVE  CallKeeps
<1> USE DEF HistoryInv
<1>1. PICK q \in ExecuteInstanceCommand(c, document) :
        IF q[1].executed THEN Accept(q[1], q[2]) ELSE Reject(q[2])
  BY DEF ExecuteCommand
<1>2. q[1] \in Commands /\ q[2] \in Workspaces /\ (~q[1].executed => q[2] = document)
  BY <1>1, NewCommandsTyped, CallsKeepTypes
<1>3. CASE q[1].executed
  <2>1. PICK n \in Nat, id \in Nat : n = nextStateId /\ id = currentStateId /\ id < n
    OBVIOUS
  <2>2. PICK e : e = [command |-> q[1], before |-> id, after |-> n]
    OBVIOUS
  <2>3. /\ document' = q[2] /\ nextStateId' = n + 1 /\ currentStateId' = n
        /\ undoStack' = Trim(Append(undoStack, e)) /\ redoStack' = <<>>
    BY <1>1, <1>3, <2>1, <2>2 DEF Accept, MintStateId
  <2>4. n + 1 \in Nat /\ Entries(n) \subseteq Entries(n + 1)
    BY <2>1, EntryParts
  <2>5. undoStack \in Seq(Entries(n + 1))
    BY <2>1, <2>4, SeqMonotonic
  <2>6. e \in Entries(n + 1) /\ e.before = id /\ e.after = n
    BY <1>2, <2>1, <2>2 DEF Entries
  <2>7. Append(undoStack, e) \in Seq(Entries(n + 1)) /\ UpTo(Append(undoStack, e), n)
    BY <2>1, <2>4, <2>5, <2>6, PushedStack
  <2>8. undoStack' \in Seq(Entries(n + 1)) /\ UpTo(undoStack', n)
    BY <2>3, <2>4, <2>7, TrimmedStack
  <2>9. HistoryInv'
    BY <1>2, <2>1, <2>3, <2>4, <2>8, EmptyStack
  <2> QED BY <2>1, <2>3, <2>9 DEF CallKeeps
<1>4. CASE ~q[1].executed
  <2>1. document' = document /\ UNCHANGED <<undoStack, redoStack, currentStateId, nextStateId>>
    BY <1>1, <1>2, <1>4 DEF Reject, KeepStateIds
  <2> QED BY <2>1 DEF CallKeeps
<1> QED BY <1>3, <1>4

LEMMA UndoKeeps ==
  ASSUME HistoryInv, UndoLast
  PROVE  CallKeeps
<1> USE DEF HistoryInv
<1>1. PICK n \in Nat, id \in Nat : n = nextStateId /\ id = currentStateId /\ id < n
  OBVIOUS
<1>2. PICK e : e = Top(undoStack)
  OBVIOUS
<1>3. PICK q \in UndoOutcomes(e) :
        IF q[1].undone THEN Undone(e, q[1], q[2]) ELSE UndoRefused(e, q[1], q[2])
  BY <1>2 DEF UndoLast
<1>4. PICK rest : rest = Pop(undoStack)
  OBVIOUS
<1>5. /\ undoStack # <<>> /\ e \in Entries(n) /\ rest \in Seq(Entries(n))
      /\ UpTo(rest, e.before) /\ e.after <= id
  BY <1>1, <1>2, <1>4, PoppedStack DEF UndoLast
<1>6. /\ e.command \in Commands /\ e.before \in Nat /\ e.after \in Nat
      /\ e.before < e.after /\ e.after < n
  BY <1>1, <1>5, EntryParts
<1>7. q[1] \in Commands /\ q[2] \in Workspaces /\ (~q[1].undone => q[2] = document)
  <2>1. CASE e.command.executed
    BY <1>3, <1>6, <2>1, CallsKeepTypes DEF UndoOutcomes
  <2>2. CASE ~e.command.executed
    <3>1. q = <<e.command, document>>
      BY <1>3, <2>2 DEF UndoOutcomes
    <3> QED BY <1>6, <3>1
  <2> QED BY <2>1, <2>2
<1>8. PICK f : f = [e EXCEPT !.command = q[1]]
  OBVIOUS
<1>9. f \in Entries(n) /\ f.before = e.before /\ f.after = e.after
  BY <1>1, <1>5, <1>7, <1>8, EntryParts
<1>10. CASE q[1].undone
  <2>1. /\ document' = q[2] /\ nextStateId' = n /\ currentStateId' = e.before
        /\ undoStack' = rest /\ redoStack' = Append(redoStack, f)
    BY <1>1, <1>3, <1>4, <1>8, <1>10 DEF Undone
  <2>2. DownTo(redoStack, f.after)
    BY <1>1, <1>5, <1>6, <1>9, Weaker
  <2>3. redoStack' \in Seq(Entries(n)) /\ DownTo(redoStack', e.before)
    BY <1>1, <1>9, <2>1, <2>2, PushedStack
  <2>4. HistoryInv'
    BY <1>1, <1>5, <1>6, <1>7, <2>1, <2>3
  <2>5. currentStateId' # currentStateId
    BY <1>1, <1>5, <1>6, <2>1
  <2> QED BY <2>4, <2>5 DEF CallKeeps
<1>11. CASE ~q[1].undone
  <2>1. ~q[1].tore
    BY <1>7, FlagsOfCommands
  <2>2. /\ document' = document /\ UNCHANGED <<redoStack, currentStateId, nextStateId>>
        /\ undoStack' = Append(rest, f)
    BY <1>3, <1>4, <1>7, <1>8, <1>11, <2>1 DEF UndoRefused, KeepStateIds
  <2>3. undoStack' \in Seq(Entries(n)) /\ UpTo(undoStack', f.after)
    BY <1>5, <1>9, <2>2, PushedStack
  <2>4. UpTo(undoStack', id)
    BY <1>1, <1>5, <1>6, <1>9, <2>3, Weaker
  <2> QED BY <1>1, <2>2, <2>3, <2>4 DEF CallKeeps
<1> QED BY <1>10, <1>11

LEMMA RedoKeeps ==
  ASSUME HistoryInv, RedoLast
  PROVE  CallKeeps
<1> USE DEF HistoryInv
<1>1. PICK n \in Nat, id \in Nat : n = nextStateId /\ id = currentStateId /\ id < n
  OBVIOUS
<1>2. PICK e : e = Top(redoStack)
  OBVIOUS
<1>3. PICK q \in ExecuteInstanceCommand(e.command, document) :
        IF q[1].executed THEN Redone(e, q[1], q[2]) ELSE RedoRefused(e, q[1], q[2])
  BY <1>2 DEF RedoLast
<1>4. PICK rest : rest = Pop(redoStack)
  OBVIOUS
<1>5. /\ redoStack # <<>> /\ e \in Entries(n) /\ rest \in Seq(Entries(n))
      /\ DownTo(rest, e.after) /\ id <= e.before
  BY <1>1, <1>2, <1>4, PoppedStack DEF RedoLast
<1>6. /\ e.command \in Commands /\ e.before \in Nat /\ e.after \in Nat
      /\ e.before < e.after /\ e.after < n
  BY <1>1, <1>5, EntryParts
<1>7. q[1] \in Commands /\ q[2] \in Workspaces /\ (~q[1].executed => q[2] = document)
  BY <1>3, <1>6, CallsKeepTypes
<1>8. PICK f : f = [e EXCEPT !.command = q[1]]
  OBVIOUS
<1>9. f \in Entries(n) /\ f.before = e.before /\ f.after = e.after
  BY <1>1, <1>5, <1>7, <1>8, EntryParts
<1>10. CASE q[1].executed
  <2>1. /\ document' = q[2] /\ nextStateId' = n /\ currentStateId' = e.after
        /\ redoStack' = rest /\ undoStack' = Trim(Append(undoStack, f))
    BY <1>1, <1>3, <1>4, <1>8, <1>10 DEF Redone, RedoneUnderOldId
  <2>2. UpTo(undoStack, f.before)
    BY <1>1, <1>5, <1>6, <1>9, Weaker
  <2>3. Append(undoStack, f) \in Seq(Entries(n)) /\ UpTo(Append(undoStack, f), e.after)
    BY <1>1, <1>9, <2>2, PushedStack
  <2>4. undoStack' \in Seq(Entries(n)) /\ UpTo(undoStack', e.after)
    BY <1>1, <2>1, <2>3, TrimmedStack
  <2>5. HistoryInv'
    BY <1>1, <1>5, <1>6, <1>7, <2>1, <2>4
  <2>6. currentStateId' # currentStateId
    BY <1>1, <1>5, <1>6, <2>1
  <2> QED BY <2>5, <2>6 DEF CallKeeps
<1>11. CASE ~q[1].executed
  <2>1. /\ document' = document /\ UNCHANGED <<undoStack, currentStateId, nextStateId>>
        /\ redoStack' = Append(rest, f)
    BY <1>3, <1>4, <1>7, <1>8, <1>11 DEF RedoRefused, KeepStateIds
  <2>2. redoStack' \in Seq(Entries(n)) /\ DownTo(redoStack', f.before)
    BY <1>5, <1>9, <2>1, PushedStack
  <2>3. DownTo(redoStack', id)
    BY <1>1, <1>5, <1>6, <1>9, <2>2, Weaker
  <2> QED BY <1>1, <2>1, <2>2, <2>3 DEF CallKeeps
<1> QED BY <1>10, <1>11

-----------------------------------------------------------------------------
(* The copies agree as far as the flags say they do.                       *)
CopiesTyped ==
  /\ projectDocument \in ProjectDocs /\ design \in Files /\ disk \in Files
  /\ graph \in SUBSET Refs
  /\ designDirty \in BOOLEAN /\ stateDirty \in BOOLEAN /\ stale \in BOOLEAN
  /\ dirty \in BOOLEAN /\ refreshPending \in BOOLEAN

Agree ==
  /\ ~stateDirty => design = DesignOf(projectDocument)
  /\ ~stateDirty /\ ~stale => ToSet(records) \subseteq ToSet(design.components)
  /\ ~stateDirty /\ ~designDirty => disk = design

InTouch == ~refreshPending => (dirty <=> IsDirty)

SessionInv == HistoryInv /\ CopiesTyped /\ Agree /\ InTouch

(* Writing the records to the document: the design gets them all, and      *)
(* keeps what it has alone while an edit of it is unsaved.                 *)
LEMMA SyncKeeps ==
  ASSUME CopiesTyped, NEW s \in Seq(Records), SyncFromRecords(s), dirty' \in BOOLEAN
  PROVE  /\ CopiesTyped' /\ Agree' /\ InTouch'
         /\ designDirty => /\ ToSet(s) \subseteq ToSet(design'.components)
                           /\ IdsIn(design.components) \subseteq IdsIn(design'.components)
                           /\ design'.views = design.views
<1>1. PICK w : w = projectDocument'
  OBVIOUS
<1>2. /\ w = IF designDirty THEN MergeDesignOnly(WriteToDocument(projectDocument, s), design)
             ELSE WriteToDocument(projectDocument, s)
      /\ design' = DesignOf(w) /\ stateDirty' = TRUE /\ refreshPending' = TRUE
      /\ UNCHANGED <<graph, disk, designDirty, cleanStateId, stale>>
  BY <1>1 DEF SyncFromRecords
<1>3. w \in ProjectDocs
  BY <1>2, Rewritten, WrittenAndMerged DEF CopiesTyped
<1>4. design' \in Files
  BY <1>2, <1>3, DesignOfTyped
<1>5. CopiesTyped'
  BY <1>1, <1>2, <1>3, <1>4 DEF CopiesTyped
<1>6. Agree' /\ InTouch'
  BY <1>2 DEF Agree, InTouch
<1>7. ASSUME designDirty
      PROVE  /\ ToSet(s) \subseteq ToSet(design'.components)
             /\ IdsIn(design.components) \subseteq IdsIn(design'.components)
             /\ design'.views = design.views
  <2>1. w = MergeDesignOnly(WriteToDocument(projectDocument, s), design) /\ design' = DesignOf(w)
    BY <1>2, <1>7
  <2>2. projectDocument \in ProjectDocs /\ design \in Files
    BY DEF CopiesTyped
  <2>3. /\ ToSet(s) \subseteq ToSet(DesignOf(w).components)
        /\ IdsIn(design.components) \subseteq IdsIn(DesignOf(w).components)
        /\ DesignOf(w).views = design.views
    BY <2>1, <2>2, WrittenAndMerged
  <2> QED BY <2>1, <2>3
<1> QED BY <1>5, <1>6, <1>7

(* What a command, an undo or a redo does to the copies.                   *)
LEMMA ReflectKeeps ==
  ASSUME SessionInv, CallKeeps, ReflectCommand, dirty' \in BOOLEAN
  PROVE  /\ HistoryInv' /\ CopiesTyped' /\ Agree'
         /\ currentStateId' # currentStateId => InTouch'
         /\ currentStateId' = currentStateId =>
              /\ nextStateId' = nextStateId
              /\ UNCHANGED <<designDirty, stateDirty, cleanStateId, refreshPending>>
<1>1. CopiesTyped /\ HistoryInv'
  BY DEF SessionInv, CallKeeps
<1>2. CASE currentStateId' # currentStateId
  <2>1. PICK s \in Seq(Records) : s = document'.records
    BY <1>1, WorkspaceParts DEF HistoryInv
  <2>2. SyncFromRecords(s)
    BY <1>2, <2>1 DEF ReflectCommand
  <2>3. CopiesTyped' /\ Agree' /\ InTouch'
    BY <1>1, <2>2, SyncKeeps
  <2> QED BY <1>1, <1>2, <2>3
<1>3. CASE currentStateId' = currentStateId
  <2>1. /\ document' = document /\ nextStateId' = nextStateId
        /\ UNCHANGED <<projectDocument, design, graph, disk,
                       designDirty, stateDirty, cleanStateId, refreshPending, stale>>
    BY <1>3 DEF CallKeeps, ReflectCommand, copies
  <2>2. CopiesTyped' /\ Agree'
    BY <2>1 DEF SessionInv, CopiesTyped, Agree, records
  <2> QED BY <1>1, <1>3, <2>1, <2>2
<1> QED BY <1>2, <1>3

LEMMA CommandKeeps ==
  ASSUME SessionInv, Commanded
  PROVE  SessionInv'
<1> USE DEF SessionInv
<1>0. IsDirty \in BOOLEAN /\ IsDirty' \in BOOLEAN
  BY DEF IsDirty
<1>1. ASSUME CallKeeps, ReflectCommand, RefreshDirty PROVE SessionInv'
  <2>1. dirty' \in BOOLEAN /\ InTouch'
    BY <1>0, <1>1, Zenon DEF RefreshDirty, InTouch
  <2> QED BY <1>1, <2>1, ReflectKeeps
<1>2. ASSUME CallKeeps, ReflectCommand, dirty' = dirty PROVE SessionInv'
  <2>1. dirty' \in BOOLEAN
    BY <1>2 DEF CopiesTyped
  <2>2. CASE currentStateId' # currentStateId
    BY <1>2, <2>1, <2>2, ReflectKeeps
  <2>3. CASE currentStateId' = currentStateId
    <3>1. UNCHANGED <<designDirty, stateDirty, cleanStateId, refreshPending, dirty>>
      BY <1>2, <2>1, <2>3, ReflectKeeps
    <3>2. InTouch'
      BY <2>3, <3>1 DEF InTouch, IsDirty
    <3> QED BY <1>2, <2>1, <3>2, ReflectKeeps
  <2> QED BY <2>2, <2>3
<1>3. ASSUME NEW c \in Cores, AddIpcore(c) PROVE SessionInv'
  <2>1. AddCommand(c) \in NewCommands
    BY DEF NewCommands
  <2>2. CallKeeps /\ ReflectCommand
    BY <1>3, <2>1, ExecuteKeeps DEF AddIpcore
  <2>3. RefreshDirty \/ dirty' = dirty
    BY <1>3 DEF AddIpcore, RefreshDirty
  <2> QED BY <1>1, <1>2, <2>2, <2>3
<1>4. ASSUME NEW ref \in Refs, NEW v \in Values, SetIpParameter(ref, v) PROVE SessionInv'
  <2>1. SetCommand(ref, v) \in NewCommands
    BY DEF NewCommands
  <2>2. CallKeeps /\ ReflectCommand /\ dirty' = dirty
    BY <1>4, <2>1, ExecuteKeeps DEF SetIpParameter
  <2> QED BY <1>2, <2>2
<1>5. ASSUME UndoInSession PROVE SessionInv'
  BY <1>1, <1>5, UndoKeeps DEF UndoInSession
<1>6. ASSUME RedoInSession PROVE SessionInv'
  BY <1>1, <1>6, RedoKeeps DEF RedoInSession
<1> QED BY <1>3, <1>4, <1>5, <1>6 DEF Commanded

-----------------------------------------------------------------------------
(* The other handlers.                                                     *)

(* What patches of the components produce, and that it is another list.    *)
LEMMA PatchesTyped ==
  ASSUME NEW s \in Seq(Records)
  PROVE  /\ \A r \in Records : Append(s, r) \in Seq(Records) /\ Append(s, r) # s
         /\ \A i \in DOMAIN s : RemoveAt(s, i) \in Seq(Records) /\ RemoveAt(s, i) # s
         /\ \A i \in DOMAIN s, v \in Values :
              s[i].value # v => /\ [s EXCEPT ![i].value = v] \in Seq(Records)
                                /\ [s EXCEPT ![i].value = v] # s
<1>1. PICK n \in Nat : n = Len(s) /\ DOMAIN s = 1 .. n /\ \A i \in 1 .. n : s[i] \in Records
  BY EntriesOf
<1>2. ASSUME NEW r \in Records PROVE Append(s, r) \in Seq(Records) /\ Append(s, r) # s
  <2>1. Append(s, r) \in Seq(Records) /\ Len(Append(s, r)) = n + 1
    BY <1>1, AppendProperties
  <2> QED BY <1>1, <2>1
<1>3. ASSUME NEW i \in 1 .. n PROVE RemoveAt(s, i) \in Seq(Records) /\ RemoveAt(s, i) # s
  <2>1. RemoveAt(s, i) \in Seq(Records) /\ Len(RemoveAt(s, i)) = n - 1
    BY <1>1, Removed DEF WithoutElementAt
  <2> QED BY <1>1, <2>1
<1>4. ASSUME NEW i \in 1 .. n, NEW v \in Values, s[i].value # v
      PROVE  [s EXCEPT ![i].value = v] \in Seq(Records) /\ [s EXCEPT ![i].value = v] # s
  <2>1. PICK r : r = [s[i] EXCEPT !.value = v]
    OBVIOUS
  <2>2. r \in Records /\ r.value = v
    BY <1>1, <1>4, <2>1 DEF Records
  <2>3. PICK t : t = [s EXCEPT ![i] = r]
    OBVIOUS
  <2>4. t = [s EXCEPT ![i].value = v]
    BY <2>1, <2>3
  <2>5. t \in [1 .. n -> Records] /\ t[i].value = v
    BY <1>1, <2>2, <2>3
  <2>6. t \in Seq(Records)
    BY <2>5, SequenceOf
  <2> QED BY <1>4, <2>4, <2>5, <2>6
<1> QED BY <1>1, <1>2, <1>3, <1>4

(* A patch: the document becomes the design's, and the records follow when *)
(* the projection is rebuilt.                                              *)
LEMMA PatchKeeps ==
  ASSUME SessionInv, NEW patched \in Files, ApplyPatch(patched),
         patched.components = design.components => ~stale
  PROVE  SessionInv'
<1> USE DEF SessionInv
<1>1. PICK w : w = projectDocument'
  OBVIOUS
<1>2. /\ w = MergeDesign(projectDocument, patched) /\ design' = patched /\ designDirty' = TRUE
      /\ UNCHANGED <<undoStack, redoStack, currentStateId, nextStateId, disk, cleanStateId,
                     refreshPending>>
      /\ dirty' = IsDirty'
  BY <1>1 DEF ApplyPatch, RefreshDirty
<1>3. w \in ProjectDocs /\ DesignOf(w) = patched
  BY <1>2, Replaced DEF CopiesTyped
<1>4. dirty' \in BOOLEAN /\ InTouch'
  <2>1. IsDirty' \in BOOLEAN
    BY DEF IsDirty
  <2> QED BY <1>2, <2>1, Zenon DEF InTouch
<1>5. CASE patched.components = DesignOf(projectDocument).components
  <2>1. stale' = FALSE /\ UNCHANGED <<graph, document, stateDirty>>
    BY <1>5 DEF ApplyPatch
  <2>2. HistoryInv'
    BY <1>2, <2>1 DEF HistoryInv
  <2>3. CopiesTyped'
    BY <1>1, <1>2, <1>3, <1>4, <2>1 DEF CopiesTyped
  <2>4. ~stateDirty => ~stale /\ patched.components = design.components
    BY <1>5 DEF Agree
  <2>5. Agree'
    BY <1>1, <1>2, <1>3, <2>1, <2>4 DEF Agree, records
  <2> QED BY <1>4, <2>2, <2>3, <2>5
<1>6. CASE patched.components # DesignOf(projectDocument).components
  <2>1. RebuildProjection(w)
    BY <1>1, <1>6 DEF ApplyPatch
  <2>2. CASE ProjectionBuilds(w)
    <3>1. /\ graph' = w.modules /\ document' = OpenedOn(RecordsIn(w))
          /\ stateDirty' = TRUE /\ stale' = FALSE
      BY <2>1, <2>2 DEF RebuildProjection
    <3>2. document' \in Workspaces /\ w.modules \in SUBSET Refs
      BY <1>3, <3>1, RecordsInTyped, OpenedTyped DEF ProjectDocs
    <3>3. HistoryInv'
      BY <1>2, <3>2 DEF HistoryInv
    <3>4. CopiesTyped'
      BY <1>1, <1>2, <1>3, <1>4, <3>1, <3>2 DEF CopiesTyped
    <3>5. Agree'
      BY <3>1 DEF Agree
    <3> QED BY <1>4, <3>3, <3>4, <3>5
  <2>3. CASE ~ProjectionBuilds(w)
    <3>1. stale' = TRUE /\ UNCHANGED <<graph, document, stateDirty>>
      BY <2>1, <2>3 DEF RebuildProjection
    <3>2. HistoryInv'
      BY <1>2, <3>1 DEF HistoryInv
    <3>3. CopiesTyped'
      BY <1>1, <1>2, <1>3, <1>4, <3>1 DEF CopiesTyped
    <3>4. Agree'
      BY <1>1, <1>2, <1>3, <3>1 DEF Agree
    <3> QED BY <1>4, <3>2, <3>3, <3>4
  <2> QED BY <2>2, <2>3
<1> QED BY <1>5, <1>6

LEMMA PatchedKeeps ==
  ASSUME SessionInv, Patched
  PROVE  SessionInv'
<1>1. design \in Files /\ design.components \in Seq(Records)
  BY DEF SessionInv, CopiesTyped, Files
<1>2. PICK s \in Seq(Records) : s = design.components
  BY <1>1
<1>3. \A t \in Seq(Records) : /\ [design EXCEPT !.components = t] \in Files
                              /\ [design EXCEPT !.components = t].components = t
  BY <1>1 DEF Files
<1>4. ASSUME NEW ref \in Refs, NEW v \in Values, AddComponent(ref, v) PROVE SessionInv'
  <2>1. PICK r : r = [core |-> ref.core, inst |-> ref.inst, value |-> v]
    OBVIOUS
  <2>2. r \in Records
    BY <2>1 DEF Refs, InstanceRefs, Records
  <2>3. PICK t : t = Append(s, r)
    OBVIOUS
  <2>4. t \in Seq(Records) /\ t # s
    BY <2>2, <2>3, PatchesTyped
  <2>5. ApplyPatch([design EXCEPT !.components = t])
    BY <1>2, <1>4, <2>1, <2>3 DEF AddComponent
  <2> QED BY <1>2, <1>3, <2>4, <2>5, PatchKeeps
<1>5. ASSUME NEW i \in DOMAIN design.components, RemoveComponent(i) PROVE SessionInv'
  <2>1. PICK t : t = RemoveAt(s, i)
    OBVIOUS
  <2>2. t \in Seq(Records) /\ t # s
    BY <1>2, <2>1, PatchesTyped
  <2>3. ApplyPatch([design EXCEPT !.components = t])
    BY <1>2, <1>5, <2>1 DEF RemoveComponent
  <2> QED BY <1>2, <1>3, <2>2, <2>3, PatchKeeps
<1>6. ASSUME NEW i \in DOMAIN design.components, NEW v \in Values, SetComponentConfig(i, v)
      PROVE  SessionInv'
  <2>1. PICK t : t = [s EXCEPT ![i].value = v]
    OBVIOUS
  <2>2. t \in Seq(Records) /\ t # s
    BY <1>2, <1>6, <2>1, PatchesTyped DEF SetComponentConfig
  <2>3. [design EXCEPT !.components[i].value = v] = [design EXCEPT !.components = t]
    BY <1>2, <2>1
  <2>4. ApplyPatch([design EXCEPT !.components = t])
    BY <1>6, <2>3 DEF SetComponentConfig
  <2> QED BY <1>2, <1>3, <2>2, <2>4, PatchKeeps
<1>7. ASSUME NEW view \in Views, MoveNodes(view) PROVE SessionInv'
  <2>1. PICK d : d = [design EXCEPT !.views = view]
    OBVIOUS
  <2>2. d \in Files
    BY <1>1, <2>1 DEF Files
  <2>3. ApplyPatch(d) /\ ~stale
    BY <1>7, <2>1 DEF MoveNodes
  <2> QED BY <2>2, <2>3, PatchKeeps
<1> QED BY <1>4, <1>5, <1>6, <1>7 DEF Patched

(* Reloading the catalog writes the records to the document.               *)
LEMMA ReloadKeeps ==
  ASSUME SessionInv, ReloadCatalog
  PROVE  SessionInv'
<1>1. UNCHANGED <<undoStack, redoStack, currentStateId, nextStateId, document, dirty>>
  BY DEF ReloadCatalog, history
<1>2. HistoryInv' /\ dirty' \in BOOLEAN /\ CopiesTyped
  BY <1>1 DEF SessionInv, HistoryInv, CopiesTyped
<1>3. PICK s \in Seq(Records) : s = records
  BY WorkspaceParts DEF SessionInv, HistoryInv, records
<1>4. SyncFromRecords(s)
  BY <1>3 DEF ReloadCatalog
<1>5. CopiesTyped' /\ Agree' /\ InTouch'
  BY <1>2, <1>4, SyncKeeps
<1> QED BY <1>2, <1>5 DEF SessionInv

(* What a save writes: the design formed from the document, with the       *)
(* records in it when they have unsaved changes, and always the layout.    *)
LEMMA Saved ==
  ASSUME SessionInv, NEW w, w = DocumentToSave
  PROVE  /\ w \in ProjectDocs
         /\ stateDirty => /\ ToSet(records) \subseteq ToSet(DesignOf(w).components)
                          /\ DesignOf(w).views = design.views
         /\ ~stateDirty => DesignOf(w) = design
<1>1. projectDocument \in ProjectDocs /\ design \in Files
  BY DEF SessionInv, CopiesTyped
<1>2. PICK s \in Seq(Records) : s = records
  BY WorkspaceParts DEF SessionInv, HistoryInv, records
<1>3. CASE stateDirty
  <2>1. w = MergeDesignOnly(WriteToDocument(projectDocument, s), design)
    BY <1>2, <1>3 DEF DocumentToSave, Staged
  <2>2. /\ w \in ProjectDocs
        /\ ToSet(s) \subseteq ToSet(DesignOf(w).components)
        /\ DesignOf(w).views = design.views
    BY <1>1, <2>1, WrittenAndMerged
  <2> QED BY <1>2, <1>3, <2>2
<1>4. CASE ~stateDirty /\ designDirty
  <2>1. w = MergeDesign(projectDocument, design)
    BY <1>4 DEF DocumentToSave
  <2> QED BY <1>1, <1>4, <2>1, Replaced
<1>5. CASE ~stateDirty /\ ~designDirty
  <2>1. w = projectDocument
    BY <1>5 DEF DocumentToSave
  <2> QED BY <1>1, <1>5, <2>1 DEF SessionInv, Agree
<1> QED BY <1>3, <1>4, <1>5

LEMMA SaveKeeps ==
  ASSUME SessionInv, SaveDocument
  PROVE  SessionInv' /\ disk'.views = design.views
<1> USE DEF SessionInv
<1>1. PICK w : w = DocumentToSave
  OBVIOUS
<1>2. /\ projectDocument' = w /\ disk' = DesignOf(w)
      /\ design' = IF stateDirty THEN DesignOf(w) ELSE design
      /\ designDirty' = FALSE /\ stateDirty' = FALSE /\ dirty' = IsDirty'
      /\ UNCHANGED <<undoStack, redoStack, currentStateId, nextStateId, document, graph,
                     refreshPending, stale>>
  BY <1>1 DEF SaveDocument, FileOf, RefreshDirty, history
<1>3. /\ w \in ProjectDocs
      /\ stateDirty => /\ ToSet(records) \subseteq ToSet(DesignOf(w).components)
                       /\ DesignOf(w).views = design.views
      /\ ~stateDirty => DesignOf(w) = design
  BY <1>1, Saved
<1>4. dirty' \in BOOLEAN /\ InTouch'
  <2>1. IsDirty' \in BOOLEAN
    BY DEF IsDirty
  <2> QED BY <1>2, <2>1, Zenon DEF InTouch
<1>5. design' = DesignOf(w) /\ DesignOf(w) \in Files
  BY <1>2, <1>3, DesignOfTyped
<1>6. HistoryInv'
  BY <1>2 DEF HistoryInv
<1>7. CopiesTyped'
  BY <1>2, <1>3, <1>4, <1>5 DEF CopiesTyped
<1>8. Agree'
  <2>1. records' = records
    BY <1>2 DEF records
  <2> QED BY <1>2, <1>3, <1>5, <2>1 DEF Agree
<1> QED BY <1>2, <1>3, <1>4, <1>6, <1>7, <1>8

LEMMA SaveFailsKeeps ==
  ASSUME SessionInv, SaveFails
  PROVE  SessionInv'
<1>1. PICK w : w = DocumentToSave
  OBVIOUS
<1>2. /\ projectDocument' = w
      /\ UNCHANGED <<undoStack, redoStack, currentStateId, nextStateId, document,
                     design, graph, disk, designDirty, stateDirty, cleanStateId, dirty,
                     refreshPending, stale>>
  BY <1>1 DEF SaveFails, history, flags
<1>3. w \in ProjectDocs /\ (~stateDirty => DesignOf(w) = design)
  BY <1>1, Saved
<1>4. HistoryInv'
  BY <1>2 DEF SessionInv, HistoryInv
<1>5. CopiesTyped'
  BY <1>2, <1>3 DEF SessionInv, CopiesTyped
<1>6. Agree' /\ InTouch'
  BY <1>2, <1>3 DEF SessionInv, Agree, InTouch, IsDirty, records
<1> QED BY <1>4, <1>5, <1>6 DEF SessionInv

(* Opening a file forgets everything about the project before.             *)
LEMMA LoadKeeps ==
  ASSUME NEW file \in Files, NEW drawn \in Drawable(file), Load(file, drawn),
         refreshPending \in BOOLEAN
  PROVE  SessionInv'
<1>1. drawn \in SUBSET Refs
  BY RefsInTyped DEF Drawable, Files
<1>2. PICK s \in Seq(Records) : s = file.components
  BY DEF Files
<1>3. PICK w : w = Reading(file, drawn)
  OBVIOUS
<1>4. w \in ProjectDocs /\ DesignOf(w) = file
  BY <1>1, <1>3, Reread
<1>5. /\ disk' = file /\ projectDocument' = w /\ design' = file /\ graph' = drawn
      /\ document' = OpenedOn(s) /\ undoStack' = <<>> /\ redoStack' = <<>>
      /\ currentStateId' = 0 /\ nextStateId' = 1
      /\ designDirty' = FALSE /\ stateDirty' = FALSE /\ stale' = FALSE
      /\ dirty' = IsDirty' /\ refreshPending' = refreshPending
  BY <1>2, <1>3 DEF Load, ClearHistory, RefreshDirty
<1>6. document' \in Workspaces /\ document'.records = s
  BY <1>5, OpenedTyped
<1>7. dirty' \in BOOLEAN /\ InTouch'
  <2>1. IsDirty' \in BOOLEAN
    BY DEF IsDirty
  <2> QED BY <1>5, <2>1, Zenon DEF InTouch
<1>8. HistoryInv'
  BY <1>5, <1>6, EmptyStack DEF HistoryInv
<1>9. CopiesTyped'
  BY <1>1, <1>4, <1>5, <1>7 DEF CopiesTyped
<1>10. Agree'
  BY <1>2, <1>4, <1>5, <1>6 DEF Agree, records
<1> QED BY <1>7, <1>8, <1>9, <1>10 DEF SessionInv

LEMMA OpenKeeps ==
  ASSUME SessionInv, OpenAtOnce \/ DiscardAndOpen
  PROVE  SessionInv' /\ designDirty' = FALSE
<1>1. PICK file \in Projects \cup {disk} : \E drawn \in Drawable(file) : Load(file, drawn)
  BY DEF OpenAtOnce, DiscardAndOpen
<1>2. file \in Files /\ refreshPending \in BOOLEAN
  BY ProjectSessionAssumption DEF SessionInv, CopiesTyped, Files
<1> QED BY <1>1, <1>2, LoadKeeps DEF Load

LEMMA TimerAndRefusalKeep ==
  ASSUME SessionInv, OpenFails \/ RefreshDocumentState \/ UNCHANGED sessionVars
  PROVE  SessionInv'
<1>1. UNCHANGED <<undoStack, redoStack, currentStateId, nextStateId, document,
                  projectDocument, design, graph, disk, designDirty, stateDirty, cleanStateId>>
  BY DEF OpenFails, RefreshDocumentState, history, copies, flags, sessionVars
<1>2. stale' = TRUE \/ stale' = stale
  BY DEF OpenFails, RefreshDocumentState, flags, sessionVars
<1>3. IsDirty' = IsDirty /\ IsDirty \in BOOLEAN
  BY <1>1 DEF IsDirty
<1>4. CASE dirty' = dirty /\ refreshPending' = refreshPending
  <2>1. CopiesTyped' /\ InTouch'
    BY <1>1, <1>2, <1>3, <1>4 DEF SessionInv, CopiesTyped, InTouch
  <2> QED BY <1>1, <1>2, <2>1 DEF SessionInv, HistoryInv, Agree, records
<1>5. CASE dirty' = IsDirty' /\ refreshPending' = FALSE
  <2>1. InTouch' /\ dirty' \in BOOLEAN
    BY <1>3, <1>5, Zenon DEF InTouch
  <2>2. CopiesTyped'
    BY <1>1, <1>2, <1>5, <2>1 DEF SessionInv, CopiesTyped
  <2> QED BY <1>1, <1>2, <2>1, <2>2 DEF SessionInv, HistoryInv, Agree, records
<1> QED BY <1>4, <1>5 DEF OpenFails, RefreshDocumentState, RefreshDirty, flags, sessionVars

-----------------------------------------------------------------------------
LEMMA InvHoldsAtFirst == SessionInit => SessionInv
<1> SUFFICES ASSUME SessionInit PROVE SessionInv
  OBVIOUS
<1>1. disk \in Files /\ graph \in Drawable(disk)
  BY ProjectSessionAssumption DEF SessionInit, Files
<1>2. PICK s \in Seq(Records) : s = disk.components
  BY <1>1 DEF Files
<1>3. graph \in SUBSET Refs
  BY <1>1, RefsInTyped DEF Drawable, Files
<1>4. projectDocument \in ProjectDocs /\ DesignOf(projectDocument) = disk
  BY <1>1, <1>3, Reread DEF SessionInit
<1>5. document \in Workspaces /\ records = s
  BY <1>2, OpenedTyped DEF SessionInit, records
<1>6. HistoryInv
  BY <1>5, EmptyStack DEF SessionInit, HistoryInv
<1>7. CopiesTyped
  BY <1>1, <1>3, <1>4 DEF SessionInit, CopiesTyped
<1>8. Agree /\ InTouch
  BY <1>2, <1>4, <1>5 DEF SessionInit, Agree, InTouch, IsDirty
<1> QED BY <1>6, <1>7, <1>8 DEF SessionInv

LEMMA InvHolds == SessionSpec => []SessionInv
<1>1. SessionInv /\ [SessionNext]_sessionVars => SessionInv'
  BY CommandKeeps, PatchedKeeps, ReloadKeeps, SaveKeeps, SaveFailsKeeps, OpenKeeps,
     TimerAndRefusalKeep DEF SessionNext
<1> QED BY <1>1, InvHoldsAtFirst, PTL DEF SessionSpec

(* When the title shows no change and no refresh is due, the file holds    *)
(* the document, the design and, unless the editor is stale, the records:  *)
(* MainWindow::maybeSaveChanges may close without asking.                  *)
THEOREM CleanAlwaysSaved == SessionSpec => []CleanIsSaved
<1>1. SessionInv => CleanIsSaved
  BY DEF SessionInv, CopiesTyped, Agree, InTouch, IsDirty, CleanIsSaved, FileOf
<1> QED BY <1>1, InvHolds, PTL

(* A save writes the layout the user last gave the canvas, whatever has    *)
(* unsaved changes: MainWindow::saveDocument merges the design in on every *)
(* path that does not have it already.                                     *)
THEOREM LayoutAlwaysSaved == SessionSpec => LayoutIsSaved
<1>1. SessionInv => (SaveDocument => disk'.views = design.views)
  BY SaveKeeps
<1> QED BY <1>1, InvHolds, PTL DEF LayoutIsSaved, SessionSpec

(* What a command that takes effect does while a design edit is unsaved.   *)
MergedByCommand ==
  currentStateId' # currentStateId /\ designDirty /\ designDirty' =>
    /\ ToSet(document'.records) \subseteq ToSet(design'.components)
    /\ IdsIn(design.components) \subseteq IdsIn(design'.components)
    /\ design'.views = design.views

LEMMA ReflectMerges ==
  ASSUME SessionInv, CallKeeps, ReflectCommand, dirty' \in BOOLEAN
  PROVE  MergedByCommand
<1> SUFFICES ASSUME currentStateId' # currentStateId, designDirty
             PROVE  /\ ToSet(document'.records) \subseteq ToSet(design'.components)
                    /\ IdsIn(design.components) \subseteq IdsIn(design'.components)
                    /\ design'.views = design.views
  BY DEF MergedByCommand
<1>1. PICK s \in Seq(Records) : s = document'.records
  BY WorkspaceParts DEF CallKeeps, HistoryInv
<1>2. SyncFromRecords(s)
  BY <1>1 DEF ReflectCommand
<1> QED BY <1>1, <1>2, SyncKeeps DEF SessionInv

LEMMA CommandMerges ==
  ASSUME SessionInv, Commanded
  PROVE  MergedByCommand
<1>1. dirty' \in BOOLEAN
  BY CommandKeeps DEF SessionInv, CopiesTyped
<1>2. CallKeeps /\ ReflectCommand
  <2>1. HistoryInv
    BY DEF SessionInv
  <2>2. ASSUME NEW c \in Cores, AddIpcore(c) PROVE CallKeeps /\ ReflectCommand
    <3>1. AddCommand(c) \in NewCommands
      BY DEF NewCommands
    <3> QED BY <2>1, <2>2, <3>1, ExecuteKeeps DEF AddIpcore
  <2>3. ASSUME NEW ref \in Refs, NEW v \in Values, SetIpParameter(ref, v)
        PROVE  CallKeeps /\ ReflectCommand
    <3>1. SetCommand(ref, v) \in NewCommands
      BY DEF NewCommands
    <3> QED BY <2>1, <2>3, <3>1, ExecuteKeeps DEF SetIpParameter
  <2>4. CASE UndoInSession
    BY <2>1, <2>4, UndoKeeps DEF UndoInSession
  <2>5. CASE RedoInSession
    BY <2>1, <2>5, RedoKeeps DEF RedoInSession
  <2> QED BY <2>2, <2>3, <2>4, <2>5 DEF Commanded
<1> QED BY <1>1, <1>2, ReflectMerges

(* Two owners, one document: a command that takes effect while a design    *)
(* edit is unsaved gives the design its instances and values and leaves it *)
(* its own components and views (syncProjectServiceFromStateService).      *)
THEOREM OwnersAlwaysMerge == SessionSpec => OwnersMerge
<1>1. SessionInv /\ [SessionNext]_sessionVars => MergedByCommand
  <2> SUFFICES ASSUME SessionInv, [SessionNext]_sessionVars PROVE MergedByCommand
    OBVIOUS
  <2>1. CASE Commanded
    BY <2>1, CommandMerges
  <2>2. CASE OpenAtOnce \/ DiscardAndOpen
    BY <2>2, OpenKeeps DEF MergedByCommand
  <2>3. CASE Patched \/ ReloadCatalog \/ SaveDocument \/ SaveFails \/ OpenFails
             \/ RefreshDocumentState \/ UNCHANGED sessionVars
    <3>1. currentStateId' = currentStateId
      BY <2>3 DEF Patched, AddComponent, RemoveComponent, SetComponentConfig, MoveNodes,
           ApplyPatch, ReloadCatalog, SaveDocument, SaveFails, OpenFails,
           RefreshDocumentState, history, sessionVars
    <3> QED BY <3>1 DEF MergedByCommand
  <2> QED BY <2>1, <2>2, <2>3 DEF SessionNext
<1>2. MergedByCommand =>
        [currentStateId' # currentStateId /\ designDirty /\ designDirty' =>
           /\ ToSet(document'.records) \subseteq ToSet(design'.components)
           /\ IdsIn(design.components) \subseteq IdsIn(design'.components)
           /\ design'.views = design.views]_sessionVars
  BY DEF MergedByCommand
<1> QED BY <1>1, <1>2, InvHolds, PTL DEF OwnersMerge, SessionSpec

=============================================================================
