------------------------- MODULE DesignEditingProofs ------------------------
(***************************************************************************)
(* What holds of DesignEditing for every set of patches and seeds and      *)
(* every bound: it implements DesignTimeline, and whatever it leads to is  *)
(* a sound design.                                                         *)
(***************************************************************************)
EXTENDS DesignEditing, SequenceTheorems, NaturalsInduction, WellFoundedInduction, TLAPS

(* A sequence is one over any set that holds its entries.                  *)
LEMMA SequenceOver ==
  ASSUME NEW s, IsSequence(s), NEW S, ToSet(s) \subseteq S
  PROVE  s \in Seq(S)
BY SeqMonotonic DEF IsSequence

LEMMA SequenceItself ==
  ASSUME NEW S, NEW s \in Seq(S)
  PROVE  IsSequence(s)
<1>1. Len(s) \in Nat /\ DOMAIN s = 1 .. Len(s) /\ s \in [1 .. Len(s) -> S]
  BY LenProperties
<1>2. \A i \in 1 .. Len(s) : s[i] \in ToSet(s)
  BY <1>1 DEF ToSet
<1>3. s \in [1 .. Len(s) -> ToSet(s)]
  BY <1>1, <1>2
<1> QED BY <1>1, <1>3 DEF IsSequence

LEMMA ReverseEntries ==
  ASSUME NEW S, NEW s \in Seq(S)
  PROVE  /\ Reverse(s) \in Seq(S)
         /\ Len(Reverse(s)) = Len(s)
         /\ \A i \in 1 .. Len(s) : Reverse(s)[i] = s[Len(s) - i + 1]
<1>1. PICK n \in Nat : n = Len(s) /\ \A i \in 1 .. n : s[i] \in S
  BY LenProperties, ElementOfSeq
<1>2. Reverse(s) = [i \in 1 .. n |-> s[(n - i) + 1]]
  BY <1>1 DEF Reverse
<1>3. \A i \in 1 .. n : (n - i) + 1 \in 1 .. n
  BY <1>1
<1>4. [i \in 1 .. n |-> s[(n - i) + 1]] \in [1 .. n -> S]
  BY <1>1, <1>3
<1> QED BY <1>1, <1>2, <1>4

(* The entries of a line.                                                  *)
IsLine(l, S, u, d, r) ==
  /\ l \in Seq(S)
  /\ Len(l) = Len(u) + 1 + Len(r)
  /\ \A i \in 1 .. Len(u) : l[i] = u[i]
  /\ l[Len(u) + 1] = d
  /\ \A i \in 1 .. Len(r) : l[Len(u) + 1 + i] = r[Len(r) - i + 1]

LEMMA LineEntries ==
  ASSUME NEW S, NEW u \in Seq(S), NEW d \in S, NEW r \in Seq(S)
  PROVE  IsLine(Line(u, d, r), S, u, d, r)
<1> DEFINE p == u \o <<d>>
           q == Reverse(r)
<1>1. Len(u) \in Nat /\ Len(r) \in Nat
  BY LenProperties
<1>2. <<d>> \in Seq(S) /\ Len(<<d>>) = 1 /\ <<d>>[1] = d
  OBVIOUS
<1>3. /\ p \in Seq(S) /\ Len(p) = Len(u) + 1
      /\ \A i \in 1 .. Len(u) + 1 : p[i] = IF i <= Len(u) THEN u[i] ELSE <<d>>[i - Len(u)]
  BY <1>2, ConcatProperties
<1>4. q \in Seq(S) /\ Len(q) = Len(r) /\ \A i \in 1 .. Len(r) : q[i] = r[Len(r) - i + 1]
  BY ReverseEntries
<1> HIDE DEF p, q
<1>5. /\ p \o q \in Seq(S) /\ Len(p \o q) = Len(p) + Len(q)
      /\ \A i \in 1 .. Len(p) + Len(q) :
           (p \o q)[i] = IF i <= Len(p) THEN p[i] ELSE q[i - Len(p)]
  <2>1. p \in Seq(S) /\ q \in Seq(S)
    BY <1>3, <1>4
  <2> QED BY ONLY <2>1, ConcatProperties
<1>6. Line(u, d, r) = p \o q
  BY DEF Line, p, q
<1>7. \A i \in 1 .. Len(u) : (p \o q)[i] = u[i]
  BY <1>1, <1>3, <1>4, <1>5
<1>8. (p \o q)[Len(u) + 1] = d
  BY <1>1, <1>2, <1>3, <1>4, <1>5
<1>9. ASSUME NEW i \in 1 .. Len(r)
      PROVE  (p \o q)[Len(u) + 1 + i] = r[Len(r) - i + 1]
  <2>1. Len(u) + 1 + i \in 1 .. Len(p) + Len(q) /\ ~(Len(u) + 1 + i <= Len(p))
        /\ Len(u) + 1 + i - Len(p) = i
    BY <1>1, <1>3, <1>4
  <2> QED BY <2>1, <1>4, <1>5
<1> QED BY <1>1, <1>3, <1>4, <1>5, <1>6, <1>7, <1>8, <1>9 DEF IsLine

LEMMA FrontEntries ==
  ASSUME NEW S, NEW s \in Seq(S), s # << >>
  PROVE  /\ Len(s) \in Nat \ {0}
         /\ Front(s) \in Seq(S) /\ Len(Front(s)) = Len(s) - 1
         /\ \A i \in 1 .. Len(s) - 1 : Front(s)[i] = s[i]
         /\ Last(s) = s[Len(s)] /\ Last(s) \in S
<1>1. PICK n \in Nat \ {0} : n = Len(s)
  BY EmptySeq
<1>2. \A i \in 1 .. n : s[i] \in S
  BY <1>1, ElementOfSeq
<1>3. /\ SubSeq(s, 1, n - 1) \in Seq(S)
      /\ Len(SubSeq(s, 1, n - 1)) = IF 1 <= n - 1 THEN n - 1 - 1 + 1 ELSE 0
      /\ \A i \in 1 .. n - 1 - 1 + 1 : SubSeq(s, 1, n - 1)[i] = s[1 + i - 1]
  BY <1>1, <1>2, SubSeqProperties
<1>4. Front(s) = SubSeq(s, 1, n - 1) /\ Last(s) = s[n]
  BY <1>1 DEF Front, Last
<1> HIDE DEF Front
<1>5. Len(Front(s)) = n - 1
  BY <1>1, <1>3, <1>4
<1>6. \A i \in 1 .. n - 1 : Front(s)[i] = s[i]
  BY <1>1, <1>3, <1>4
<1> QED BY <1>1, <1>2, <1>3, <1>4, <1>5, <1>6

(* Undo and redo pass an entry from one side of the current design to the  *)
(* other, which leaves the line as it was.                                 *)
LEMMA LineKept ==
  ASSUME NEW S, NEW u \in Seq(S), NEW d \in S, NEW r \in Seq(S), u # << >>
  PROVE  Line(Front(u), Last(u), Append(r, d)) = Line(u, d, r)
<1> DEFINE L == Line(u, d, r)
           f == Front(u)
           q == Append(r, d)
           M == Line(f, Last(u), q)
<1>1. /\ Len(u) \in Nat \ {0}
      /\ f \in Seq(S) /\ Len(f) = Len(u) - 1
      /\ \A i \in 1 .. Len(u) - 1 : f[i] = u[i]
      /\ Last(u) = u[Len(u)] /\ Last(u) \in S
  BY FrontEntries
<1>2. /\ Len(r) \in Nat
      /\ q \in Seq(S) /\ Len(q) = Len(r) + 1 /\ q[Len(r) + 1] = d
      /\ \A i \in 1 .. Len(r) : q[i] = r[i]
  BY LenProperties
<1> HIDE DEF f, q
<1> HIDE DEF L, M
<1>3. IsLine(L, S, u, d, r)
  BY LineEntries DEF L
<1>4. IsLine(M, S, f, Last(u), q)
  BY <1>1, <1>2, LineEntries DEF M
<1> USE DEF IsLine
<1>5. ASSUME NEW i \in 1 .. Len(L) PROVE L[i] = M[i]
  <2>1. CASE i < Len(u)
    <3>1. i \in 1 .. Len(u) /\ i \in 1 .. Len(u) - 1 /\ i \in 1 .. Len(f)
      BY <2>1, <1>1
    <3> QED BY <3>1, <1>1, <1>3, <1>4
  <2>2. CASE i = Len(u)
    <3>1. i \in 1 .. Len(u) /\ i = Len(f) + 1
      BY <2>2, <1>1
    <3> QED BY <3>1, <2>2, <1>1, <1>3, <1>4
  <2>3. CASE i = Len(u) + 1
    <3>1. 1 \in 1 .. Len(q) /\ i = Len(f) + 1 + 1 /\ Len(q) - 1 + 1 = Len(r) + 1
      BY <2>3, <1>1, <1>2
    <3> QED BY <3>1, <2>3, <1>2, <1>3, <1>4
  <2>4. CASE i > Len(u) + 1
    <3>1. PICK j \in 1 .. Len(r) : i = Len(u) + 1 + j
      <4>1. i - Len(u) - 1 \in 1 .. Len(r) /\ i = Len(u) + 1 + (i - Len(u) - 1)
        BY <2>4, <1>1, <1>2, <1>3
      <4> QED BY <4>1
    <3>2. /\ j + 1 \in 1 .. Len(q) /\ i = Len(f) + 1 + (j + 1)
          /\ Len(q) - (j + 1) + 1 = Len(r) - j + 1
          /\ Len(r) - j + 1 \in 1 .. Len(r)
      BY <3>1, <1>1, <1>2
    <3>3. M[i] = q[Len(r) - j + 1] /\ L[i] = r[Len(r) - j + 1]
      BY <3>1, <3>2, <1>3, <1>4
    <3> QED BY <3>2, <3>3, <1>2
  <2> QED BY <2>1, <2>2, <2>3, <2>4, <1>1, <1>2, <1>3
<1>6. Len(L) = Len(M)
  BY <1>1, <1>2, <1>3, <1>4
<1>7. L = M
  BY <1>3, <1>4, <1>5, <1>6, SeqEqual
<1> QED BY <1>7 DEF L, M, f, q

-----------------------------------------------------------------------------
(* The snapshots and the design, as one set.                               *)
Snapshots == ToSet(undo) \cup ToSet(redo) \cup {design}

LEMMA StacksOfSnapshots ==
  ASSUME TypeOK
  PROVE  /\ undo \in Seq(Snapshots) /\ redo \in Seq(Snapshots) /\ design \in Snapshots
         /\ Len(undo) \in Nat /\ Len(redo) \in Nat
<1>1. ToSet(undo) \subseteq Snapshots /\ ToSet(redo) \subseteq Snapshots /\ design \in Snapshots
  BY DEF Snapshots
<1>2. undo \in Seq(Snapshots) /\ redo \in Seq(Snapshots)
  BY <1>1, SequenceOver DEF TypeOK
<1> QED BY <1>1, <1>2, LenProperties

LEMMA PatchLength ==
  ASSUME NEW ops \in Patches
  PROVE  Len(ops) \in Nat \ {0}
BY DesignEditingAssumption, EmptySeq

(* Pushing and popping leaves sequences.                                   *)
LEMMA Pushed ==
  ASSUME NEW S, NEW s \in Seq(S), NEW d \in S
  PROVE  IsSequence(Append(s, d)) /\ Len(Append(s, d)) = Len(s) + 1
<1>1. Append(s, d) \in Seq(S) /\ Len(Append(s, d)) = Len(s) + 1
  OBVIOUS
<1> QED BY <1>1, SequenceItself

LEMMA Popped ==
  ASSUME NEW S, NEW s \in Seq(S), s # << >>
  PROVE  IsSequence(Front(s)) /\ Len(Front(s)) = Len(s) - 1 /\ Len(s) \in Nat \ {0}
BY FrontEntries, SequenceItself

LEMMA EmptyIsSequence == IsSequence(<< >>) /\ Len(<< >>) = 0
BY EmptySeq, SequenceItself

(* The service keeps its types: in particular the loop variable never runs *)
(* past the patch, and a returned applyPatch leaves no copy behind.        *)
THEOREM TypeCorrect == Spec => []TypeOK
<1>1. Init => TypeOK
  BY EmptyIsSequence, DesignEditingAssumption DEF Init, TypeOK
<1>2. TypeOK /\ [Next]_vars => TypeOK'
  <2> SUFFICES ASSUME TypeOK, [Next]_vars PROVE TypeOK'
    OBVIOUS
  <2> USE StacksOfSnapshots, DesignEditingAssumption
  <2>1. CASE ReplaceDesign
    BY <2>1, EmptyIsSequence DEF ReplaceDesign, TypeOK, Returned
  <2>2. CASE BeginPatch
    BY <2>2, PatchLength DEF BeginPatch, TypeOK, Returned
  <2>3. CASE ApplyOperation
    BY <2>3, PatchLength DEF ApplyOperation, Applying, TypeOK, Returned
  <2>4. CASE RejectOperation
    BY <2>4 DEF RejectOperation, Return, TypeOK
  <2>5. CASE Commit
    <3>1. IsSequence(undo') /\ Len(undo') = Len(undo) + 1 /\ IsSequence(redo') /\ Len(redo') = 0
      BY <2>5, Pushed, EmptyIsSequence DEF Commit
    <3>2. Len(undo) + Len(redo) < MaxHistory
      BY <2>5 DEF Commit, Finished, Returned, TypeOK
    <3> QED BY <2>5, <3>1, <3>2 DEF Commit, Return, TypeOK
  <2>6. CASE RejectCandidate
    BY <2>6 DEF RejectCandidate, Return, TypeOK
  <2>7. CASE Undo
    <3>1. IsSequence(redo') /\ Len(redo') = Len(redo) + 1
          /\ IsSequence(undo') /\ Len(undo') = Len(undo) - 1
      BY <2>7, Pushed, Popped DEF Undo
    <3> QED BY <2>7, <3>1 DEF Undo, Returned, TypeOK
  <2>8. CASE Redo
    <3>1. IsSequence(undo') /\ Len(undo') = Len(undo) + 1
          /\ IsSequence(redo') /\ Len(redo') = Len(redo) - 1
      BY <2>8, Pushed, Popped DEF Redo
    <3> QED BY <2>8, <3>1 DEF Redo, Returned, TypeOK
  <2>9. CASE UNCHANGED vars
    BY <2>9 DEF vars, TypeOK
  <2> QED BY <2>1, <2>2, <2>3, <2>4, <2>5, <2>6, <2>7, <2>8, <2>9 DEF Next
<1> QED BY <1>1, <1>2, PTL DEF Spec

-----------------------------------------------------------------------------
(* The other way round: redo.                                              *)
LEMMA LineKeptBack ==
  ASSUME NEW S, NEW u \in Seq(S), NEW d \in S, NEW r \in Seq(S), r # << >>
  PROVE  Line(Append(u, d), Last(r), Front(r)) = Line(u, d, r)
<1> DEFINE p == Append(u, d)
           f == Front(r)
<1>1. /\ Len(r) \in Nat \ {0}
      /\ f \in Seq(S) /\ Len(f) = Len(r) - 1
      /\ \A i \in 1 .. Len(r) - 1 : f[i] = r[i]
      /\ Last(r) = r[Len(r)] /\ Last(r) \in S
  BY FrontEntries
<1>2. /\ Len(u) \in Nat
      /\ p \in Seq(S) /\ Len(p) = Len(u) + 1 /\ p[Len(u) + 1] = d
      /\ \A i \in 1 .. Len(u) : p[i] = u[i]
  BY LenProperties
<1> HIDE DEF p, f
<1>3. p # << >>
  BY <1>2, EmptySeq
<1>4. Front(p) = u /\ Last(p) = d
  <2>1. /\ Front(p) \in Seq(S) /\ Len(Front(p)) = Len(p) - 1
        /\ \A i \in 1 .. Len(p) - 1 : Front(p)[i] = p[i]
        /\ Last(p) = p[Len(p)]
    BY <1>2, <1>3, FrontEntries
  <2>2. Len(Front(p)) = Len(u) /\ \A i \in 1 .. Len(Front(p)) : Front(p)[i] = u[i]
    BY <2>1, <1>2
  <2> QED BY <2>1, <2>2, <1>2, SeqEqual
<1>5. Append(f, Last(r)) = r
  <2>1. /\ Append(f, Last(r)) \in Seq(S) /\ Len(Append(f, Last(r))) = Len(r)
        /\ \A i \in 1 .. Len(r) : Append(f, Last(r))[i] = r[i]
    BY <1>1
  <2> QED BY <2>1, SeqEqual
<1>6. Line(Front(p), Last(p), Append(f, Last(r))) = Line(p, Last(r), f)
  BY <1>1, <1>2, <1>3, LineKept
<1> QED BY <1>4, <1>5, <1>6 DEF p, f

(* A line of one design, and the line after an edit.                       *)
LEMMA LineOfOne ==
  ASSUME NEW d
  PROVE  Line(<< >>, d, << >>) = <<d>>
<1>1. << >> \in Seq({d}) /\ Len(<< >>) = 0 /\ <<d>> \in Seq({d}) /\ Len(<<d>>) = 1 /\ <<d>>[1] = d
  OBVIOUS
<1>2. IsLine(Line(<< >>, d, << >>), {d}, << >>, d, << >>)
  BY <1>1, LineEntries
<1> QED BY <1>1, <1>2, SeqEqual DEF IsLine

LEMMA LineAfterEdit ==
  ASSUME NEW S, NEW u \in Seq(S), NEW d \in S, NEW r \in Seq(S), NEW c \in S
  PROVE  LET old == Line(u, d, r)
             new == Line(Append(u, d), c, << >>)
         IN  /\ old \in Seq(S) /\ new \in Seq(S)
             /\ Len(u) \in Nat /\ Len(old) >= Len(u) + 1 /\ Len(new) = Len(u) + 2
             /\ new[Len(u) + 2] = c
             /\ \A i \in 1 .. Len(u) + 1 : new[i] = old[i]
<1> DEFINE old == Line(u, d, r)
           p == Append(u, d)
           new == Line(p, c, << >>)
<1>1. /\ Len(u) \in Nat /\ Len(r) \in Nat
      /\ p \in Seq(S) /\ Len(p) = Len(u) + 1 /\ p[Len(u) + 1] = d
      /\ \A i \in 1 .. Len(u) : p[i] = u[i]
      /\ << >> \in Seq(S) /\ Len(<< >>) = 0
  BY LenProperties
<1> HIDE DEF p
<1>2. IsLine(old, S, u, d, r)
  BY LineEntries
<1>3. IsLine(new, S, p, c, << >>)
  BY <1>1, LineEntries
<1> HIDE DEF old, new
<1>4. ASSUME NEW i \in 1 .. Len(u) + 1 PROVE new[i] = old[i]
  <2>1. new[i] = p[i]
    BY <1>1, <1>3 DEF IsLine
  <2>2. CASE i = Len(u) + 1
    BY <2>1, <2>2, <1>1, <1>2 DEF IsLine
  <2>3. CASE i \in 1 .. Len(u)
    BY <2>1, <2>3, <1>1, <1>2 DEF IsLine
  <2> QED BY <2>2, <2>3, <1>1
<1>5. /\ old \in Seq(S) /\ new \in Seq(S)
      /\ Len(old) >= Len(u) + 1 /\ Len(new) = Len(u) + 2 /\ new[Len(u) + 2] = c
  BY <1>1, <1>2, <1>3 DEF IsLine
<1> QED BY <1>1, <1>4, <1>5 DEF old, new, p

LEMMA SamePrefix ==
  ASSUME NEW S, NEW s \in Seq(S), NEW t \in Seq(S), NEW n \in Nat,
         n <= Len(s), n <= Len(t), \A i \in 1 .. n : s[i] = t[i]
  PROVE  SubSeq(s, 1, n) = SubSeq(t, 1, n)
BY LenProperties, SMTT(30)

-----------------------------------------------------------------------------
(* What the steps do to the timeline.                                      *)
LEMMA TimelineSteps ==
  ASSUME TypeOK, [Next]_vars
  PROVE  \/ \E seed \in Seeds : Timeline' = <<seed>> /\ Len(undo') = 0
         \/ Commit
         \/ /\ Timeline' = Timeline
            /\ \/ undo' = undo
               \/ Len(undo) \in Nat \ {0} /\ Len(undo') = Len(undo) - 1
               \/ /\ Len(undo') = Len(undo) + 1
                  /\ Len(undo') + 1 <= Len(Timeline)
<1> USE StacksOfSnapshots
<1>1. CASE ReplaceDesign
  BY <1>1, LineOfOne, EmptyIsSequence DEF ReplaceDesign, Timeline
<1>2. CASE BeginPatch \/ ApplyOperation \/ RejectOperation \/ RejectCandidate \/ UNCHANGED vars
  BY <1>2 DEF BeginPatch, ApplyOperation, RejectOperation, RejectCandidate, vars, Timeline
<1>3. CASE Undo
  <2>1. Timeline' = Timeline
    BY <1>3, LineKept DEF Undo, Timeline
  <2>2. Len(undo) \in Nat \ {0} /\ Len(undo') = Len(undo) - 1
    BY <1>3, Popped DEF Undo
  <2> QED BY <2>1, <2>2
<1>4. CASE Redo
  <2>1. Timeline' = Timeline
    BY <1>4, LineKeptBack DEF Redo, Timeline
  <2>2. Len(undo') = Len(undo) + 1
    BY <1>4, Pushed DEF Redo
  <2>3. Len(redo) \in Nat \ {0}
    BY <1>4, Popped DEF Redo
  <2>4. Len(Timeline) = Len(undo) + 1 + Len(redo)
    BY LineEntries DEF Timeline, IsLine
  <2> QED BY <2>1, <2>2, <2>3, <2>4
<1> QED BY <1>1, <1>2, <1>3, <1>4 DEF Next

LEMMA CommitOnTimeline ==
  ASSUME TypeOK, Commit
  PROVE  /\ Len(undo) \in Nat /\ Len(undo') = Len(undo) + 1
         /\ Len(Timeline) >= Len(undo) + 1 /\ Len(Timeline') = Len(undo) + 2
         /\ \A i \in 1 .. Len(undo) + 1 : Timeline'[i] = Timeline[i]
         /\ SubSeq(Timeline', 1, Len(undo) + 1) = SubSeq(Timeline, 1, Len(undo) + 1)
         /\ Timeline'[Len(undo) + 2] = candidate /\ Valid(candidate)
<1> DEFINE S == Snapshots \cup {candidate}
           new == Line(Append(undo, design), candidate, << >>)
<1>1. undo \in Seq(S) /\ redo \in Seq(S) /\ design \in S /\ candidate \in S
  BY StacksOfSnapshots, SeqMonotonic
<1>2. Timeline' = new /\ Valid(candidate)
  BY DEF Commit, Return, Timeline
<1>3. Len(undo') = Len(undo) + 1
  BY <1>1, Pushed DEF Commit
<1>4. /\ Timeline \in Seq(S) /\ new \in Seq(S)
      /\ Len(undo) \in Nat /\ Len(Timeline) >= Len(undo) + 1 /\ Len(new) = Len(undo) + 2
      /\ new[Len(undo) + 2] = candidate
      /\ \A i \in 1 .. Len(undo) + 1 : new[i] = Timeline[i]
  BY <1>1, LineAfterEdit DEF Timeline
<1> HIDE DEF S, new
<1>5. SubSeq(new, 1, Len(undo) + 1) = SubSeq(Timeline, 1, Len(undo) + 1)
  <2>1. Len(undo) + 1 \in Nat /\ Len(undo) + 1 <= Len(new)
    BY <1>4
  <2> QED BY <2>1, <1>4, SamePrefix
<1> QED BY <1>2, <1>3, <1>4, <1>5

(* DesignEditing implements DesignTimeline: a patch half applied is not on *)
(* the line, a patch that is refused leaves no trace, and undo and redo    *)
(* return to exactly the designs that were there.                          *)
THEOREM ImplementsTimelineHolds == Spec => ImplementsTimeline
<1>1. Init => Abstract!Init
  <2> SUFFICES ASSUME Init PROVE Abstract!Init
    OBVIOUS
  <2>1. Timeline = <<design>> /\ design \in Seeds /\ Len(undo) = 0
    BY LineOfOne, EmptyIsSequence DEF Init, Timeline
  <2> QED BY <2>1 DEF Abstract!Init
<1>2. TypeOK /\ [Next]_vars => [Abstract!Next]_(Abstract!tvars)
  <2> SUFFICES ASSUME TypeOK, [Next]_vars
               PROVE  Abstract!Next \/ UNCHANGED Abstract!tvars
    OBVIOUS
  <2>1. CASE \E seed \in Seeds : Timeline' = <<seed>> /\ Len(undo') = 0
    BY <2>1 DEF Abstract!Next, Abstract!Replace
  <2>2. CASE Commit
    <3>1. Abstract!Edit
      BY <2>2, CommitOnTimeline DEF Abstract!Edit
    <3> QED BY <3>1 DEF Abstract!Next
  <2>3. CASE Timeline' = Timeline /\ undo' = undo
    BY <2>3 DEF Abstract!tvars
  <2>4. CASE Timeline' = Timeline /\ Len(undo) \in Nat \ {0} /\ Len(undo') = Len(undo) - 1
    BY <2>4 DEF Abstract!Next, Abstract!Back
  <2>5. CASE /\ Timeline' = Timeline
             /\ Len(undo') = Len(undo) + 1 /\ Len(undo') + 1 <= Len(Timeline)
    <3>1. Len(undo) \in Nat /\ Len(Timeline) \in Nat
      BY StacksOfSnapshots, LineEntries, LenProperties DEF Timeline, IsLine
    <3> QED BY <2>5, <3>1 DEF Abstract!Next, Abstract!Forward
  <2> QED BY <2>1, <2>2, <2>3, <2>4, <2>5, TimelineSteps
<1> QED BY <1>1, <1>2, TypeCorrect, PTL DEF Spec, ImplementsTimeline, Abstract!Spec

-----------------------------------------------------------------------------
(* What the validator accepts is sound in the words of the property, which *)
(* speaks of names and of what they refer to.                              *)
LEMMA DistinctNames ==
  ASSUME NEW list, DistinctIds(list)
  PROVE  NamesOneThing(list)
BY DEF DistinctIds, NamesOneThing, IdsOf

LEMMA ValidIsSound ==
  ASSUME NEW d, Valid(d)
  PROVE  SoundDesign(d)
<1>1. /\ NamesOneThing(d.components) /\ NamesOneThing(d.connections)
      /\ NamesOneThing(d.topologies) /\ NamesOneThing(d.views)
  BY DistinctNames DEF Valid
<1>2. {component.package : component \in ToSet(d.components)} \subseteq ToSet(d.packages)
  BY DEF Valid, ValidComponent
<1>3. \A component \in ToSet(d.components) : component.config \cap LayoutKeys = {}
  BY DEF Valid, ValidComponent
<1>4. ASSUME NEW c \in ToSet(d.connections)
      PROVE  /\ {c.from[1], c.to[1]} \subseteq IdsOf(d.components)
             /\ d.interfaces # {} => {c.from, c.to} \subseteq d.interfaces
  BY <1>4 DEF Valid, EndsAreThere
<1>5. UNION {{c.from[1], c.to[1]} : c \in ToSet(d.connections)} \subseteq IdsOf(d.components)
  BY <1>4
<1>6. {interface[1] : interface \in d.interfaces} \subseteq IdsOf(d.components)
  BY DEF Valid
<1>7. \/ d.interfaces = {}
      \/ UNION {{c.from, c.to} : c \in ToSet(d.connections)} \subseteq d.interfaces
  BY <1>4
<1>8. \A topology \in ToSet(d.topologies) : NamesOneThing(topology.attachments)
  BY DistinctNames DEF Valid, ValidTopology
<1> QED BY <1>1, <1>2, <1>3, <1>5, <1>6, <1>7, <1>8 DEF SoundDesign

(* Only the first design of the line need not be valid: the seed the       *)
(* project was opened with.                                                *)
LaterAreValid == \A i \in 2 .. Len(Timeline) : Valid(Timeline[i])

(* Whatever undo, redo and patches lead to is a sound design or the one    *)
(* the project was opened with.                                            *)
THEOREM SnapshotsAlwaysSound == Spec => []SnapshotsAreSound
<1>1. Init => LaterAreValid
  <2> SUFFICES ASSUME Init PROVE LaterAreValid
    OBVIOUS
  <2>1. Timeline = <<design>>
    BY LineOfOne DEF Init, Timeline
  <2> QED BY <2>1 DEF LaterAreValid
<1>2. TypeOK /\ LaterAreValid /\ [Next]_vars => LaterAreValid'
  <2> SUFFICES ASSUME TypeOK, LaterAreValid, [Next]_vars PROVE LaterAreValid'
    OBVIOUS
  <2>1. CASE \E seed \in Seeds : Timeline' = <<seed>>
    BY <2>1 DEF LaterAreValid
  <2>2. CASE Commit
    <3> SUFFICES ASSUME NEW i \in 2 .. Len(Timeline') PROVE Valid(Timeline'[i])
      BY DEF LaterAreValid
    <3>1. CASE i <= Len(undo) + 1
      <4>1. Len(Timeline) \in Nat
        BY StacksOfSnapshots, LineEntries, LenProperties DEF Timeline, IsLine
      <4>2. i \in 2 .. Len(Timeline) /\ Timeline'[i] = Timeline[i]
        BY <2>2, <3>1, <4>1, CommitOnTimeline
      <4> QED BY <4>2 DEF LaterAreValid
    <3>2. CASE i = Len(undo) + 2
      BY <2>2, <3>2, CommitOnTimeline
    <3> QED BY <2>2, <3>1, <3>2, CommitOnTimeline
  <2>3. CASE Timeline' = Timeline
    BY <2>3 DEF LaterAreValid
  <2> QED BY <2>1, <2>2, <2>3, TimelineSteps
<1>3. LaterAreValid => SnapshotsAreSound
  BY ValidIsSound DEF LaterAreValid, SnapshotsAreSound
<1> QED BY <1>1, <1>2, <1>3, TypeCorrect, PTL DEF Spec

-----------------------------------------------------------------------------
(* What a whole patch makes of a design, and the loop of applyPatch.       *)

(* Numbers are reached one by one.                                         *)
LEMMA OneByOne ==
  ASSUME NEW S, 0 \in S, \A n \in Nat : n \in S => n + 1 \in S
  PROVE  Nat \subseteq S
<1> DEFINE R == OpToRel(<, Nat)
           T == Nat \ S
<1>1. IsWellFoundedOn(R, Nat)
  BY NatLessThanWellFounded
<1>2. SUFFICES ASSUME T # {} PROVE FALSE
  OBVIOUS
<1>3. PICK n \in T : \A m \in T : ~(<<m, n>> \in R)
  <2>1. T \subseteq Nat
    OBVIOUS
  <2> HIDE DEF R, T
  <2> QED BY <1>1, <1>2, <2>1, WFMin
<1>4. n \in Nat /\ n # 0 /\ n - 1 \in Nat /\ n - 1 < n
  <2>1. n \in Nat /\ n # 0
    OBVIOUS
  <2> HIDE DEF T, R
  <2> QED BY <2>1
<1>5. <<n - 1, n>> \in R
  BY <1>4 DEF OpToRel
<1>6. n - 1 \in S
  <2> HIDE DEF R
  <2> QED BY <1>3, <1>4, <1>5
<1> HIDE DEF R
<1>7. n - 1 + 1 = n /\ n \notin S
  BY <1>4
<1> QED BY <1>4, <1>6, <1>7

(* after[i] is what the first i operations make of d, or Refused.          *)
FirstOnes(after, d, ops, n) ==
  after = [i \in 0 .. n |-> IF i = 0 THEN d
                            ELSE IF after[i - 1] = Refused THEN Refused
                            ELSE Operation(after[i - 1], ops[i])]

LEMMA FirstOnesEqual ==
  ASSUME NEW d, NEW ops, NEW n \in Nat,
         NEW f, FirstOnes(f, d, ops, n), NEW g, FirstOnes(g, d, ops, n)
  PROVE  f[n] = g[n]
<1> DEFINE S == {i \in Nat : i <= n => f[i] = g[i]}
<1>1. 0 \in S
  BY DEF FirstOnes
<1>2. ASSUME NEW i \in Nat, i \in S PROVE i + 1 \in S
  <2> SUFFICES ASSUME i + 1 <= n PROVE f[i + 1] = g[i + 1]
    OBVIOUS
  <2>1. f[i] = g[i] /\ i + 1 \in 0 .. n /\ i + 1 # 0 /\ i + 1 - 1 = i
    BY <1>2
  <2>2. f[i + 1] = IF f[i] = Refused THEN Refused ELSE Operation(f[i], ops[i + 1])
    BY <2>1 DEF FirstOnes
  <2>3. g[i + 1] = IF g[i] = Refused THEN Refused ELSE Operation(g[i], ops[i + 1])
    BY <2>1 DEF FirstOnes
  <2> QED BY <2>1, <2>2, <2>3
<1>3. Nat \subseteq S
  <2> HIDE DEF S
  <2> QED BY <1>1, <1>2, OneByOne
<1> QED BY <1>3

LEMMA OutcomeOfAll ==
  ASSUME NEW d, NEW ops, Len(ops) \in Nat, NEW f, FirstOnes(f, d, ops, Len(ops))
  PROVE  Outcome(d, ops) = f[Len(ops)]
<1> DEFINE g == CHOOSE after : FirstOnes(after, d, ops, Len(ops))
<1>1. FirstOnes(g, d, ops, Len(ops))
  OBVIOUS
<1>2. Outcome(d, ops) = g[Len(ops)]
  BY DEF Outcome, FirstOnes
<1> HIDE DEF g
<1> QED BY <1>1, <1>2, FirstOnesEqual

(* While applyPatch runs, the copy is what the operations so far make of   *)
(* the design, and none of them was refused.                               *)
LoopInv ==
  patch # Idle =>
    \E f : /\ FirstOnes(f, design, patch, next - 1)
           /\ f[next - 1] = candidate

DesignsOnly ==
  /\ design # Refused /\ candidate # Refused
  /\ \A i \in DOMAIN undo : undo[i] # Refused
  /\ \A i \in DOMAIN redo : redo[i] # Refused

(* One more operation.                                                     *)
LEMMA OneMore ==
  ASSUME NEW d, NEW ops, NEW n \in Nat, NEW f, FirstOnes(f, d, ops, n), f[n] # Refused
  PROVE  \E g : /\ FirstOnes(g, d, ops, n + 1)
                /\ g[n + 1] = Operation(f[n], ops[n + 1])
<1> DEFINE g == [i \in 0 .. n + 1 |-> IF i = n + 1 THEN Operation(f[n], ops[n + 1]) ELSE f[i]]
<1>1. \A i \in 0 .. n : g[i] = f[i]
  OBVIOUS
<1>2. g[n + 1] = Operation(f[n], ops[n + 1])
  OBVIOUS
<1>3. ASSUME NEW i \in 0 .. n + 1
      PROVE  g[i] = IF i = 0 THEN d ELSE IF g[i - 1] = Refused THEN Refused
                    ELSE Operation(g[i - 1], ops[i])
  <2> HIDE DEF g
  <2>1. CASE i = n + 1
    <3>1. i # 0 /\ i - 1 = n /\ n \in 0 .. n
      BY <2>1
    <3> QED BY <2>1, <3>1, <1>1, <1>2
  <2>2. CASE i \in 0 .. n
    <3>1. g[i] = f[i] /\ (i # 0 => i - 1 \in 0 .. n /\ g[i - 1] = f[i - 1])
      BY <2>2, <1>1
    <3>2. f[i] = IF i = 0 THEN d ELSE IF f[i - 1] = Refused THEN Refused
                 ELSE Operation(f[i - 1], ops[i])
      BY <2>2 DEF FirstOnes
    <3> QED BY <3>1, <3>2
  <2> QED BY <2>1, <2>2
<1>4. FirstOnes(g, d, ops, n + 1)
  BY <1>3 DEF FirstOnes
<1> QED BY <1>2, <1>4

(* After a refusal the rest of the patch makes no difference.              *)
LEMMA RestRefused ==
  ASSUME NEW d, NEW ops, NEW n \in Nat, NEW m \in Nat, n < m,
         NEW f, FirstOnes(f, d, ops, n), f[n] # Refused,
         Operation(f[n], ops[n + 1]) = Refused
  PROVE  \E g : FirstOnes(g, d, ops, m) /\ g[m] = Refused
<1> DEFINE g == [i \in 0 .. m |-> IF i <= n THEN f[i] ELSE Refused]
<1>1. \A i \in 0 .. n : g[i] = f[i]
  OBVIOUS
<1>2. \A i \in n + 1 .. m : g[i] = Refused
  OBVIOUS
<1>3. ASSUME NEW i \in 0 .. m
      PROVE  g[i] = IF i = 0 THEN d ELSE IF g[i - 1] = Refused THEN Refused
                    ELSE Operation(g[i - 1], ops[i])
  <2> HIDE DEF g
  <2>1. CASE i = n + 1
    <3>1. i # 0 /\ i - 1 = n /\ n \in 0 .. n /\ i \in n + 1 .. m
      BY <2>1
    <3> QED BY <2>1, <3>1, <1>1, <1>2
  <2>2. CASE i > n + 1
    <3>1. i # 0 /\ i - 1 \in n + 1 .. m /\ i \in n + 1 .. m
      BY <2>2
    <3> QED BY <3>1, <1>2
  <2>3. CASE i \in 0 .. n
    <3>1. g[i] = f[i] /\ (i # 0 => i - 1 \in 0 .. n /\ g[i - 1] = f[i - 1])
      BY <2>3, <1>1
    <3>2. f[i] = IF i = 0 THEN d ELSE IF f[i - 1] = Refused THEN Refused
                 ELSE Operation(f[i - 1], ops[i])
      BY <2>3 DEF FirstOnes
    <3> QED BY <3>1, <3>2
  <2> QED BY <2>1, <2>2, <2>3
<1>4. FirstOnes(g, d, ops, m)
  BY <1>3 DEF FirstOnes
<1>5. g[m] = Refused
  BY <1>2
<1> QED BY <1>4, <1>5

LEMMA LastOfStack ==
  ASSUME NEW s, IsSequence(s), s # << >>
  PROVE  /\ Len(s) \in DOMAIN s /\ Last(s) = s[Len(s)]
         /\ \A i \in DOMAIN Front(s) : i \in DOMAIN s /\ Front(s)[i] = s[i]
<1>1. s \in Seq(ToSet(s))
  BY DEF IsSequence
<1>2. /\ Len(s) \in Nat \ {0}
      /\ Front(s) \in Seq(ToSet(s)) /\ Len(Front(s)) = Len(s) - 1
      /\ \A i \in 1 .. Len(s) - 1 : Front(s)[i] = s[i]
      /\ Last(s) = s[Len(s)]
  BY <1>1, FrontEntries
<1>3. DOMAIN s = 1 .. Len(s) /\ DOMAIN Front(s) = 1 .. Len(Front(s))
  BY <1>1, <1>2, LenProperties
<1> QED BY <1>2, <1>3

LEMMA PushedEntries ==
  ASSUME NEW s, IsSequence(s), NEW d
  PROVE  \A i \in DOMAIN Append(s, d) : Append(s, d)[i] = d \/ (i \in DOMAIN s /\ Append(s, d)[i] = s[i])
<1> DEFINE S == ToSet(s) \cup {d}
<1>1. s \in Seq(S)
  BY SequenceOver
<1> HIDE DEF S
<1>2. d \in S
  BY DEF S
<1>3. DOMAIN s = 1 .. Len(s) /\ Len(s) \in Nat
  BY <1>1, LenProperties
<1>4. Append(s, d) \in Seq(S) /\ Len(Append(s, d)) = Len(s) + 1
  BY <1>1, <1>2
<1>5. DOMAIN Append(s, d) = 1 .. Len(s) + 1
  BY <1>4, LenProperties
<1> QED BY <1>1, <1>2, <1>3, <1>5

LEMMA DesignsStay ==
  ASSUME TypeOK, DesignsOnly, [Next]_vars
  PROVE  DesignsOnly'
<1> USE DEF DesignsOnly
<1>1. CASE ReplaceDesign
  BY <1>1, DesignEditingAssumption DEF ReplaceDesign
<1>2. CASE BeginPatch
  BY <1>2 DEF BeginPatch
<1>3. CASE ApplyOperation
  BY <1>3 DEF ApplyOperation
<1>4. CASE RejectOperation
  BY <1>4 DEF RejectOperation, Return
<1>5. CASE Commit
  <2>1. \A i \in DOMAIN undo' : undo'[i] = design \/ (i \in DOMAIN undo /\ undo'[i] = undo[i])
    BY <1>5, PushedEntries DEF Commit, TypeOK
  <2> QED BY <1>5, <2>1 DEF Commit, Return
<1>6. CASE RejectCandidate
  BY <1>6 DEF RejectCandidate, Return
<1>7. CASE Undo
  <2>1. /\ Len(undo) \in DOMAIN undo /\ design' = undo[Len(undo)] /\ candidate' = design'
        /\ \A i \in DOMAIN undo' : i \in DOMAIN undo /\ undo'[i] = undo[i]
    BY <1>7, LastOfStack DEF Undo, TypeOK
  <2>2. \A i \in DOMAIN redo' : redo'[i] = design \/ (i \in DOMAIN redo /\ redo'[i] = redo[i])
    BY <1>7, PushedEntries DEF Undo, TypeOK
  <2> QED BY <2>1, <2>2
<1>8. CASE Redo
  <2>1. /\ Len(redo) \in DOMAIN redo /\ design' = redo[Len(redo)] /\ candidate' = design'
        /\ \A i \in DOMAIN redo' : i \in DOMAIN redo /\ redo'[i] = redo[i]
    BY <1>8, LastOfStack DEF Redo, TypeOK
  <2>2. \A i \in DOMAIN undo' : undo'[i] = design \/ (i \in DOMAIN undo /\ undo'[i] = undo[i])
    BY <1>8, PushedEntries DEF Redo, TypeOK
  <2> QED BY <2>1, <2>2
<1>9. CASE UNCHANGED vars
  BY <1>9 DEF vars
<1> QED BY <1>1, <1>2, <1>3, <1>4, <1>5, <1>6, <1>7, <1>8, <1>9 DEF Next

LEMMA LoopKeeps ==
  ASSUME TypeOK, DesignsOnly, LoopInv, [Next]_vars
  PROVE  LoopInv'
<1> USE DEF LoopInv
<1>1. CASE ReplaceDesign \/ Undo \/ Redo
  <2>1. patch' = Idle
    BY <1>1 DEF ReplaceDesign, Undo, Redo, Returned
  <2> QED BY <2>1
<1>2. CASE RejectOperation \/ Commit \/ RejectCandidate
  <2>1. patch' = Idle
    BY <1>2 DEF RejectOperation, Commit, RejectCandidate, Return
  <2> QED BY <2>1
<1>3. CASE BeginPatch
  <2> DEFINE f == [i \in 0 .. 0 |-> design]
  <2>1. FirstOnes(f, design', patch', 0) /\ f[0] = design
    <3>1. \A i \in 0 .. 0 : i = 0
      OBVIOUS
    <3>2. design' = design
      BY <1>3 DEF BeginPatch
    <3> QED BY <3>1, <3>2 DEF FirstOnes
  <2>2. next' - 1 = 0 /\ candidate' = design
    BY <1>3 DEF BeginPatch
  <2> QED BY <2>1, <2>2
<1>4. CASE ApplyOperation
  <2>1. patch # Idle /\ next \in Nat \ {0}
    BY <1>4 DEF ApplyOperation, Applying, Returned, TypeOK
  <2>2. PICK f : FirstOnes(f, design, patch, next - 1) /\ f[next - 1] = candidate
    BY <2>1
  <2>3. PICK n \in Nat : n = next - 1 /\ next = n + 1 /\ next' - 1 = n + 1
    BY <2>1, <1>4 DEF ApplyOperation
  <2>4. PICK g : FirstOnes(g, design, patch, n + 1) /\ g[n + 1] = Operation(f[n], patch[n + 1])
    BY <2>2, <2>3, OneMore DEF DesignsOnly
  <2>5. candidate' = g[n + 1] /\ design' = design /\ patch' = patch
    BY <1>4, <2>2, <2>3, <2>4 DEF ApplyOperation
  <2> QED BY <2>3, <2>4, <2>5
<1>5. CASE UNCHANGED vars
  BY <1>5 DEF vars
<1> QED BY <1>1, <1>2, <1>3, <1>4, <1>5 DEF Next

(* When applyPatch returns, the design is what the whole patch makes of    *)
(* it, or as it was.                                                       *)
LEMMA ReturnsWhole ==
  ASSUME TypeOK, DesignsOnly, LoopInv, [Next]_vars, ~Returned, patch' = Idle
  PROVE  PatchReturns
<1>1. patch \in Patches /\ patch # Idle /\ Len(patch) \in Nat /\ next \in Nat \ {0}
      /\ next <= Len(patch) + 1
  BY PatchLength DEF TypeOK, Returned
<1>2. PICK f : FirstOnes(f, design, patch, next - 1) /\ f[next - 1] = candidate
  BY <1>1 DEF LoopInv
<1>3. PICK n \in Nat : n = next - 1 /\ next = n + 1
  BY <1>1
<1>4. candidate # Refused
  BY DEF DesignsOnly
<1>5. CASE RejectOperation
  <2>1. n < Len(patch) /\ Operation(candidate, patch[n + 1]) = Refused /\ design' = design
    BY <1>5, <1>1, <1>3 DEF RejectOperation, Applying
  <2>2. PICK g : FirstOnes(g, design, patch, Len(patch)) /\ g[Len(patch)] = Refused
    BY <1>1, <1>2, <1>3, <1>4, <2>1, RestRefused
  <2>3. Outcome(design, patch) = Refused
    BY <1>1, <2>2, OutcomeOfAll
  <2> QED BY <2>1, <2>3 DEF PatchReturns
<1>6. CASE Commit \/ RejectCandidate
  <2>1. n = Len(patch)
    BY <1>6, <1>1, <1>3 DEF Commit, RejectCandidate, Finished
  <2>2. Outcome(design, patch) = candidate
    BY <1>1, <1>2, <1>3, <2>1, OutcomeOfAll
  <2> QED BY <1>4, <1>6, <2>2 DEF PatchReturns, Commit, RejectCandidate
<1>7. ~ReplaceDesign /\ ~BeginPatch /\ ~Undo /\ ~Redo /\ ~ApplyOperation /\ ~UNCHANGED vars
  BY <1>1 DEF ReplaceDesign, BeginPatch, Undo, Redo, Returned, ApplyOperation, vars
<1> QED BY <1>5, <1>6, <1>7 DEF Next

(* A patch takes effect with all its operations or with none: whatever     *)
(* patches are sent, the design applyPatch leaves is what the fold of the  *)
(* whole patch over the old one gives, or the old one.                     *)
THEOREM PatchesAreWhole == Spec => WholePatchOrNothing
<1>1. Init => DesignsOnly /\ LoopInv
  <2> SUFFICES ASSUME Init PROVE DesignsOnly /\ LoopInv
    OBVIOUS
  <2>1. DOMAIN << >> = {}
    OBVIOUS
  <2> QED BY <2>1, DesignEditingAssumption DEF Init, DesignsOnly, LoopInv
<1>2. TypeOK /\ DesignsOnly /\ LoopInv /\ [Next]_vars => DesignsOnly' /\ LoopInv'
  BY DesignsStay, LoopKeeps
<1>3. TypeOK /\ DesignsOnly /\ LoopInv /\ [Next]_vars =>
        [~Returned /\ patch' = Idle => PatchReturns]_vars
  BY ReturnsWhole
<1> QED BY <1>1, <1>2, <1>3, TypeCorrect, PTL DEF Spec, WholePatchOrNothing

-----------------------------------------------------------------------------
(* The lists operations on graphs and components rewrite.                  *)

LEMMA EntriesOf ==
  ASSUME NEW T, NEW t \in Seq(T)
  PROVE  Len(t) \in Nat /\ DOMAIN t = 1 .. Len(t) /\ \A i \in DOMAIN t : t[i] \in T
BY LenProperties, ElementOfSeq

(* Concatenation.                                                          *)
LEMMA SetOfTwo ==
  ASSUME NEW T, NEW s \in Seq(T), NEW t \in Seq(T)
  PROVE  s \o t \in Seq(T) /\ ToSet(s \o t) = ToSet(s) \cup ToSet(t)
<1>1. /\ s \o t \in Seq(T) /\ Len(s \o t) = Len(s) + Len(t)
      /\ \A i \in 1 .. Len(s) : (s \o t)[i] = s[i]
      /\ \A i \in 1 .. Len(t) : (s \o t)[Len(s) + i] = t[i]
  BY ConcatProperties, EntriesOf
<1>2. PICK a \in Nat, b \in Nat : a = Len(s) /\ b = Len(t)
  BY EntriesOf
<1>9. PICK u : u = s \o t
  OBVIOUS
<1>3. DOMAIN s = 1 .. a /\ DOMAIN t = 1 .. b /\ DOMAIN u = 1 .. a + b
  BY <1>1, <1>2, <1>9, EntriesOf
<1>4. (\A i \in 1 .. a : u[i] = s[i]) /\ \A i \in 1 .. b : u[a + i] = t[i]
  BY <1>1, <1>2, <1>9
<1>5. ASSUME NEW i \in 1 .. a + b PROVE u[i] \in ToSet(s) \cup ToSet(t)
  <2>1. CASE i \in 1 .. a
    BY <1>3, <1>4, <2>1 DEF ToSet
  <2>2. CASE i \notin 1 .. a
    <3>1. PICK j \in 1 .. b : i = a + j
      <4>1. i - a \in 1 .. b /\ i = a + (i - a)
        BY <2>2
      <4> QED BY <4>1
    <3> QED BY <1>3, <1>4, <3>1 DEF ToSet
  <2> QED BY <2>1, <2>2
<1>6. \A i \in 1 .. a : s[i] \in ToSet(u)
  <2> SUFFICES ASSUME NEW i \in 1 .. a PROVE s[i] \in ToSet(u)
    OBVIOUS
  <2>1. i \in 1 .. a + b
    OBVIOUS
  <2> QED BY <1>3, <1>4, <2>1 DEF ToSet
<1>7. \A i \in 1 .. b : t[i] \in ToSet(u)
  <2> SUFFICES ASSUME NEW i \in 1 .. b PROVE t[i] \in ToSet(u)
    OBVIOUS
  <2>1. a + i \in 1 .. a + b
    OBVIOUS
  <2> QED BY <1>3, <1>4, <2>1 DEF ToSet
<1>8. ToSet(u) = ToSet(s) \cup ToSet(t)
  BY <1>3, <1>5, <1>6, <1>7 DEF ToSet
<1> QED BY <1>1, <1>2, <1>8, <1>9

LEMMA SetOfAppend ==
  ASSUME NEW T, NEW s \in Seq(T), NEW e \in T
  PROVE  /\ Append(s, e) \in Seq(T) /\ Len(Append(s, e)) = Len(s) + 1
         /\ \A i \in 1 .. Len(s) : Append(s, e)[i] = s[i]
         /\ Append(s, e)[Len(s) + 1] = e
         /\ ToSet(Append(s, e)) = ToSet(s) \cup {e}
<1>1. PICK n \in Nat : n = Len(s)
  BY EntriesOf
<1>7. PICK u : u = Append(s, e)
  OBVIOUS
<1>2. u \in Seq(T) /\ Len(u) = n + 1 /\ (\A i \in 1 .. n : u[i] = s[i]) /\ u[n + 1] = e
  BY <1>1, <1>7, AppendProperties
<1>3. DOMAIN u = 1 .. n + 1 /\ DOMAIN s = 1 .. n
  BY <1>1, <1>2, <1>7, EntriesOf
<1>4. \A i \in 1 .. n + 1 : i \in 1 .. n \/ i = n + 1
  OBVIOUS
<1>5. (\A i \in 1 .. n : i \in 1 .. n + 1) /\ n + 1 \in 1 .. n + 1
  OBVIOUS
<1>6. ToSet(u) = ToSet(s) \cup {e}
  BY <1>2, <1>3, <1>4, <1>5 DEF ToSet
<1> QED BY <1>1, <1>2, <1>6, <1>7

(* What is left when one entry of a list is removed.                       *)
LEMMA WithoutOne ==
  ASSUME NEW T, NEW s \in Seq(T), NEW p \in DOMAIN s
  PROVE  /\ RemoveAt(s, p) \in Seq(T)
         /\ ToSet(RemoveAt(s, p)) = {s[i] : i \in DOMAIN s \ {p}}
<1>1. PICK n \in Nat : n = Len(s) /\ DOMAIN s = 1 .. n
  BY EntriesOf
<1>2. PICK q \in Int, r \in Int : q = p - 1 /\ r = p + 1
  BY <1>1
<1>3. 1 \in Int /\ n \in Int /\ p \in Int
  BY <1>1
<1>4. PICK a, b : a = SubSeq(s, 1, q) /\ b = SubSeq(s, r, n)
  OBVIOUS
<1>5. (\A i \in 1 .. q : i \in 1 .. n) /\ (\A i \in r .. n : i \in 1 .. n)
  BY <1>1, <1>2
<1>6. /\ a \in Seq(T) /\ Len(a) = (IF 1 <= q THEN q - 1 + 1 ELSE 0)
      /\ \A i \in 1 .. q - 1 + 1 : a[i] = s[1 + i - 1]
  <2>1. \A i \in 1 .. q : s[i] \in T
    BY <1>1, <1>5, EntriesOf
  <2> QED BY <1>3, <1>4, <1>1, <1>2, <2>1, SubSeqProperties
<1>7. /\ b \in Seq(T) /\ Len(b) = (IF r <= n THEN n - r + 1 ELSE 0)
      /\ \A i \in 1 .. n - r + 1 : b[i] = s[r + i - 1]
  <2>1. \A i \in r .. n : s[i] \in T
    BY <1>1, <1>5, EntriesOf
  <2> QED BY <1>3, <1>4, <1>1, <1>2, <2>1, SubSeqProperties
<1>8. ToSet(a) = {s[i] : i \in 1 .. q}
  <2>1. DOMAIN a = 1 .. q /\ \A i \in 1 .. q : a[i] = s[i]
    <3>1. Len(a) = q /\ \A i \in 1 .. q : i \in 1 .. q - 1 + 1 /\ 1 + i - 1 = i
      BY <1>1, <1>2, <1>6
    <3> QED BY <1>6, <3>1, EntriesOf
  <2> QED BY <2>1 DEF ToSet
<1>9. ToSet(b) = {s[i] : i \in r .. n}
  <2>1. DOMAIN b = 1 .. n - p /\ \A i \in 1 .. n - p : b[i] = s[i + p]
    <3>1. Len(b) = n - p /\ \A i \in 1 .. n - p : i \in 1 .. n - r + 1 /\ r + i - 1 = i + p
      BY <1>1, <1>2, <1>7
    <3> QED BY <1>7, <3>1, EntriesOf
  <2>2. \A i \in 1 .. n - p : i + p \in r .. n
    BY <1>1, <1>2
  <2>3. \A i \in r .. n : i - p \in 1 .. n - p /\ (i - p) + p = i
    BY <1>1, <1>2
  <2>4. ToSet(b) \subseteq {s[i] : i \in r .. n}
    BY <2>1, <2>2 DEF ToSet
  <2>5. ASSUME NEW i \in r .. n PROVE s[i] \in ToSet(b)
    <3>1. PICK k \in 1 .. n - p : k + p = i
      BY <2>3
    <3> QED BY <2>1, <3>1 DEF ToSet
  <2> QED BY <2>4, <2>5
<1>10. DOMAIN s \ {p} = 1 .. q \cup r .. n
  BY <1>1, <1>2
<1>11. RemoveAt(s, p) = a \o b
  BY <1>1, <1>2, <1>4 DEF RemoveAt
<1>12. ToSet(a) \cup ToSet(b) = {s[i] : i \in DOMAIN s \ {p}}
  <2>1. \A A, B : {s[i] : i \in A} \cup {s[i] : i \in B} = {s[i] : i \in A \cup B}
    OBVIOUS
  <2> QED BY <1>8, <1>9, <1>10, <2>1, Zenon
<1>13. a \o b \in Seq(T) /\ ToSet(a \o b) = ToSet(a) \cup ToSet(b)
  BY <1>6, <1>7, SetOfTwo
<1> QED BY <1>11, <1>12, <1>13

LEMMA LeastOf ==
  ASSUME NEW S \in SUBSET Nat, S # {}
  PROVE  \E n \in S : \A m \in Nat : m < n => m \notin S
<1> DEFINE R == OpToRel(<, Nat)
<1>1. IsWellFoundedOn(R, Nat)
  BY NatLessThanWellFounded
<1>2. PICK n \in S : \A m \in S : ~(<<m, n>> \in R)
  <2> HIDE DEF R
  <2> QED BY <1>1, WFMin
<1>3. ASSUME NEW m \in Nat, m < n PROVE m \notin S
  <2>1. <<m, n>> \in R
    BY <1>3 DEF OpToRel
  <2> HIDE DEF R
  <2> QED BY <1>2, <2>1
<1> QED BY <1>3


(* The entries a filter keeps, up to each position.                        *)
Keeping(kept, list, positions, m) ==
  kept = [n \in 0 .. m |-> IF n = 0 THEN << >>
                           ELSE IF n \in positions THEN Append(kept[n - 1], list[n])
                           ELSE kept[n - 1]]

LEMMA KeepingExists ==
  ASSUME NEW list, NEW positions, NEW m \in Nat
  PROVE  \E f : Keeping(f, list, positions, m)
<1> DEFINE S == {n \in Nat : \E f : Keeping(f, list, positions, n)}
<1>1. 0 \in S
  <2> DEFINE f == [i \in 0 .. 0 |-> << >>]
  <2>1. \A i \in 0 .. 0 : i = 0
    OBVIOUS
  <2>2. Keeping(f, list, positions, 0)
    BY <2>1 DEF Keeping
  <2> QED BY <2>2
<1>2. ASSUME NEW n \in Nat, n \in S PROVE n + 1 \in S
  <2>1. PICK f : Keeping(f, list, positions, n)
    BY <1>2
  <2> DEFINE last == IF n + 1 \in positions THEN Append(f[n], list[n + 1]) ELSE f[n]
             g == [i \in 0 .. n + 1 |-> IF i = n + 1 THEN last ELSE f[i]]
  <2>2. (\A i \in 0 .. n : g[i] = f[i]) /\ g[n + 1] = last
    <3> HIDE DEF last
    <3> QED OBVIOUS
  <2>3. ASSUME NEW i \in 0 .. n + 1
        PROVE  g[i] = IF i = 0 THEN << >>
                      ELSE IF i \in positions THEN Append(g[i - 1], list[i])
                      ELSE g[i - 1]
    <3> HIDE DEF g
    <3>1. CASE i = n + 1
      <4>1. i # 0 /\ i - 1 = n /\ n \in 0 .. n /\ g[n] = f[n]
        BY <2>2, <3>1
      <4> QED BY <2>2, <3>1, <4>1
    <3>2. CASE i \in 0 .. n
      <4>1. g[i] = f[i] /\ (i # 0 => i - 1 \in 0 .. n /\ g[i - 1] = f[i - 1])
        BY <2>2, <3>2
      <4>2. f[i] = IF i = 0 THEN << >>
                   ELSE IF i \in positions THEN Append(f[i - 1], list[i])
                   ELSE f[i - 1]
        BY <2>1, <3>2 DEF Keeping
      <4> HIDE DEF last
      <4> QED BY <4>1, <4>2
    <3> QED BY <3>1, <3>2
  <2>4. Keeping(g, list, positions, n + 1)
    BY <2>3 DEF Keeping
  <2> QED BY <2>4
<1>3. Nat \subseteq S
  <2> HIDE DEF S
  <2> QED BY <1>1, <1>2, OneByOne
<1> QED BY <1>3

(* What stands at a position that is kept is kept, and nothing else.       *)
LEMMA KeptEntries ==
  ASSUME NEW T, NEW list \in Seq(T), NEW positions \in SUBSET DOMAIN list
  PROVE  /\ Kept(list, positions) \in Seq(T)
         /\ ToSet(Kept(list, positions)) = {list[i] : i \in positions}
<1>1. PICK m \in Nat : m = Len(list) /\ DOMAIN list = 1 .. m
  BY EntriesOf
<1> DEFINE f == CHOOSE kept : Keeping(kept, list, positions, m)
<1>2. Keeping(f, list, positions, m)
  BY KeepingExists
<1>3. Kept(list, positions) = f[m]
  BY <1>1 DEF Kept, Keeping
<1> HIDE DEF f
<1> DEFINE Upto(n) == {list[i] : i \in positions \cap 1 .. n}
           S == {n \in Nat : n <= m => f[n] \in Seq(T) /\ ToSet(f[n]) = Upto(n)}
<1>4. \A n \in 0 .. m : f[n] = IF n = 0 THEN << >>
                               ELSE IF n \in positions THEN Append(f[n - 1], list[n])
                               ELSE f[n - 1]
  BY <1>2 DEF Keeping
<1>5. 0 \in S
  <2>1. f[0] = << >> /\ << >> \in Seq(T) /\ ToSet(<< >>) = {}
    BY <1>4, EmptySeq DEF ToSet
  <2>2. Upto(0) = {}
    OBVIOUS
  <2> QED BY <2>1, <2>2
<1>6. ASSUME NEW n \in Nat, n \in S PROVE n + 1 \in S
  <2> SUFFICES ASSUME n + 1 <= m PROVE f[n + 1] \in Seq(T) /\ ToSet(f[n + 1]) = Upto(n + 1)
    OBVIOUS
  <2>1. f[n] \in Seq(T) /\ ToSet(f[n]) = Upto(n)
    BY <1>6
  <2>2. n + 1 \in 0 .. m /\ n + 1 # 0 /\ (n + 1) - 1 = n /\ n + 1 \in DOMAIN list
    BY <1>1
  <2>3. \A i : i \in 1 .. n + 1 <=> i \in 1 .. n \/ i = n + 1
    OBVIOUS
  <2>4. CASE n + 1 \in positions
    <3>1. f[n + 1] = Append(f[n], list[n + 1])
      BY <1>4, <2>2, <2>4
    <3>2. list[n + 1] \in T
      BY <2>2, EntriesOf
    <3>3. f[n + 1] \in Seq(T) /\ ToSet(f[n + 1]) = Upto(n) \cup {list[n + 1]}
      BY <2>1, <3>1, <3>2, SetOfAppend
    <3>4. positions \cap 1 .. n + 1 = (positions \cap 1 .. n) \cup {n + 1}
      BY <2>3, <2>4, Zenon
    <3>5. Upto(n + 1) = Upto(n) \cup {list[n + 1]}
      BY <3>4, Zenon
    <3> QED BY <3>3, <3>5
  <2>5. CASE n + 1 \notin positions
    <3>1. f[n + 1] = f[n]
      BY <1>4, <2>2, <2>5
    <3>2. positions \cap 1 .. n + 1 = positions \cap 1 .. n
      BY <2>3, <2>5, Zenon
    <3> QED BY <2>1, <3>1, <3>2
  <2> QED BY <2>4, <2>5
<1>7. Nat \subseteq S
  <2> HIDE DEF S
  <2> QED BY <1>5, <1>6, OneByOne
<1>8. f[m] \in Seq(T) /\ ToSet(f[m]) = Upto(m)
  <2>1. m \in S /\ m <= m
    <3> HIDE DEF S
    <3> QED BY <1>7
  <2> HIDE DEF Upto
  <2> QED BY <2>1
<1>9. positions \cap 1 .. m = positions
  BY <1>1
<1> QED BY <1>3, <1>8, <1>9

(* An entry that is there is found.                                        *)
LEMMA AtIs ==
  ASSUME NEW list, IsSequence(list), NEW id, Has(list, id)
  PROVE  At(list, id) \in DOMAIN list /\ list[At(list, id)].id = id
<1> DEFINE I == {i \in 1 .. Len(list) : list[i].id = id}
<1>1. Len(list) \in Nat /\ DOMAIN list = 1 .. Len(list)
  BY EntriesOf DEF IsSequence
<1>2. At(list, id) = IF I # {} THEN Min(I) ELSE 0
  BY DEF At, SelectInSeq
<1>3. I # {}
  BY <1>2 DEF Has
<1>4. I \in SUBSET Nat
  BY <1>1
<1>5. PICK n \in I : \A m \in Nat : m < n => m \notin I
  <2> HIDE DEF I
  <2> QED BY <1>3, <1>4, LeastOf
<1>6. \A m \in I : n <= m
  <2> HIDE DEF I
  <2> QED BY <1>4, <1>5
<1>7. Min(I) \in I
  <2> HIDE DEF I
  <2> QED BY <1>5, <1>6 DEF Min
<1> HIDE DEF I
<1>8. At(list, id) \in I
  BY <1>2, <1>3, <1>7
<1> USE DEF I
<1> QED BY <1>1, <1>8

-----------------------------------------------------------------------------
(* What operations do to the relationships of a design.                    *)

LEMMA SetOfSequence ==
  ASSUME NEW T, NEW s \in Seq(T)
  PROVE  ToSet(s) \subseteq T
BY EntriesOf DEF ToSet

(* Reading a graph anew keeps what is well-formed.                         *)
LEMMA GraphReadIs ==
  ASSUME NEW graph, IsSequence(graph.objects), IsSequence(graph.relationships)
  PROVE  LET read == GraphRead(graph)
         IN  /\ read = [objects |-> read.objects, relationships |-> read.relationships]
             /\ IsSequence(read.objects) /\ IsSequence(read.relationships)
             /\ ToSet(read.relationships) = {r \in ToSet(graph.relationships) : WellFormed(r)}
<1> DEFINE os == graph.objects
           rs == graph.relationships
           ps == {n \in DOMAIN rs : WellFormed(rs[n])}
           formed == {n \in DOMAIN os : os[n].formed}
<1>1. GraphRead(graph) = [objects |-> Kept(os, formed), relationships |-> Kept(rs, ps)]
  BY DEF GraphRead
<1>2. Kept(os, formed) \in Seq(ToSet(os))
  BY KeptEntries DEF IsSequence
<1>3. Kept(rs, ps) \in Seq(ToSet(rs)) /\ ToSet(Kept(rs, ps)) = {rs[i] : i \in ps}
  BY KeptEntries DEF IsSequence
<1>4. {rs[i] : i \in ps} = {r \in ToSet(rs) : WellFormed(r)}
  BY DEF ToSet
<1> HIDE DEF ps, formed
<1> QED BY <1>1, <1>2, <1>3, <1>4, SequenceItself

(* Whether an entry is a well-formed relationship of one of the components.*)
LEMMA GoodIs ==
  ASSUME NEW d
  PROVE  \A e : e \in GoodRelationships(d) <=>
           \E component \in ToSet(d.components) :
             \E r \in ToSet(component.graph.relationships) :
               WellFormed(r) /\ e = <<component.id, r>>
<1> DEFINE Of(component) ==
             {<<component.id, r>> : r \in {s \in ToSet(component.graph.relationships) : WellFormed(s)}}
<1>1. GoodRelationships(d) = UNION {Of(component) : component \in ToSet(d.components)}
  BY DEF GoodRelationships
<1>2. ASSUME NEW component, NEW e
      PROVE  e \in Of(component) <=>
               \E r \in ToSet(component.graph.relationships) :
                 WellFormed(r) /\ e = <<component.id, r>>
  OBVIOUS
<1> HIDE DEF Of
<1>3. \A e : e \in GoodRelationships(d) <=>
               \E component \in ToSet(d.components) : e \in Of(component)
  BY <1>1, Zenon
<1> QED BY <1>2, <1>3

(* One of the other lists of a design is replaced.                         *)
LEMMA OtherPart ==
  ASSUME NEW d, IsDesign(d), NEW v,
         NEW e, \/ e = [d EXCEPT !.connections = v] \/ e = [d EXCEPT !.views = v]
                \/ e = [d EXCEPT !.topologies = v]
  PROVE  IsDesign(e) /\ GoodRelationships(e) = GoodRelationships(d)
<1>1. e.components = d.components
  BY DEF IsDesign
<1>2. e = [packages |-> e.packages, components |-> e.components,
           interfaces |-> e.interfaces, connections |-> e.connections,
           topologies |-> e.topologies, views |-> e.views, sound |-> e.sound]
  BY DEF IsDesign
<1>3. IsDesign(e)
  BY <1>1, <1>2 DEF IsDesign
<1>4. GoodRelationships(e) = GoodRelationships(d)
  BY <1>1 DEF GoodRelationships
<1> QED BY <1>3, <1>4

LEMMA ComponentsReplaced ==
  ASSUME NEW d, IsDesign(d), NEW list, IsSequence(list),
         \A component \in ToSet(list) : IsComponent(component)
  PROVE  /\ IsDesign([d EXCEPT !.components = list])
         /\ [d EXCEPT !.components = list].components = list
<1>1. PICK e : e = [d EXCEPT !.components = list]
  OBVIOUS
<1>2. e.components = list
  BY <1>1 DEF IsDesign
<1>3. e = [packages |-> e.packages, components |-> e.components,
           interfaces |-> e.interfaces, connections |-> e.connections,
           topologies |-> e.topologies, views |-> e.views, sound |-> e.sound]
  BY <1>1 DEF IsDesign
<1>4. IsDesign(e)
  BY <1>2, <1>3 DEF IsDesign
<1> QED BY <1>1, <1>2, <1>4

(* One component is replaced, under its id.                                *)
LEMMA ComponentReplaced ==
  ASSUME NEW d, IsDesign(d), NEW p \in DOMAIN d.components,
         NEW component, IsComponent(component), component.id = d.components[p].id,
         NEW e, e = [d EXCEPT !.components = [d.components EXCEPT ![p] = component]]
  PROVE  /\ IsDesign(e)
         /\ \A entry \in GoodRelationships(d) \ GoodRelationships(e) :
              /\ entry = <<component.id, entry[2]>> /\ WellFormed(entry[2])
              /\ entry[2] \in ToSet(d.components[p].graph.relationships)
              /\ entry[2] \notin ToSet(component.graph.relationships)
<1> DEFINE list == [d.components EXCEPT ![p] = component]
           T == ToSet(d.components) \cup {component}
<1>1. d.components \in Seq(ToSet(d.components))
  BY DEF IsDesign, IsSequence
<1>2. DOMAIN list = DOMAIN d.components /\ list[p] = component
      /\ \A i \in DOMAIN d.components \ {p} : list[i] = d.components[i]
  BY <1>1
<1>3. IsSequence(list)
  <2>1. Len(d.components) \in Nat /\ DOMAIN d.components = 1 .. Len(d.components)
        /\ \A i \in DOMAIN d.components : d.components[i] \in ToSet(d.components)
    BY <1>1, EntriesOf
  <2>2. list = [i \in DOMAIN d.components |-> IF i = p THEN component ELSE d.components[i]]
    BY <1>1
  <2>3. PICK n \in Nat : n = Len(d.components)
    BY <2>1
  <2>4. list \in [1 .. n -> T]
    BY <2>1, <2>2, <2>3
  <2>5. list \in Seq(T)
    <3> HIDE DEF list, T
    <3> QED BY <2>4
  <2> HIDE DEF list
  <2> QED BY <2>5, SequenceItself
<1>4. \A c \in ToSet(list) : c = component \/ c \in ToSet(d.components)
  <2> HIDE DEF list
  <2> QED BY <1>2 DEF ToSet
<1>5. \A c \in ToSet(list) : IsComponent(c)
  BY <1>4 DEF IsDesign
<1> HIDE DEF list
<1>6. IsDesign(e) /\ e.components = list
  <2>1. e = [d EXCEPT !.components = list]
    BY DEF list
  <2>2. IsDesign([d EXCEPT !.components = list]) /\ [d EXCEPT !.components = list].components = list
    BY <1>3, <1>5, ComponentsReplaced
  <2> QED BY <2>1, <2>2
<1>7. ASSUME NEW entry \in GoodRelationships(d) \ GoodRelationships(e)
      PROVE  /\ entry = <<component.id, entry[2]>> /\ WellFormed(entry[2])
             /\ entry[2] \in ToSet(d.components[p].graph.relationships)
             /\ entry[2] \notin ToSet(component.graph.relationships)
  <2>1. PICK c \in ToSet(d.components) :
         \E r \in ToSet(c.graph.relationships) : WellFormed(r) /\ entry = <<c.id, r>>
    BY GoodIs
  <2>2. PICK r \in ToSet(c.graph.relationships) :
               WellFormed(r) /\ entry = <<c.id, r>> /\ entry[2] = r
    BY <2>1
  <2>3. c \notin ToSet(list)
    BY <1>6, <2>1, GoodIs
  <2>4. PICK i \in DOMAIN d.components : c = d.components[i]
    BY DEF ToSet
  <2>5. i = p
    BY <1>2, <2>3, <2>4 DEF ToSet
  <2>6. component \in ToSet(list)
    BY <1>2 DEF ToSet
  <2>7. r \notin ToSet(component.graph.relationships)
    BY <1>6, <2>2, <2>4, <2>5, <2>6, GoodIs
  <2> QED BY <2>2, <2>4, <2>5, <2>7
<1> QED BY <1>6, <1>7

(* Components come and go.                                                 *)
LEMMA ComponentAdded ==
  ASSUME NEW d, IsDesign(d), NEW component, IsComponent(component),
         AddComponent(d, component) # Refused
  PROVE  /\ IsDesign(AddComponent(d, component))
         /\ GoodRelationships(d) \subseteq GoodRelationships(AddComponent(d, component))
<1> DEFINE new == [component EXCEPT !.package = Resolve(d.packages, @)]
<1>1. PICK c : c = new
  OBVIOUS
<1>2. PICK list : list = Append(d.components, c)
  OBVIOUS
<1>3. AddComponent(d, component) = [d EXCEPT !.components = list]
  BY <1>1, <1>2 DEF AddComponent
<1>4. IsComponent(c)
  <2>1. c.graph = component.graph
        /\ c = [id |-> c.id, package |-> c.package, config |-> c.config, graph |-> c.graph]
    BY <1>1 DEF IsComponent
  <2> QED BY <2>1 DEF IsComponent
<1> DEFINE T == ToSet(d.components) \cup {c}
<1>5. d.components \in Seq(T)
  BY SequenceOver DEF IsDesign
<1>6. list \in Seq(T) /\ ToSet(list) = ToSet(d.components) \cup {c}
  BY <1>2, <1>5, SetOfAppend
<1>7. IsSequence(list)
  BY <1>6, SequenceItself
<1>8. \A x \in ToSet(list) : IsComponent(x)
  BY <1>4, <1>6 DEF IsDesign
<1>9. IsDesign([d EXCEPT !.components = list]) /\ [d EXCEPT !.components = list].components = list
  BY <1>7, <1>8, ComponentsReplaced
<1>10. PICK e : e = [d EXCEPT !.components = list]
  OBVIOUS
<1>11. IsDesign(e) /\ ToSet(d.components) \subseteq ToSet(e.components)
  BY <1>6, <1>9, <1>10
<1>12. GoodRelationships(d) \subseteq GoodRelationships(e)
  BY <1>11, GoodIs
<1> QED BY <1>3, <1>10, <1>11, <1>12

LEMMA ComponentRemoved ==
  ASSUME NEW d, IsDesign(d), NEW id, RemoveComponent(d, id) # Refused
  PROVE  /\ IsDesign(RemoveComponent(d, id))
         /\ \A entry \in GoodRelationships(d) \ GoodRelationships(RemoveComponent(d, id)) :
              entry[1] = id
<1>1. Has(d.components, id) /\ d.components \in Seq(ToSet(d.components))
  BY DEF RemoveComponent, IsDesign, IsSequence
<1>2. PICK p \in DOMAIN d.components : p = At(d.components, id) /\ d.components[p].id = id
  BY <1>1, AtIs DEF IsDesign
<1>3. PICK list : list = RemoveAt(d.components, p)
  OBVIOUS
<1>4. RemoveComponent(d, id) = [d EXCEPT !.components = list]
  BY <1>1, <1>2, <1>3 DEF RemoveComponent, Without
<1>5. /\ list \in Seq(ToSet(d.components))
      /\ ToSet(list) = {d.components[i] : i \in DOMAIN d.components \ {p}}
  BY <1>1, <1>3, WithoutOne
<1>6. ToSet(list) \subseteq ToSet(d.components)
  BY <1>5, SetOfSequence
<1>7. PICK e : e = [d EXCEPT !.components = list]
  OBVIOUS
<1>8. IsDesign(e) /\ e.components = list
  <2>1. IsSequence(list) /\ \A x \in ToSet(list) : IsComponent(x)
    BY <1>5, <1>6, SequenceItself DEF IsDesign
  <2> QED BY <1>7, <2>1, ComponentsReplaced
<1>9. ASSUME NEW entry \in GoodRelationships(d) \ GoodRelationships(e)
      PROVE  entry[1] = id
  <2>1. PICK c \in ToSet(d.components) :
         \E r \in ToSet(c.graph.relationships) : WellFormed(r) /\ entry = <<c.id, r>>
    BY GoodIs
  <2>2. c \notin ToSet(list)
    BY <1>8, <2>1, GoodIs
  <2>3. PICK i \in DOMAIN d.components : c = d.components[i]
    BY DEF ToSet
  <2>4. i = p
    BY <1>5, <2>2, <2>3
  <2> QED BY <1>2, <2>1, <2>3, <2>4
<1> QED BY <1>4, <1>7, <1>8, <1>9

(* The config of a component is not its graph.                             *)
LEMMA ConfigChanged ==
  ASSUME NEW d, IsDesign(d), NEW id, Has(d.components, id), NEW config,
         NEW e, e = [d EXCEPT !.components[At(d.components, id)].config = config]
  PROVE  IsDesign(e) /\ GoodRelationships(d) \subseteq GoodRelationships(e)
<1>1. PICK p \in DOMAIN d.components : p = At(d.components, id) /\ d.components[p].id = id
  BY AtIs DEF IsDesign
<1>2. PICK old : old = d.components[p]
  OBVIOUS
<1>3. IsComponent(old)
  BY <1>2 DEF IsDesign, ToSet
<1>4. PICK new : new = [old EXCEPT !.config = config]
  OBVIOUS
<1>5. IsComponent(new) /\ new.id = old.id /\ new.graph = old.graph
  <2>1. new.graph = old.graph /\ new.id = old.id
        /\ new = [id |-> new.id, package |-> new.package, config |-> new.config, graph |-> new.graph]
    BY <1>3, <1>4 DEF IsComponent
  <2> QED BY <1>3, <2>1 DEF IsComponent
<1>6. e = [d EXCEPT !.components = [d.components EXCEPT ![p] = new]]
  BY <1>1, <1>2, <1>4
<1> QED BY <1>2, <1>5, <1>6, ComponentReplaced

(* A graph is replaced by one that was read anew.                          *)
LEMMA GraphReplaced ==
  ASSUME NEW d, IsDesign(d), NEW id, Has(d.components, id),
         NEW graph, graph = [objects |-> graph.objects, relationships |-> graph.relationships],
         IsSequence(graph.objects), IsSequence(graph.relationships),
         NEW e, e = WithGraph(d, id, graph)
  PROVE  /\ IsDesign(e)
         /\ \A entry \in GoodRelationships(d) \ GoodRelationships(e) :
              /\ entry[1] = id
              /\ entry[2] \in ToSet(GraphOf(d, id).relationships) \ ToSet(graph.relationships)
<1>1. PICK p \in DOMAIN d.components : p = At(d.components, id) /\ d.components[p].id = id
  BY AtIs DEF IsDesign
<1>2. PICK old : old = d.components[p]
  OBVIOUS
<1>3. IsComponent(old)
  BY <1>2 DEF IsDesign, ToSet
<1>4. PICK new : new = [old EXCEPT !.graph = graph]
  OBVIOUS
<1>5. IsComponent(new) /\ new.id = old.id /\ new.graph = graph
  <2>1. new.graph = graph /\ new.id = old.id
        /\ new = [id |-> new.id, package |-> new.package, config |-> new.config, graph |-> new.graph]
    BY <1>3, <1>4 DEF IsComponent
  <2> QED BY <2>1 DEF IsComponent
<1>6. e = [d EXCEPT !.components = [d.components EXCEPT ![p] = new]]
  BY <1>1, <1>2, <1>4 DEF WithGraph
<1>7. GraphOf(d, id) = GraphRead(old.graph)
  BY <1>1, <1>2 DEF GraphOf
<1>8. ToSet(GraphRead(old.graph).relationships) =
        {r \in ToSet(old.graph.relationships) : WellFormed(r)}
  BY <1>3, GraphReadIs DEF IsComponent
<1>9. IsDesign(e)
  BY <1>2, <1>5, <1>6, ComponentReplaced
<1>10. ASSUME NEW entry \in GoodRelationships(d) \ GoodRelationships(e)
       PROVE  /\ entry[1] = id
              /\ entry[2] \in ToSet(GraphOf(d, id).relationships) \ ToSet(graph.relationships)
  <2>1. /\ entry = <<new.id, entry[2]>> /\ WellFormed(entry[2])
        /\ entry[2] \in ToSet(d.components[p].graph.relationships)
        /\ entry[2] \notin ToSet(new.graph.relationships)
    BY <1>2, <1>5, <1>6, ComponentReplaced
  <2>2. entry[1] = new.id
    BY <2>1
  <2> QED BY <1>1, <1>2, <1>5, <1>7, <1>8, <2>1, <2>2
<1> QED BY <1>9, <1>10

(* What a relationship is added to or removed from is the graph read anew. *)
LEMMA GraphOfRead ==
  ASSUME NEW d, IsDesign(d), NEW id, Has(d.components, id),
         NEW read, read = GraphOf(d, id)
  PROVE  /\ read = [objects |-> read.objects, relationships |-> read.relationships]
         /\ IsSequence(read.objects) /\ IsSequence(read.relationships)
<1>1. PICK p \in DOMAIN d.components : p = At(d.components, id)
  BY AtIs DEF IsDesign
<1>2. IsComponent(d.components[p])
  BY DEF IsDesign, ToSet
<1>3. PICK graph : graph = d.components[p].graph /\ IsSequence(graph.objects)
                   /\ IsSequence(graph.relationships)
  BY <1>2 DEF IsComponent
<1>4. read = GraphRead(graph)
  BY <1>1, <1>3 DEF GraphOf
<1> QED BY <1>1, <1>3, <1>4, GraphReadIs

LEMMA ObjectAdded ==
  ASSUME NEW d, IsDesign(d), NEW id, NEW objectId, AddGraphObject(d, id, objectId) # Refused
  PROVE  /\ IsDesign(AddGraphObject(d, id, objectId))
         /\ GoodRelationships(d) \subseteq GoodRelationships(AddGraphObject(d, id, objectId))
<1>1. Has(d.components, id)
  BY DEF AddGraphObject
<1>2. PICK read : read = GraphOf(d, id)
  OBVIOUS
<1>3. /\ read = [objects |-> read.objects, relationships |-> read.relationships]
      /\ IsSequence(read.objects) /\ IsSequence(read.relationships)
  BY <1>1, <1>2, GraphOfRead
<1>4. PICK object : object = [id |-> objectId, formed |-> TRUE]
  OBVIOUS
<1>5. PICK graph : graph = [read EXCEPT !.objects = Append(read.objects, object)]
  OBVIOUS
<1>6. /\ graph = [objects |-> graph.objects, relationships |-> graph.relationships]
      /\ graph.objects = Append(read.objects, object)
      /\ graph.relationships = read.relationships
  BY <1>3, <1>5
<1>7. IsSequence(graph.objects)
  <2> DEFINE T == ToSet(read.objects) \cup {object}
  <2>1. read.objects \in Seq(T)
    BY <1>3, SequenceOver
  <2> QED BY <1>6, <2>1, Pushed
<1>8. PICK e : e = WithGraph(d, id, graph)
  OBVIOUS
<1>9. AddGraphObject(d, id, objectId) = e
  BY <1>2, <1>4, <1>5, <1>8 DEF AddGraphObject
<1>10. IsDesign(e) /\ \A entry \in GoodRelationships(d) \ GoodRelationships(e) : FALSE
  BY <1>1, <1>2, <1>3, <1>6, <1>7, <1>8, GraphReplaced
<1> QED BY <1>9, <1>10

LEMMA RelationshipAdded ==
  ASSUME NEW d, IsDesign(d), NEW id, NEW relationship,
         AddGraphRelationship(d, id, relationship) # Refused
  PROVE  /\ IsDesign(AddGraphRelationship(d, id, relationship))
         /\ GoodRelationships(d) \subseteq
              GoodRelationships(AddGraphRelationship(d, id, relationship))
<1>1. Has(d.components, id)
  BY DEF AddGraphRelationship
<1>2. PICK read : read = GraphOf(d, id)
  OBVIOUS
<1>3. /\ read = [objects |-> read.objects, relationships |-> read.relationships]
      /\ IsSequence(read.objects) /\ IsSequence(read.relationships)
  BY <1>1, <1>2, GraphOfRead
<1>4. PICK new : new = [relationship EXCEPT !.ends = ObjectEnds(@)]
  OBVIOUS
<1>5. PICK graph : graph = [read EXCEPT !.relationships = Append(read.relationships, new)]
  OBVIOUS
<1>6. /\ graph = [objects |-> graph.objects, relationships |-> graph.relationships]
      /\ graph.relationships = Append(read.relationships, new)
      /\ graph.objects = read.objects
  BY <1>3, <1>5
<1>7. IsSequence(graph.relationships) /\ ToSet(read.relationships) \subseteq ToSet(graph.relationships)
  <2> DEFINE T == ToSet(read.relationships) \cup {new}
  <2>1. read.relationships \in Seq(T)
    BY <1>3, SequenceOver
  <2> QED BY <1>6, <2>1, Pushed, SetOfAppend
<1>8. PICK e : e = WithGraph(d, id, graph)
  OBVIOUS
<1>9. AddGraphRelationship(d, id, relationship) = e
  BY <1>2, <1>4, <1>5, <1>8 DEF AddGraphRelationship
<1>10. IsDesign(e) /\ \A entry \in GoodRelationships(d) \ GoodRelationships(e) :
                         entry[2] \in ToSet(read.relationships) \ ToSet(graph.relationships)
  <2>1. IsSequence(graph.objects)
    BY <1>3, <1>6
  <2> QED BY <1>1, <1>2, <1>6, <1>7, <1>8, <2>1, GraphReplaced
<1>11. GoodRelationships(d) \subseteq GoodRelationships(e)
  BY <1>7, <1>10
<1> QED BY <1>9, <1>10, <1>11

LEMMA RelationshipRemoved ==
  ASSUME NEW d, IsDesign(d), NEW id, NEW relationshipId,
         RemoveGraphRelationship(d, id, relationshipId) # Refused
  PROVE  /\ IsDesign(RemoveGraphRelationship(d, id, relationshipId))
         /\ \A entry \in GoodRelationships(d) \
                         GoodRelationships(RemoveGraphRelationship(d, id, relationshipId)) :
              entry[1] = id /\ entry[2].id = relationshipId
<1>1. Has(d.components, id)
  BY DEF RemoveGraphRelationship
<1>2. PICK read : read = GraphOf(d, id)
  OBVIOUS
<1>3. /\ read = [objects |-> read.objects, relationships |-> read.relationships]
      /\ IsSequence(read.objects) /\ IsSequence(read.relationships)
  BY <1>1, <1>2, GraphOfRead
<1>4. Has(read.relationships, relationshipId)
  BY <1>2 DEF RemoveGraphRelationship
<1>5. PICK rs : rs = read.relationships
  OBVIOUS
<1>6. PICK p \in DOMAIN rs : p = At(rs, relationshipId) /\ rs[p].id = relationshipId
  BY <1>3, <1>4, <1>5, AtIs
<1>7. PICK rest : rest = RemoveAt(rs, p)
  OBVIOUS
<1>8. IsSequence(rest) /\ ToSet(rest) = {rs[i] : i \in DOMAIN rs \ {p}}
  <2>1. rs \in Seq(ToSet(rs))
    BY <1>3, <1>5 DEF IsSequence
  <2> QED BY <1>7, <2>1, WithoutOne, SequenceItself
<1>9. \A r \in ToSet(rs) \ ToSet(rest) : r.id = relationshipId
  BY <1>6, <1>8 DEF ToSet
<1>10. PICK graph : graph = [read EXCEPT !.relationships = rest]
  OBVIOUS
<1>11. /\ graph = [objects |-> graph.objects, relationships |-> graph.relationships]
       /\ graph.relationships = rest /\ graph.objects = read.objects
  BY <1>3, <1>10
<1>12. PICK e : e = WithGraph(d, id, graph)
  OBVIOUS
<1>13. RemoveGraphRelationship(d, id, relationshipId) = e
  BY <1>2, <1>5, <1>6, <1>7, <1>10, <1>12 DEF RemoveGraphRelationship, Without
<1>14. IsDesign(e) /\ \A entry \in GoodRelationships(d) \ GoodRelationships(e) :
                        entry[1] = id /\ entry[2] \in ToSet(rs) \ ToSet(rest)
  BY <1>1, <1>2, <1>3, <1>5, <1>8, <1>11, <1>12, GraphReplaced
<1> QED BY <1>9, <1>13, <1>14

LEMMA ConfigSet ==
  ASSUME NEW d, IsDesign(d), NEW id, NEW key, NEW e, e # Refused,
         e = SetConfig(d, id, key) \/ e = UnsetConfig(d, id, key)
  PROVE  IsDesign(e) /\ GoodRelationships(d) \subseteq GoodRelationships(e)
<1>1. Has(d.components, id)
  BY DEF SetConfig, UnsetConfig
<1>2. PICK config : e = [d EXCEPT !.components[At(d.components, id)].config = config]
  BY DEF SetConfig, UnsetConfig
<1> QED BY <1>1, <1>2, ConfigChanged

(* An operation that applies leaves a design, and every relationship that  *)
(* it does not take away.                                                  *)
OperationTakes(d, o, e) ==
  /\ IsDesign(e)
  /\ \A entry \in GoodRelationships(d) \ GoodRelationships(e) : Takes(o, entry[1], entry[2].id)

LEMMA ComponentOperation ==
  ASSUME NEW d, IsDesign(d), NEW o, AddsComponent(o) => IsComponent(o.component),
         Operation(d, o) # Refused, o.formed,
         o.op \in {"component.add",
                   "component.remove",
                   "component.config.set",
                   "component.config.unset",
                   "component.graph_object.add",
                   "component.graph_relationship.add",
                   "component.graph_relationship.remove"}
  PROVE  OperationTakes(d, o, Operation(d, o))
<1>1. CASE o.op = "component.add"
  <2>1. Operation(d, o) = AddComponent(d, o.component)
    BY <1>1 DEF Operation
  <2>2. IsComponent(o.component)
    BY <1>1 DEF AddsComponent
  <2> QED BY <2>1, <2>2, ComponentAdded DEF OperationTakes
<1>2. CASE o.op = "component.remove"
  <2>1. Operation(d, o) = RemoveComponent(d, o.id)
    BY <1>2 DEF Operation
  <2> QED BY <1>2, <2>1, ComponentRemoved DEF OperationTakes, Takes
<1>3. CASE o.op = "component.config.set"
  <2>1. Operation(d, o) = SetConfig(d, o.id, o.key)
    BY <1>3 DEF Operation
  <2> QED BY <1>3, <2>1, ConfigSet DEF OperationTakes, Takes
<1>4. CASE o.op = "component.config.unset"
  <2>1. Operation(d, o) = UnsetConfig(d, o.id, o.key)
    BY <1>4 DEF Operation
  <2> QED BY <1>4, <2>1, ConfigSet DEF OperationTakes, Takes
<1>5. CASE o.op = "component.graph_object.add"
  <2>1. Operation(d, o) = AddGraphObject(d, o.id, o.object)
    BY <1>5 DEF Operation
  <2> QED BY <1>5, <2>1, ObjectAdded DEF OperationTakes, Takes
<1>6. CASE o.op = "component.graph_relationship.add"
  <2>1. Operation(d, o) = AddGraphRelationship(d, o.id, o.relationship)
    BY <1>6 DEF Operation
  <2> QED BY <1>6, <2>1, RelationshipAdded DEF OperationTakes, Takes
<1>7. CASE o.op = "component.graph_relationship.remove"
  <2>1. Operation(d, o) = RemoveGraphRelationship(d, o.id, o.relationship)
    BY <1>7 DEF Operation
  <2> QED BY <1>7, <2>1, RelationshipRemoved DEF OperationTakes, Takes
<1> QED BY <1>1, <1>2, <1>3, <1>4, <1>5, <1>6, <1>7

LEMMA OtherOperation ==
  ASSUME NEW d, IsDesign(d), NEW o, Operation(d, o) # Refused, o.formed,
         o.op \in {"connection.add",
                   "connection.remove",
                   "connection.set",
                   "view.set",
                   "view.layout.set",
                   "view.node_position.set",
                   "topology.add_or_update",
                   "topology.remove"}
  PROVE  OperationTakes(d, o, Operation(d, o))
<1>1. PICK e : e = Operation(d, o)
  OBVIOUS
<1>2. CASE o.op = "connection.add"
  <2>1. e = AddConnection(d, o.connection)
    BY <1>1, <1>2 DEF Operation
  <2>2. PICK v : e = [d EXCEPT !.connections = v]
    BY <1>1, <2>1 DEF AddConnection
  <2> QED BY <1>1, <2>2, OtherPart DEF OperationTakes
<1>3. CASE o.op = "connection.remove"
  <2>1. e = RemoveConnection(d, o.id)
    BY <1>1, <1>3 DEF Operation
  <2>2. PICK v : e = [d EXCEPT !.connections = v]
    BY <1>1, <2>1 DEF RemoveConnection
  <2> QED BY <1>1, <2>2, OtherPart DEF OperationTakes
<1>4. CASE o.op = "connection.set"
  <2>1. e = SetConnection(d, o.id, o.setting)
    BY <1>1, <1>4 DEF Operation
  <2>2. PICK v : e = [d EXCEPT !.connections = v]
    BY <1>1, <2>1 DEF SetConnection
  <2> QED BY <1>1, <2>2, OtherPart DEF OperationTakes
<1>5. CASE o.op = "view.set"
  <2>1. e = SetView(d, o.view)
    BY <1>1, <1>5 DEF Operation
  <2>2. PICK v : e = [d EXCEPT !.views = v]
    BY <1>1, <2>1 DEF SetView
  <2> QED BY <1>1, <2>2, OtherPart DEF OperationTakes
<1>6. CASE o.op = "view.layout.set"
  <2>1. e = SetViewLayout(d, o.id, o.nodes)
    BY <1>1, <1>6 DEF Operation
  <2>2. PICK v : e = [d EXCEPT !.views = v]
    BY <1>1, <2>1 DEF SetViewLayout
  <2> QED BY <1>1, <2>2, OtherPart DEF OperationTakes
<1>7. CASE o.op = "view.node_position.set"
  <2>1. e = SetNodePosition(d, o.id, o.node)
    BY <1>1, <1>7 DEF Operation
  <2>2. PICK v : e = [d EXCEPT !.views = v]
    BY <1>1, <2>1 DEF SetNodePosition
  <2> QED BY <1>1, <2>2, OtherPart DEF OperationTakes
<1>8. CASE o.op = "topology.add_or_update"
  <2>1. e = SetTopology(d, o.topology)
    BY <1>1, <1>8 DEF Operation
  <2>2. PICK v : e = [d EXCEPT !.topologies = v]
    BY <1>1, <2>1 DEF SetTopology
  <2> QED BY <1>1, <2>2, OtherPart DEF OperationTakes
<1>9. CASE o.op = "topology.remove"
  <2>1. e = RemoveTopology(d, o.id)
    BY <1>1, <1>9 DEF Operation
  <2>2. PICK v : e = [d EXCEPT !.topologies = v]
    BY <1>1, <2>1 DEF RemoveTopology
  <2> QED BY <1>1, <2>2, OtherPart DEF OperationTakes
<1> QED BY <1>2, <1>3, <1>4, <1>5, <1>6, <1>7, <1>8, <1>9

LEMMA OperationKeeps ==
  ASSUME NEW d, IsDesign(d), NEW o, AddsComponent(o) => IsComponent(o.component),
         Operation(d, o) # Refused
  PROVE  OperationTakes(d, o, Operation(d, o))
<1>1. o.formed
  BY DEF Operation
<1>2. \/ o.op \in {"component.add",
                   "component.remove",
                   "component.config.set",
                   "component.config.unset",
                   "component.graph_object.add",
                   "component.graph_relationship.add",
                   "component.graph_relationship.remove"}
      \/ o.op \in {"connection.add",
                   "connection.remove",
                   "connection.set",
                   "view.set",
                   "view.layout.set",
                   "view.node_position.set",
                   "topology.add_or_update",
                   "topology.remove"}
  <2> SUFFICES ASSUME o.op # "component.add",
                      o.op # "component.remove",
                      o.op # "component.config.set",
                      o.op # "component.config.unset",
                      o.op # "component.graph_object.add",
                      o.op # "component.graph_relationship.add",
                      o.op # "component.graph_relationship.remove",
                      o.op # "connection.add",
                      o.op # "connection.remove",
                      o.op # "connection.set",
                      o.op # "view.set",
                      o.op # "view.layout.set",
                      o.op # "view.node_position.set",
                      o.op # "topology.add_or_update",
                      o.op # "topology.remove"
               PROVE  FALSE
    OBVIOUS
  <2>1. Operation(d, o) = Refused
    BY <1>1 DEF Operation
  <2> QED BY <2>1
<1> QED BY <1>1, <1>2, ComponentOperation, OtherOperation

(* Every design the service holds has the form of one.                     *)
DesignsFormed ==
  /\ IsDesign(design) /\ IsDesign(candidate)
  /\ \A i \in DOMAIN undo : IsDesign(undo[i])
  /\ \A i \in DOMAIN redo : IsDesign(redo[i])

(* While applyPatch runs, the copy lacks no relationship of the design but *)
(* those an operation so far has taken away.                               *)
CopyKeeps ==
  patch # Idle =>
    \A entry \in GoodRelationships(design) \ GoodRelationships(candidate) :
      \E i \in 1 .. next - 1 : Takes(patch[i], entry[1], entry[2].id)

LEMMA OperationOfPatch ==
  ASSUME TypeOK, Applying
  PROVE  /\ patch \in Patches /\ next \in Nat \ {0} /\ patch[next] \in ToSet(patch)
         /\ AddsComponent(patch[next]) => IsComponent(patch[next].component)
<1>1. patch \in Patches /\ next \in Nat \ {0} /\ next <= Len(patch)
  BY DEF TypeOK, Applying, Returned
<1>2. patch \in Seq(ToSet(patch)) /\ Len(patch) \in Nat
  BY <1>1, PatchLength, DesignEditingAssumption
<1>3. next \in 1 .. Len(patch) /\ DOMAIN patch = 1 .. Len(patch)
  BY <1>1, <1>2, LenProperties
<1>4. patch[next] \in ToSet(patch)
  BY <1>3 DEF ToSet
<1> QED BY <1>1, <1>4, DesignEditingAssumption

LEMMA FormsStay ==
  ASSUME TypeOK, DesignsFormed, [Next]_vars
  PROVE  DesignsFormed'
<1> USE DEF DesignsFormed
<1>1. CASE ReplaceDesign
  <2>1. DOMAIN << >> = {}
    OBVIOUS
  <2> QED BY <1>1, <2>1, DesignEditingAssumption DEF ReplaceDesign
<1>2. CASE BeginPatch
  BY <1>2 DEF BeginPatch
<1>3. CASE ApplyOperation
  <2>1. IsDesign(candidate')
    BY <1>3, OperationKeeps, OperationOfPatch DEF ApplyOperation, OperationTakes
  <2> QED BY <1>3, <2>1 DEF ApplyOperation
<1>4. CASE RejectOperation
  BY <1>4 DEF RejectOperation, Return
<1>5. CASE Commit
  <2>1. \A i \in DOMAIN undo' : undo'[i] = design \/ (i \in DOMAIN undo /\ undo'[i] = undo[i])
    BY <1>5, PushedEntries DEF Commit, TypeOK
  <2>2. DOMAIN << >> = {}
    OBVIOUS
  <2> QED BY <1>5, <2>1, <2>2 DEF Commit, Return
<1>6. CASE RejectCandidate
  BY <1>6 DEF RejectCandidate, Return
<1>7. CASE Undo
  <2>1. /\ Len(undo) \in DOMAIN undo /\ design' = undo[Len(undo)] /\ candidate' = design'
        /\ \A i \in DOMAIN undo' : i \in DOMAIN undo /\ undo'[i] = undo[i]
    BY <1>7, LastOfStack DEF Undo, TypeOK
  <2>2. \A i \in DOMAIN redo' : redo'[i] = design \/ (i \in DOMAIN redo /\ redo'[i] = redo[i])
    BY <1>7, PushedEntries DEF Undo, TypeOK
  <2> QED BY <2>1, <2>2
<1>8. CASE Redo
  <2>1. /\ Len(redo) \in DOMAIN redo /\ design' = redo[Len(redo)] /\ candidate' = design'
        /\ \A i \in DOMAIN redo' : i \in DOMAIN redo /\ redo'[i] = redo[i]
    BY <1>8, LastOfStack DEF Redo, TypeOK
  <2>2. \A i \in DOMAIN undo' : undo'[i] = design \/ (i \in DOMAIN undo /\ undo'[i] = undo[i])
    BY <1>8, PushedEntries DEF Redo, TypeOK
  <2> QED BY <2>1, <2>2
<1>9. CASE UNCHANGED vars
  BY <1>9 DEF vars
<1> QED BY <1>1, <1>2, <1>3, <1>4, <1>5, <1>6, <1>7, <1>8, <1>9 DEF Next

LEMMA CopyStays ==
  ASSUME TypeOK, DesignsFormed, CopyKeeps, [Next]_vars
  PROVE  CopyKeeps'
<1> USE DEF CopyKeeps
<1>1. CASE ReplaceDesign \/ Undo \/ Redo
  <2>1. patch' = Idle
    BY <1>1 DEF ReplaceDesign, Undo, Redo, Returned
  <2> QED BY <2>1
<1>2. CASE RejectOperation \/ Commit \/ RejectCandidate
  <2>1. patch' = Idle
    BY <1>2 DEF RejectOperation, Commit, RejectCandidate, Return
  <2> QED BY <2>1
<1>3. CASE BeginPatch
  <2>1. GoodRelationships(candidate)' = GoodRelationships(design)'
    BY <1>3 DEF BeginPatch, GoodRelationships
  <2> QED BY <2>1
<1>4. CASE ApplyOperation
  <2>1. patch # Idle /\ design' = design /\ patch' = patch /\ next' = next + 1
        /\ candidate' = Operation(candidate, patch[next])
    BY <1>4 DEF ApplyOperation, Applying, Returned
  <2>2. next \in Nat \ {0} /\ OperationTakes(candidate, patch[next], candidate')
    BY <1>4, <2>1, OperationKeeps, OperationOfPatch DEF ApplyOperation, DesignsFormed
  <2>3. ASSUME NEW entry \in GoodRelationships(design) \ GoodRelationships(candidate')
        PROVE  \E i \in 1 .. next : Takes(patch[i], entry[1], entry[2].id)
    <3>1. CASE entry \in GoodRelationships(candidate)
      <4>1. Takes(patch[next], entry[1], entry[2].id) /\ next \in 1 .. next
        BY <2>2, <3>1 DEF OperationTakes
      <4> QED BY <4>1
    <3>2. CASE entry \notin GoodRelationships(candidate)
      <4>1. PICK i \in 1 .. next - 1 : Takes(patch[i], entry[1], entry[2].id)
        BY <2>1, <3>2
      <4>2. i \in 1 .. next
        BY <2>2
      <4> QED BY <4>1, <4>2
    <3> QED BY <3>1, <3>2
  <2>4. next' - 1 = next
    BY <2>1, <2>2
  <2>5. GoodRelationships(design)' = GoodRelationships(design)
        /\ GoodRelationships(candidate)' = GoodRelationships(candidate')
    BY <2>1 DEF GoodRelationships
  <2> QED BY <2>1, <2>3, <2>4, <2>5
<1>5. CASE UNCHANGED vars
  BY <1>5 DEF vars, GoodRelationships
<1> QED BY <1>1, <1>2, <1>3, <1>4, <1>5 DEF Next

(* No step of applyPatch loses a relationship the patch does not remove.   *)
StepKeepsRelationships ==
  ~Returned => \A entry \in GoodRelationships(design) \ GoodRelationships(design') :
                 Removes(patch, entry[1], entry[2].id)

LEMMA PatchKeeps ==
  ASSUME TypeOK, CopyKeeps, [Next]_vars
  PROVE  StepKeepsRelationships
<1> SUFFICES ASSUME ~Returned,
                    NEW entry \in GoodRelationships(design) \ GoodRelationships(design')
             PROVE  Removes(patch, entry[1], entry[2].id)
  BY DEF StepKeepsRelationships
<1>1. patch \in Patches /\ patch # Idle /\ next \in Nat \ {0} /\ next <= Len(patch) + 1
  BY DEF TypeOK, Returned
<1>2. patch \in Seq(ToSet(patch)) /\ Len(patch) \in Nat
  BY <1>1, PatchLength, DesignEditingAssumption
<1>3. design' # design
  OBVIOUS
<1>4. Commit
  <2>1. ~ReplaceDesign /\ ~BeginPatch /\ ~Undo /\ ~Redo
    BY DEF ReplaceDesign, BeginPatch, Undo, Redo
  <2>2. ~ApplyOperation /\ ~RejectOperation /\ ~RejectCandidate /\ ~UNCHANGED vars
    BY <1>3 DEF ApplyOperation, RejectOperation, RejectCandidate, vars
  <2> QED BY <2>1, <2>2 DEF Next
<1>5. design' = candidate
  BY <1>4 DEF Commit
<1>6. PICK i \in 1 .. next - 1 : Takes(patch[i], entry[1], entry[2].id)
  BY <1>1, <1>5 DEF CopyKeeps
<1>7. i \in DOMAIN patch
  BY <1>1, <1>2, LenProperties
<1> QED BY <1>6, <1>7 DEF Removes, ToSet

(* Whatever patches are sent, none loses a well-formed relationship of a   *)
(* graph_config it does not remove by name, although each operation writes *)
(* the graph_config it has read, and a later operation may read another    *)
(* component of the same id.                                               *)
THEOREM RelationshipsAlwaysKept == Spec => RelationshipsKept
<1>1. Init => DesignsFormed /\ CopyKeeps
  <2> SUFFICES ASSUME Init PROVE DesignsFormed /\ CopyKeeps
    OBVIOUS
  <2>1. DOMAIN << >> = {}
    OBVIOUS
  <2> QED BY <2>1, DesignEditingAssumption DEF Init, DesignsFormed, CopyKeeps
<1>2. TypeOK /\ DesignsFormed /\ CopyKeeps /\ [Next]_vars => DesignsFormed' /\ CopyKeeps'
  BY FormsStay, CopyStays
<1>3. TypeOK /\ CopyKeeps /\ [Next]_vars => [StepKeepsRelationships]_vars
  BY PatchKeeps
<1>4. Spec => [][StepKeepsRelationships]_vars
  BY <1>1, <1>2, <1>3, TypeCorrect, PTL DEF Spec
<1> QED BY <1>4 DEF RelationshipsKept, StepKeepsRelationships

=============================================================================
