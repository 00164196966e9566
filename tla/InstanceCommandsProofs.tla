----------------------- MODULE InstanceCommandsProofs -----------------------
(***************************************************************************)
(* What the two instance commands do to a record list, for every catalog   *)
(* and every bound: lemmas for the histories that hold such commands.      *)
(*                                                                         *)
(*   1. inserting, removing and finding records in a record list;          *)
(*   2. the memory and the flags of a command object;                      *)
(*   3. what each call makes of a document of the model.                   *)
(***************************************************************************)
EXTENDS InstanceCommands, SequenceTheorems, FiniteSetTheorems, TLAPS

-----------------------------------------------------------------------------
(* t is s with e put in at p, and the later elements moved up; and t is s  *)
(* without its element at p, and the later elements moved down.            *)
WithElementAt(t, s, p, e) ==
  /\ Len(t) = Len(s) + 1
  /\ \A i \in 1 .. p - 1 : t[i] = s[i]
  /\ t[p] = e
  /\ \A i \in p + 1 .. Len(s) + 1 : t[i] = s[i - 1]

WithoutElementAt(t, s, p) ==
  /\ Len(t) = Len(s) - 1
  /\ \A i \in 1 .. p - 1 : t[i] = s[i]
  /\ \A i \in p .. Len(s) - 1 : t[i] = s[i + 1]

(* Inserting puts the element at its place and moves the later ones up.    *)
LEMMA Inserted ==
  ASSUME NEW S, NEW s \in Seq(S), NEW e \in S, NEW p \in 1 .. Len(s) + 1
  PROVE  /\ InsertAt(s, p, e) \in Seq(S)
         /\ WithElementAt(InsertAt(s, p, e), s, p, e)
<1>1. PICK n \in Nat : n = Len(s)
  BY LenProperties
<1>2. \A i \in 1 .. n : s[i] \in S
  BY <1>1, ElementOfSeq
<1>3. PICK a : a = SubSeq(s, 1, p - 1)
  OBVIOUS
<1>4. PICK b : b = SubSeq(s, p, n)
  OBVIOUS
<1>5. p \in Nat /\ p >= 1 /\ p <= n + 1
  BY <1>1
<1>6. a \in Seq(S) /\ Len(a) = p - 1 /\ \A i \in 1 .. p - 1 : a[i] = s[i]
  <2>1. \A i \in 1 .. p - 1 : s[i] \in S
    BY <1>2, <1>5
  <2>2. /\ a \in Seq(S)
        /\ Len(a) = IF 1 <= p - 1 THEN p - 1 - 1 + 1 ELSE 0
        /\ \A i \in 1 .. p - 1 - 1 + 1 : a[i] = s[1 + i - 1]
    BY <1>3, <1>5, <2>1, SubSeqProperties
  <2> QED BY <1>5, <2>2
<1>7. b \in Seq(S) /\ Len(b) = n + 1 - p /\ \A i \in 1 .. n + 1 - p : b[i] = s[p + i - 1]
  <2>1. \A i \in p .. n : s[i] \in S
    BY <1>2, <1>5
  <2>2. /\ b \in Seq(S)
        /\ Len(b) = IF p <= n THEN n - p + 1 ELSE 0
        /\ \A i \in 1 .. n - p + 1 : b[i] = s[p + i - 1]
    BY <1>1, <1>4, <1>5, <2>1, SubSeqProperties
  <2> QED BY <1>1, <1>5, <2>2
<1>8. PICK f : f = Append(a, e)
  OBVIOUS
<1>9. f \in Seq(S) /\ Len(f) = p /\ f[p] = e /\ \A i \in 1 .. p - 1 : f[i] = s[i]
  <2>1. /\ f \in Seq(S) /\ Len(f) = Len(a) + 1 /\ f[Len(a) + 1] = e
        /\ \A i \in 1 .. Len(a) : f[i] = a[i]
    BY <1>6, <1>8, AppendProperties
  <2> QED BY <1>5, <1>6, <2>1
<1>10. PICK t : t = f \o b
  OBVIOUS
<1>11. InsertAt(s, p, e) = t
  <2>1. f = a \o <<e>>
    BY <1>6, <1>8, AppendIsConcat
  <2> QED BY <1>1, <1>3, <1>4, <1>10, <2>1 DEF InsertAt
<1>12. /\ t \in Seq(S) /\ Len(t) = n + 1
       /\ \A i \in 1 .. p : t[i] = f[i]
       /\ \A i \in p + 1 .. n + 1 : t[i] = b[i - p]
  <2>1. /\ t \in Seq(S) /\ Len(t) = Len(f) + Len(b)
        /\ \A i \in 1 .. Len(f) + Len(b) : t[i] = IF i <= Len(f) THEN f[i] ELSE b[i - Len(f)]
    BY <1>7, <1>9, <1>10, ConcatProperties
  <2>2. Len(f) = p /\ Len(b) = n + 1 - p
    BY <1>7, <1>9
  <2>3. Len(f) + Len(b) = n + 1
    BY <1>1, <1>5, <2>2
  <2>4. \A i \in 1 .. n + 1 : t[i] = IF i <= p THEN f[i] ELSE b[i - p]
    BY <2>1, <2>2, <2>3
  <2>5. \A i \in 1 .. p : i \in 1 .. n + 1 /\ i <= p
    BY <1>1, <1>5
  <2>6. \A i \in p + 1 .. n + 1 : i \in 1 .. n + 1 /\ ~(i <= p)
    BY <1>1, <1>5
  <2> QED BY <2>1, <2>3, <2>4, <2>5, <2>6
<1>13. ASSUME NEW i \in p + 1 .. n + 1
       PROVE  t[i] = s[i - 1]
  <2>1. i - p \in 1 .. n + 1 - p /\ p + (i - p) - 1 = i - 1
    BY <1>1, <1>5
  <2>2. b[i - p] = s[p + (i - p) - 1]
    BY <1>7, <2>1
  <2> QED BY <1>12, <2>1, <2>2
<1>14. t[p] = e /\ \A i \in 1 .. p - 1 : t[i] = s[i]
  BY <1>5, <1>9, <1>12
<1> QED BY <1>1, <1>11, <1>12, <1>13, <1>14 DEF WithElementAt

(* Removing drops the element at its place and moves the later ones down.  *)
LEMMA Removed ==
  ASSUME NEW S, NEW s \in Seq(S), NEW p \in 1 .. Len(s)
  PROVE  /\ RemoveAt(s, p) \in Seq(S)
         /\ WithoutElementAt(RemoveAt(s, p), s, p)
<1>1. PICK n \in Nat : n = Len(s)
  BY LenProperties
<1>2. \A i \in 1 .. n : s[i] \in S
  BY <1>1, ElementOfSeq
<1>3. PICK a : a = SubSeq(s, 1, p - 1)
  OBVIOUS
<1>4. PICK b : b = SubSeq(s, p + 1, n)
  OBVIOUS
<1>5. p \in Nat /\ p >= 1 /\ p <= n
  BY <1>1
<1>6. a \in Seq(S) /\ Len(a) = p - 1 /\ \A i \in 1 .. p - 1 : a[i] = s[i]
  <2>1. \A i \in 1 .. p - 1 : s[i] \in S
    BY <1>2, <1>5
  <2>2. /\ a \in Seq(S)
        /\ Len(a) = IF 1 <= p - 1 THEN p - 1 - 1 + 1 ELSE 0
        /\ \A i \in 1 .. p - 1 - 1 + 1 : a[i] = s[1 + i - 1]
    BY <1>3, <1>5, <2>1, SubSeqProperties
  <2> QED BY <1>5, <2>2
<1>7. b \in Seq(S) /\ Len(b) = n - p /\ \A i \in 1 .. n - p : b[i] = s[p + i]
  <2>1. \A i \in p + 1 .. n : s[i] \in S
    BY <1>2, <1>5
  <2>2. /\ b \in Seq(S)
        /\ Len(b) = IF p + 1 <= n THEN n - (p + 1) + 1 ELSE 0
        /\ \A i \in 1 .. n - (p + 1) + 1 : b[i] = s[p + 1 + i - 1]
    BY <1>1, <1>4, <1>5, <2>1, SubSeqProperties
  <2> QED BY <1>1, <1>5, <2>2
<1>8. PICK t : t = a \o b
  OBVIOUS
<1>9. RemoveAt(s, p) = t
  BY <1>1, <1>3, <1>4, <1>8 DEF RemoveAt
<1>10. /\ t \in Seq(S) /\ Len(t) = n - 1
       /\ \A i \in 1 .. p - 1 : t[i] = a[i]
       /\ \A i \in p .. n - 1 : t[i] = b[i - (p - 1)]
  <2>1. /\ t \in Seq(S) /\ Len(t) = Len(a) + Len(b)
        /\ \A i \in 1 .. Len(a) + Len(b) : t[i] = IF i <= Len(a) THEN a[i] ELSE b[i - Len(a)]
    BY <1>6, <1>7, <1>8, ConcatProperties
  <2>2. Len(a) = p - 1 /\ Len(b) = n - p
    BY <1>6, <1>7
  <2>3. Len(a) + Len(b) = n - 1 /\ p - 1 \in Nat /\ p - 1 <= n - 1
    BY <1>1, <1>5, <2>2
  <2>4. \A i \in 1 .. n - 1 : t[i] = IF i <= p - 1 THEN a[i] ELSE b[i - (p - 1)]
    BY <2>1, <2>2, <2>3
  <2>5. \A i \in 1 .. p - 1 : i \in 1 .. n - 1 /\ i <= p - 1
    BY <1>1, <1>5
  <2>6. \A i \in p .. n - 1 : i \in 1 .. n - 1 /\ ~(i <= p - 1)
    BY <1>1, <1>5
  <2> QED BY <2>1, <2>3, <2>4, <2>5, <2>6
<1>11. ASSUME NEW i \in p .. n - 1
       PROVE  t[i] = s[i + 1]
  <2>1. i - (p - 1) \in 1 .. n - p /\ p + (i - (p - 1)) = i + 1
    BY <1>1, <1>5
  <2>2. b[i - (p - 1)] = s[p + (i - (p - 1))]
    BY <1>7, <2>1
  <2> QED BY <1>10, <2>1, <2>2
<1>12. \A i \in 1 .. p - 1 : t[i] = s[i]
  BY <1>6, <1>10
<1> QED BY <1>1, <1>9, <1>10, <1>11, <1>12 DEF WithoutElementAt

(* What was inserted is taken out again without a trace.                   *)
LEMMA InsertThenRemove ==
  ASSUME NEW S, NEW s \in Seq(S), NEW e \in S, NEW p \in 1 .. Len(s) + 1
  PROVE  RemoveAt(InsertAt(s, p, e), p) = s
<1>1. PICK n \in Nat : n = Len(s)
  BY LenProperties
<1>2. PICK t : t = InsertAt(s, p, e)
  OBVIOUS
<1>3. /\ t \in Seq(S) /\ Len(t) = n + 1
      /\ \A i \in 1 .. p - 1 : t[i] = s[i]
      /\ \A i \in p + 1 .. n + 1 : t[i] = s[i - 1]
  <2>1. t \in Seq(S) /\ WithElementAt(t, s, p, e)
    BY <1>2, Inserted
  <2> QED BY <1>1, <2>1 DEF WithElementAt
<1>4. p \in Nat /\ p >= 1 /\ p <= n + 1 /\ p \in 1 .. Len(t)
  BY <1>1, <1>3
<1>5. PICK u : u = RemoveAt(t, p)
  OBVIOUS
<1>6. /\ u \in Seq(S) /\ Len(u) = n
      /\ \A i \in 1 .. p - 1 : u[i] = t[i]
      /\ \A i \in p .. n : u[i] = t[i + 1]
  <2>1. u \in Seq(S) /\ WithoutElementAt(u, t, p)
    BY <1>3, <1>4, <1>5, Removed
  <2> QED BY <1>1, <1>3, <2>1 DEF WithoutElementAt
<1>7. ASSUME NEW i \in 1 .. n PROVE u[i] = s[i]
  <2>1. CASE i < p
    BY <1>3, <1>4, <1>6, <2>1
  <2>2. CASE ~(i < p)
    <3>1. i \in p .. n /\ i + 1 \in p + 1 .. n + 1 /\ i + 1 - 1 = i
      BY <1>1, <1>4, <2>2
    <3>2. u[i] = t[i + 1] /\ t[i + 1] = s[i + 1 - 1]
      BY <1>3, <1>6, <3>1
    <3> QED BY <3>1, <3>2
  <2> QED BY <2>1, <2>2
<1> QED BY <1>1, <1>2, <1>5, <1>6, <1>7, SeqEqual

-----------------------------------------------------------------------------
(* A set of numbers below a bound has a largest one.                       *)
LEMMA LargestExists ==
  ASSUME NEW N \in Nat, NEW S \in SUBSET (0 .. N), S # {}
  PROVE  \E n \in S : \A m \in S : m <= n
<1> DEFINE R == OpToRel(<, Nat)
           T == {x \in Nat : N - x \in S}
<1>1. IsWellFoundedOn(R, Nat)
  BY NatLessThanWellFounded
<1>2. T \subseteq Nat /\ T # {}
  <2>1. PICK n \in S : n \in 0 .. N
    OBVIOUS
  <2>2. N - n \in Nat /\ N - (N - n) = n
    BY <2>1
  <2>3. N - n \in T
    BY <2>1, <2>2
  <2> QED BY <2>3
<1>3. PICK x \in T : \A y \in T : ~(<<y, x>> \in R)
  <2> HIDE DEF R, T
  <2> QED BY <1>1, <1>2, WFMin
<1>4. \A y \in T : x <= y
  <2>1. x \in Nat /\ N - x \in S
    OBVIOUS
  <2>2. ASSUME NEW y \in Nat, y < x PROVE <<y, x>> \in R
    BY <2>1, <2>2 DEF OpToRel
  <2> HIDE DEF R
  <2>3. ASSUME NEW y \in T PROVE ~(y < x)
    <3>1. y \in Nat
      OBVIOUS
    <3> HIDE DEF T
    <3> QED BY <1>3, <2>2, <2>3, <3>1
  <2>4. \A y \in T : y \in Nat
    OBVIOUS
  <2> HIDE DEF T
  <2> QED BY <2>1, <2>3, <2>4
<1>5. N - x \in S
  OBVIOUS
<1>6. ASSUME NEW m \in S PROVE m <= N - x
  <2>1. m \in 0 .. N
    OBVIOUS
  <2>2. N - m \in Nat /\ N - (N - m) = m
    BY <2>1
  <2>3. N - m \in T
    BY <2>2
  <2>4. x <= N - m
    BY <1>4, <2>3
  <2> QED BY <1>2, <2>1, <2>4
<1> QED BY <1>5, <1>6

(* A record list has a record exactly if its index is a position that      *)
(* holds it.                                                               *)
LEMMA FoundSomewhere ==
  ASSUME NEW s \in Seq(Records), NEW ref
  PROVE  /\ HasRecord(s, ref) <=> \E i \in 1 .. Len(s) : Ref(s[i]) = ref
         /\ HasRecord(s, ref) => /\ IndexOfRecord(s, ref) \in 1 .. Len(s)
                                 /\ Ref(s[IndexOfRecord(s, ref)]) = ref
<1>1. PICK n \in Nat : n = Len(s) /\ DOMAIN s = 1 .. n
  BY LenProperties
<1>2. PICK I : I = {i \in 1 .. n : Ref(s[i]) = ref}
  OBVIOUS
<1>3. IndexOfRecord(s, ref) = IF I # {} THEN Min(I) ELSE 0
  BY <1>1, <1>2 DEF IndexOfRecord, SelectInSeq
<1>4. ASSUME I # {} PROVE Min(I) \in I
  <2> DEFINE T == {n - i : i \in I}
  <2>1. T \in SUBSET (0 .. n) /\ T # {}
    BY <1>1, <1>2, <1>4
  <2>2. PICK m \in T : \A k \in T : k <= m
    <3> HIDE DEF T
    <3> QED BY <1>1, <2>1, LargestExists
  <2>3. PICK x \in I : m = n - x
    OBVIOUS
  <2>4. \A y \in I : n - y \in T
    OBVIOUS
  <2>5. \A y \in I : x <= y
    <3> HIDE DEF T
    <3>1. \A y \in I : n - y <= n - x
      BY <2>2, <2>3, <2>4
    <3> QED BY <1>1, <1>2, <3>1
  <2> QED BY <2>5 DEF Min
<1>5. ASSUME I # {} PROVE IndexOfRecord(s, ref) \in I /\ IndexOfRecord(s, ref) # 0
  BY <1>2, <1>3, <1>4, <1>5
<1>6. ASSUME I = {} PROVE IndexOfRecord(s, ref) = 0
  BY <1>3, <1>6
<1> QED BY <1>1, <1>2, <1>5, <1>6 DEF HasRecord

(* Where no record is twice, the index is the position that holds it.      *)
LEMMA Found ==
  ASSUME NEW s \in Seq(Records), DistinctRefs(s), NEW ref
  PROVE  /\ HasRecord(s, ref) <=> \E i \in 1 .. Len(s) : Ref(s[i]) = ref
         /\ \A i \in 1 .. Len(s) : Ref(s[i]) = ref => IndexOfRecord(s, ref) = i
<1>1. DOMAIN s = 1 .. Len(s)
  BY LenProperties
<1> QED BY <1>1, FoundSomewhere DEF DistinctRefs

(* A record inserted where there was none of its kind is found where it    *)
(* was put, and the others are found as before.                            *)
LEMMA AfterInsert ==
  ASSUME NEW s \in Seq(Records), DistinctRefs(s),
         NEW r \in Records, ~HasRecord(s, Ref(r)),
         NEW p \in 1 .. Len(s) + 1, NEW t, t = InsertAt(s, p, r)
  PROVE  /\ t \in Seq(Records) /\ Len(t) = Len(s) + 1 /\ DistinctRefs(t)
         /\ t[p] = r /\ IndexOfRecord(t, Ref(r)) = p
         /\ \A ref : HasRecord(t, ref) <=> HasRecord(s, ref) \/ ref = Ref(r)
<1>1. PICK n \in Nat : n = Len(s) /\ DOMAIN s = 1 .. n
  BY LenProperties
<1>2. p \in Nat /\ p >= 1 /\ p <= n + 1
  BY <1>1
<1>3. /\ t \in Seq(Records) /\ Len(t) = n + 1 /\ t[p] = r
      /\ \A i \in 1 .. p - 1 : t[i] = s[i]
      /\ \A i \in p + 1 .. n + 1 : t[i] = s[i - 1]
  <2>1. t \in Seq(Records) /\ WithElementAt(t, s, p, r)
    BY Inserted
  <2> QED BY <1>1, <2>1 DEF WithElementAt
<1>4. DOMAIN t = 1 .. n + 1
  BY <1>3, LenProperties
<1> DEFINE old(i) == IF i < p THEN i ELSE i - 1
<1>5. \A i \in 1 .. n + 1 : i # p => old(i) \in 1 .. n /\ t[i] = s[old(i)]
  <2>1. \A i \in 1 .. n + 1 : i < p => i \in 1 .. n /\ t[i] = s[i]
    BY <1>2, <1>3
  <2>2. \A i \in 1 .. n + 1 : i > p => i - 1 \in 1 .. n /\ t[i] = s[i - 1]
    BY <1>2, <1>3
  <2> QED BY <1>2, <2>1, <2>2
<1>6. \A i \in 1 .. n : \E j \in 1 .. n + 1 : j # p /\ t[j] = s[i]
  <2>1. ASSUME NEW i \in 1 .. n, i < p PROVE \E j \in 1 .. n + 1 : j # p /\ t[j] = s[i]
    BY <1>2, <1>3, <2>1
  <2>2. ASSUME NEW i \in 1 .. n, ~(i < p) PROVE \E j \in 1 .. n + 1 : j # p /\ t[j] = s[i]
    <3>1. i + 1 \in p + 1 .. n + 1 /\ i + 1 \in 1 .. n + 1 /\ i + 1 # p /\ i + 1 - 1 = i
      BY <1>2, <2>2
    <3>2. t[i + 1] = s[i + 1 - 1]
      BY <1>3, <3>1
    <3> QED BY <3>1, <3>2
  <2> QED BY <2>1, <2>2
<1>7. \A i \in 1 .. n : Ref(s[i]) # Ref(r)
  BY <1>1, Found
<1>8. DistinctRefs(t)
  <2> SUFFICES ASSUME NEW i \in 1 .. n + 1, NEW j \in 1 .. n + 1, Ref(t[i]) = Ref(t[j])
               PROVE  i = j
    BY <1>4 DEF DistinctRefs
  <2>1. CASE i = p \/ j = p
    <3>1. ASSUME i = p, j # p PROVE FALSE
      BY <1>3, <1>5, <1>7, <3>1
    <3>2. ASSUME j = p, i # p PROVE FALSE
      BY <1>3, <1>5, <1>7, <3>2
    <3> QED BY <2>1, <3>1, <3>2
  <2>2. CASE i # p /\ j # p
    <3>1. /\ old(i) \in 1 .. n /\ old(j) \in 1 .. n
          /\ Ref(s[old(i)]) = Ref(s[old(j)])
      BY <1>5, <2>2
    <3>2. old(i) = old(j)
      BY <1>1, <3>1 DEF DistinctRefs
    <3> QED BY <1>2, <2>2, <3>2
  <2> QED BY <2>1, <2>2
<1>9. IndexOfRecord(t, Ref(r)) = p
  BY <1>2, <1>3, <1>8, Found
<1>10. ASSUME NEW ref
       PROVE  HasRecord(t, ref) <=> HasRecord(s, ref) \/ ref = Ref(r)
  <2>1. HasRecord(t, ref) <=> \E i \in 1 .. n + 1 : Ref(t[i]) = ref
    BY <1>3, <1>8, Found
  <2>2. HasRecord(s, ref) <=> \E i \in 1 .. n : Ref(s[i]) = ref
    BY <1>1, Found
  <2>3. HasRecord(t, ref) => HasRecord(s, ref) \/ ref = Ref(r)
    BY <1>3, <1>5, <2>1, <2>2
  <2>4. HasRecord(s, ref) => HasRecord(t, ref)
    BY <1>6, <2>1, <2>2
  <2>5. ref = Ref(r) => HasRecord(t, ref)
    BY <1>2, <1>3, <2>1
  <2> QED BY <2>3, <2>4, <2>5
<1> QED BY <1>1, <1>3, <1>8, <1>9, <1>10

(* Without the record at p every other record is found as before.          *)
LEMMA AfterRemove ==
  ASSUME NEW s \in Seq(Records), DistinctRefs(s),
         NEW p \in 1 .. Len(s), NEW t, t = RemoveAt(s, p)
  PROVE  /\ t \in Seq(Records) /\ Len(t) = Len(s) - 1 /\ DistinctRefs(t)
         /\ \A ref : HasRecord(t, ref) <=> HasRecord(s, ref) /\ ref # Ref(s[p])
<1>1. PICK n \in Nat : n = Len(s) /\ DOMAIN s = 1 .. n
  BY LenProperties
<1>2. p \in Nat /\ p >= 1 /\ p <= n
  BY <1>1
<1>3. /\ t \in Seq(Records) /\ Len(t) = n - 1
      /\ \A i \in 1 .. p - 1 : t[i] = s[i]
      /\ \A i \in p .. n - 1 : t[i] = s[i + 1]
  <2>1. t \in Seq(Records) /\ WithoutElementAt(t, s, p)
    BY Removed
  <2> QED BY <1>1, <2>1 DEF WithoutElementAt
<1>4. DOMAIN t = 1 .. n - 1
  BY <1>3, LenProperties
<1> DEFINE old(i) == IF i < p THEN i ELSE i + 1
<1>5. \A i \in 1 .. n - 1 : old(i) \in 1 .. n /\ old(i) # p /\ t[i] = s[old(i)]
  <2>1. \A i \in 1 .. n - 1 : i < p => i \in 1 .. n /\ t[i] = s[i]
    BY <1>2, <1>3
  <2>2. \A i \in 1 .. n - 1 : ~(i < p) => i + 1 \in 1 .. n /\ i + 1 # p /\ t[i] = s[i + 1]
    BY <1>2, <1>3
  <2> QED BY <1>2, <2>1, <2>2
<1>6. \A i \in 1 .. n : i # p => \E j \in 1 .. n - 1 : t[j] = s[i]
  <2>1. ASSUME NEW i \in 1 .. n, i < p PROVE \E j \in 1 .. n - 1 : t[j] = s[i]
    BY <1>2, <1>3, <2>1
  <2>2. ASSUME NEW i \in 1 .. n, i > p PROVE \E j \in 1 .. n - 1 : t[j] = s[i]
    <3>1. i - 1 \in p .. n - 1 /\ i - 1 \in 1 .. n - 1 /\ i - 1 + 1 = i
      BY <1>2, <2>2
    <3>2. t[i - 1] = s[i - 1 + 1]
      BY <1>3, <3>1
    <3> QED BY <3>1, <3>2
  <2> QED BY <1>2, <2>1, <2>2
<1>7. DistinctRefs(t)
  <2> SUFFICES ASSUME NEW i \in 1 .. n - 1, NEW j \in 1 .. n - 1, Ref(t[i]) = Ref(t[j])
               PROVE  i = j
    BY <1>4 DEF DistinctRefs
  <2>1. /\ old(i) \in 1 .. n /\ old(j) \in 1 .. n
        /\ Ref(s[old(i)]) = Ref(s[old(j)])
    BY <1>5
  <2>2. old(i) = old(j)
    BY <1>1, <2>1 DEF DistinctRefs
  <2> QED BY <1>2, <2>2
<1>8. ASSUME NEW ref
      PROVE  HasRecord(t, ref) <=> HasRecord(s, ref) /\ ref # Ref(s[p])
  <2>1. HasRecord(t, ref) <=> \E i \in 1 .. n - 1 : Ref(t[i]) = ref
    BY <1>3, <1>7, Found
  <2>2. HasRecord(s, ref) <=> \E i \in 1 .. n : Ref(s[i]) = ref
    BY <1>1, Found
  <2>3. HasRecord(t, ref) => HasRecord(s, ref)
    BY <1>5, <2>1, <2>2
  <2>4. HasRecord(t, ref) => ref # Ref(s[p])
    BY <1>1, <1>2, <1>5, <2>1 DEF DistinctRefs
  <2>5. HasRecord(s, ref) /\ ref # Ref(s[p]) => HasRecord(t, ref)
    BY <1>6, <2>1, <2>2
  <2> QED BY <2>3, <2>4, <2>5
<1> QED BY <1>1, <1>3, <1>7, <1>8

(* A parameter that is set has its new value, no record changes its core   *)
(* or its id, and setting the old value again gives the old list back.     *)
LEMMA AfterSet ==
  ASSUME NEW s \in Seq(Records), DistinctRefs(s), NEW ref, HasRecord(s, ref),
         NEW v \in Values \cup {NoValue}, NEW t, t = SetParameter(s, ref, v)
  PROVE  /\ t \in Seq(Records) /\ Len(t) = Len(s)
         /\ \A i \in 1 .. Len(s) : t[i].core = s[i].core /\ t[i].inst = s[i].inst
         /\ DistinctRefs(t)
         /\ \A r : HasRecord(t, r) <=> HasRecord(s, r)
         /\ ParameterOf(t, ref) = v
         /\ SetParameter(t, ref, ParameterOf(s, ref)) = s
<1>1. PICK n \in Nat : n = Len(s) /\ DOMAIN s = 1 .. n
  BY LenProperties
<1>2. PICK k : k = IndexOfRecord(s, ref) /\ k \in 1 .. n /\ Ref(s[k]) = ref
  BY <1>1, Found
<1>3. s[k] \in Records
  BY <1>1, <1>2, ElementOfSeq
<1>4. PICK e : e = [s[k] EXCEPT !.value = v]
  OBVIOUS
<1>5. /\ e \in Records /\ e.value = v /\ e.core = s[k].core /\ e.inst = s[k].inst
      /\ [e EXCEPT !.value = s[k].value] = s[k]
  BY <1>3, <1>4 DEF Records
<1>6. t = [s EXCEPT ![k] = e]
  BY <1>2, <1>4 DEF SetParameter
<1>7. /\ t \in Seq(Records) /\ Len(t) = n
      /\ \A i \in 1 .. n : t[i] = IF i = k THEN e ELSE s[i]
  <2>1. /\ [s EXCEPT ![k] = e] \in Seq(Records) /\ Len([s EXCEPT ![k] = e]) = Len(s)
        /\ \A i \in 1 .. Len(s) : [s EXCEPT ![k] = e][i] = IF i = k THEN e ELSE s[i]
    BY <1>1, <1>2, <1>5, ExceptSeq
  <2> QED BY <1>1, <1>6, <2>1
<1>8. DOMAIN t = 1 .. n
  BY <1>7, LenProperties
<1>9. \A i \in 1 .. n : t[i].core = s[i].core /\ t[i].inst = s[i].inst /\ Ref(t[i]) = Ref(s[i])
  BY <1>5, <1>7 DEF Ref
<1>10. DistinctRefs(t)
  BY <1>1, <1>8, <1>9 DEF DistinctRefs
<1>11. ASSUME NEW r PROVE HasRecord(t, r) <=> HasRecord(s, r)
  <2>1. HasRecord(t, r) <=> \E i \in 1 .. n : Ref(t[i]) = r
    BY <1>7, <1>10, Found
  <2>2. HasRecord(s, r) <=> \E i \in 1 .. n : Ref(s[i]) = r
    BY <1>1, Found
  <2> QED BY <1>9, <2>1, <2>2
<1>12. IndexOfRecord(t, ref) = k
  BY <1>2, <1>7, <1>9, <1>10, Found
<1>13. ParameterOf(t, ref) = v
  BY <1>2, <1>5, <1>7, <1>12 DEF ParameterOf
<1>14. SetParameter(t, ref, ParameterOf(s, ref)) = s
  <2>1. ParameterOf(s, ref) = s[k].value
    BY <1>2 DEF ParameterOf
  <2>2. t[k] = e
    BY <1>2, <1>7
  <2>3. SetParameter(t, ref, ParameterOf(s, ref)) = [t EXCEPT ![k] = [t[k] EXCEPT !.value = s[k].value]]
    BY <1>12, <2>1 DEF SetParameter
  <2>4. PICK u : u = [t EXCEPT ![k] = s[k]] /\ u = SetParameter(t, ref, ParameterOf(s, ref))
    BY <1>5, <2>2, <2>3
  <2>5. /\ u \in Seq(Records) /\ Len(u) = Len(t)
        /\ \A i \in 1 .. Len(t) : u[i] = IF i = k THEN s[k] ELSE t[i]
    BY <1>2, <1>3, <1>7, <2>4, ExceptSeq
  <2>6. \A i \in 1 .. n : u[i] = s[i]
    BY <1>7, <2>5
  <2>7. Len(u) = Len(s)
    BY <1>1, <1>7, <2>5
  <2> QED BY <1>1, <2>4, <2>5, <2>6, <2>7, SeqEqual
<1> QED BY <1>1, <1>7, <1>9, <1>10, <1>11, <1>13, <1>14

-----------------------------------------------------------------------------
(* The record lists a project may have.                                    *)
Lists == {s \in Seq(Records) : DistinctRefs(s) /\ Len(s) <= MaxRecords}

LEMMA BoundedLists ==
  ASSUME NEW s
  PROVE  s \in SeqOf(Records, MaxRecords) <=> s \in Seq(Records) /\ Len(s) <= MaxRecords
<1>1. MaxRecords \in Nat
  BY InstanceCommandsAssumption
<1>2. ASSUME s \in SeqOf(Records, MaxRecords)
      PROVE  s \in Seq(Records) /\ Len(s) <= MaxRecords
  <2>1. PICK m \in 0 .. MaxRecords : s \in [1 .. m -> Records]
    BY <1>2 DEF SeqOf
  <2>2. m \in Nat /\ m <= MaxRecords
    BY <1>1
  <2> QED BY <2>1, <2>2
<1>3. ASSUME s \in Seq(Records), Len(s) <= MaxRecords
      PROVE  s \in SeqOf(Records, MaxRecords)
  <2>1. Len(s) \in Nat /\ s \in [1 .. Len(s) -> Records]
    BY <1>3, LenProperties
  <2>2. Len(s) \in 0 .. MaxRecords
    BY <1>1, <1>3, <2>1
  <2> QED BY <2>1, <2>2 DEF SeqOf
<1> QED BY <1>2, <1>3

(* The documents are the pairs of such a list and a selection.             *)
LEMMA DocumentParts ==
  /\ \A d \in Documents : d.records \in Lists /\ d.selected \in Refs \cup {NoInstance}
  /\ \A s \in Lists, ref \in Refs \cup {NoInstance} :
       [records |-> s, selected |-> ref] \in Documents
<1>1. {s \in SeqOf(Records, MaxRecords) : DistinctRefs(s)} = Lists
  BY BoundedLists DEF Lists
<1> QED BY <1>1 DEF Documents

LEMMA ListParts ==
  ASSUME NEW s \in Lists
  PROVE  s \in Seq(Records) /\ DistinctRefs(s) /\ Len(s) \in Nat /\ Len(s) <= MaxRecords
BY LenProperties DEF Lists

-----------------------------------------------------------------------------
(* What a command object keeps when its flags and its memory change.       *)
LEMMA KindsOfCommands ==
  ASSUME NEW c \in Commands
  PROVE  \/ c \in AddCommands /\ c.kind = "add"
         \/ c \in SetCommands /\ c.kind = "set"
<1>1. c \in AddCommands => c.kind = "add"
  <2>1. c \in AddCommands => c.kind \in {"add"}
    BY Zenon DEF AddCommands
  <2> QED BY <2>1
<1>2. c \in SetCommands => c.kind = "set"
  <2>1. c \in SetCommands => c.kind \in {"set"}
    BY Zenon DEF SetCommands
  <2> QED BY <2>1
<1> QED BY <1>1, <1>2 DEF Commands

SameMemory(r, c) ==
  /\ r.kind = c.kind /\ r.tore = c.tore
  /\ c.kind = "add" => /\ r.core = c.core /\ r.created = c.created
                       /\ r.position = c.position /\ r.previous = c.previous
  /\ c.kind = "set" => r.ref = c.ref /\ r.new = c.new /\ r.old = c.old

LEMMA ExecutedSet ==
  ASSUME NEW c \in Commands, NEW x \in BOOLEAN, NEW r, r = [c EXCEPT !.executed = x]
  PROVE  r \in Commands /\ SameMemory(r, c) /\ r.executed = x /\ r.undone = c.undone
<1>1. CASE c \in AddCommands /\ c.kind = "add"
  <2>1. r \in AddCommands
    BY <1>1 DEF AddCommands
  <2>2. SameMemory(r, c) /\ r.executed = x /\ r.undone = c.undone
    BY <1>1 DEF AddCommands, SameMemory
  <2> QED BY <2>1, <2>2 DEF Commands
<1>2. CASE c \in SetCommands /\ c.kind = "set"
  <2>1. r \in SetCommands
    BY <1>2 DEF SetCommands
  <2> QED BY <1>2, <2>1 DEF SetCommands, Commands, SameMemory
<1> QED BY <1>1, <1>2, KindsOfCommands

LEMMA UndoneSet ==
  ASSUME NEW c \in Commands, NEW u \in BOOLEAN, NEW r, r = [c EXCEPT !.undone = u]
  PROVE  r \in Commands /\ SameMemory(r, c) /\ r.executed = c.executed /\ r.undone = u
<1>1. CASE c \in AddCommands /\ c.kind = "add"
  <2>1. r \in AddCommands
    BY <1>1 DEF AddCommands
  <2>2. SameMemory(r, c) /\ r.executed = c.executed /\ r.undone = u
    BY <1>1 DEF AddCommands, SameMemory
  <2> QED BY <2>1, <2>2 DEF Commands
<1>2. CASE c \in SetCommands /\ c.kind = "set"
  <2>1. r \in SetCommands
    BY <1>2 DEF SetCommands
  <2> QED BY <1>2, <2>1 DEF SetCommands, Commands, SameMemory
<1> QED BY <1>1, <1>2, KindsOfCommands

(* execute() sets both flags and touches no memory by that.                *)
LEMMA Reported ==
  ASSUME NEW c \in Commands, NEW x \in BOOLEAN, NEW u \in BOOLEAN,
         NEW r, r = Report(c, x, u)
  PROVE  r \in Commands /\ SameMemory(r, c) /\ r.executed = x /\ r.undone = u
<1>1. PICK e : e = [c EXCEPT !.executed = x]
  OBVIOUS
<1>2. e \in Commands /\ SameMemory(e, c) /\ e.executed = x
  BY <1>1, ExecutedSet
<1>3. r = [e EXCEPT !.undone = u]
  BY <1>1 DEF Report
<1>4. r \in Commands /\ SameMemory(r, e) /\ r.executed = x /\ r.undone = u
  BY <1>2, <1>3, UndoneSet
<1>5. SameMemory(r, c)
  BY <1>2, <1>4, Zenon DEF SameMemory
<1> QED BY <1>4, <1>5

(* The way a command knows depends on its memory alone.                    *)
LEMMA SameWay ==
  ASSUME NEW c \in Commands, NEW r, SameMemory(r, c), NEW x
  PROVE  LeadsFrom(r, x) = LeadsFrom(c, x)
<1>1. CASE c.kind = "add"
  <2>1. r.kind = "add" /\ r.created = c.created /\ r.position = c.position
    BY <1>1 DEF SameMemory
  <2> QED BY <1>1, <2>1 DEF LeadsFrom
<1>2. CASE c.kind = "set"
  <2>1. r.kind = "set" /\ r.ref = c.ref /\ r.new = c.new /\ r.old = c.old
    BY <1>2 DEF SameMemory
  <2> QED BY <1>2, <2>1 DEF LeadsFrom
<1> QED BY <1>1, <1>2, KindsOfCommands

(* An addition leads from a list without its record to the list with it,   *)
(* and a parameter change from the old value to the new one.               *)
LEMMA AddLeads ==
  ASSUME NEW c \in Commands, c.kind = "add", NEW x \in Lists, NEW y
  PROVE  y \in LeadsFrom(c, x) <=>
           /\ c.created # NoRecord /\ CanInsert(x, c.created) /\ Room(x)
           /\ c.position \in 1 .. Len(x) + 1
           /\ y = InsertAt(x, c.position, c.created)
<1>1. Len(x) \in Nat
  BY ListParts
<1>2. \A p \in 1 .. Len(x) + 1 : InsertRecord(x, p, c.created) = InsertAt(x, p, c.created)
  BY <1>1 DEF InsertRecord
<1> QED BY <1>2 DEF LeadsFrom

LEMMA SetLeads ==
  ASSUME NEW c \in Commands, c.kind = "set", NEW x \in Lists, NEW y
  PROVE  y \in LeadsFrom(c, x) <=>
           /\ HasRecord(x, c.ref) /\ c.old = ParameterOf(x, c.ref) /\ c.old # c.new
           /\ y = SetParameter(x, c.ref, c.new)
BY DEF LeadsFrom

(* What a command creates is a record.                                     *)
LEMMA CreatedIsRecord ==
  ASSUME NEW c \in AddCommands
  PROVE  /\ c.created # NoRecord => c.created \in Records
         /\ c.core \in Cores /\ c.previous \in Refs \cup {NoInstance}
         /\ c.position \in 0 .. MaxRecords
<1>1. \A k \in Cores, inst \in Tokens \X (0 .. MaxSuffix) : DefaultRecord(k, inst) \in Records
  BY ProjectInstancesAssumption DEF DefaultRecord, Records
<1>2. DefaultRecords \subseteq Records
  BY <1>1 DEF DefaultRecords
<1>3. /\ c.created \in DefaultRecords \cup {NoRecord}
      /\ c.core \in Cores /\ c.previous \in Refs \cup {NoInstance}
      /\ c.position \in 0 .. MaxRecords
  BY DEF AddCommands
<1> QED BY <1>2, <1>3

-----------------------------------------------------------------------------
(* The id of a new instance is of its core's token and is no instance's.   *)
LEMMA NextIdFresh ==
  ASSUME NEW s \in Seq(Records), NEW c \in Cores,
         NEW id, id = NextInstanceId(s, c)
  PROVE  /\ id = <<TokenOf[c], id[2]>> /\ id[2] \in Nat
         /\ \A i \in 1 .. Len(s) : s[i].inst # id
<1>1. PICK n \in Nat : n = Len(s) /\ DOMAIN s = 1 .. n
  BY LenProperties
<1>2. \A i \in 1 .. n : s[i] \in Records
  BY <1>1, ElementOfSeq
<1>3. PICK used : used = SuffixesInUse(s, TokenOf[c])
  OBVIOUS
<1>4. \A i \in 1 .. n : s[i].inst[1] = TokenOf[c] => s[i].inst[2] \in used
  BY <1>1, <1>3 DEF SuffixesInUse
<1>5. used \subseteq 0 .. MaxSuffix
  <2>1. \A i \in 1 .. n : s[i].inst[2] \in 0 .. MaxSuffix
    BY <1>2 DEF Records
  <2> QED BY <1>1, <1>3, <2>1 DEF SuffixesInUse
<1>6. MaxSuffix \in Nat
  BY InstanceCommandsAssumption
<1> DEFINE largest == CHOOSE m \in used : \A j \in used : j <= m
           k == IF used = {} THEN 0 ELSE 1 + largest
<1>7. id = <<TokenOf[c], k>>
  BY <1>3 DEF NextInstanceId
<1>8. used # {} => largest \in used /\ \A j \in used : j <= largest
  BY <1>5, <1>6, LargestExists
<1> HIDE DEF largest
<1>9. k \in Nat /\ k \notin used
  <2>1. CASE used = {}
    BY <2>1
  <2>2. CASE used # {}
    <3>0. largest \in used
      BY <1>8, <2>2
    <3>1. largest \in Nat
      BY <1>5, <1>6, <3>0
    <3>2. k = 1 + largest
      BY <2>2
    <3> QED BY <1>8, <2>2, <3>1, <3>2
  <2> QED BY <2>1, <2>2
<1> HIDE DEF k
<1>10. ASSUME NEW i \in 1 .. n, s[i].inst = id PROVE FALSE
  BY <1>4, <1>7, <1>9, <1>10
<1> QED BY <1>1, <1>7, <1>9, <1>10

-----------------------------------------------------------------------------
(* The memory an addition fills in at its first call.                      *)
Remember(c, record, at, ref) ==
  [c EXCEPT !.created = record, !.position = at, !.previous = ref]

LEMMA Remembered ==
  ASSUME NEW c \in Commands, c.kind = "add", NEW record \in DefaultRecords,
         NEW at \in 0 .. MaxRecords, NEW ref \in Refs \cup {NoInstance},
         NEW r, r = Remember(c, record, at, ref)
  PROVE  /\ r \in Commands /\ r.kind = "add" /\ r.executed = c.executed /\ r.undone = c.undone
         /\ r.created = record /\ r.position = at /\ r.previous = ref /\ r.tore = c.tore
<1>1. c \in AddCommands
  <2>1. "add" # "set"
    OBVIOUS
  <2> QED BY <2>1, KindsOfCommands
<1>2. PICK g : g = [c EXCEPT !.created = record]
  OBVIOUS
<1>3. /\ g \in AddCommands /\ g.created = record
      /\ g.executed = c.executed /\ g.undone = c.undone /\ g.tore = c.tore
  BY <1>1, <1>2 DEF AddCommands
<1>4. PICK h : h = [g EXCEPT !.position = at]
  OBVIOUS
<1>5. /\ h \in AddCommands /\ h.created = record /\ h.position = at
      /\ h.executed = c.executed /\ h.undone = c.undone /\ h.tore = c.tore
  BY <1>3, <1>4 DEF AddCommands
<1>6. r = [h EXCEPT !.previous = ref]
  BY <1>2, <1>4 DEF Remember
<1>7. /\ r \in AddCommands /\ r.created = record /\ r.position = at /\ r.previous = ref
      /\ r.executed = c.executed /\ r.undone = c.undone /\ r.tore = c.tore
  BY <1>5, <1>6 DEF AddCommands
<1>8. r \in Commands /\ r.kind = "add"
  <2>1. r.kind \in {"add"}
    BY <1>7 DEF AddCommands
  <2> QED BY <1>7, <2>1 DEF Commands
<1> QED BY <1>7, <1>8

(* What a first call that creates an instance did: the record is a new     *)
(* one at the end of the list, and selected.                               *)
Created(c, d, r, e) ==
  LET id == NextInstanceId(d.records, c.core)
      record == DefaultRecord(c.core, id)
  IN  /\ WithinLimits(d.records, c.core)
      /\ record \in Records /\ CanInsert(d.records, record) /\ Room(d.records)
      /\ r.created = record /\ r.position = Len(d.records) + 1
      /\ e.records = InsertAt(d.records, Len(d.records) + 1, record)
      /\ e.selected = Ref(record)

LEMMA AddFirstOutcome ==
  ASSUME NEW c \in Commands, c.kind = "add", c.created = NoRecord, NEW d \in Documents,
         NEW r, NEW e, <<r, e>> = AddFirst(c, d)
  PROVE  /\ r \in Commands /\ e \in Documents /\ r.kind = "add"
         /\ \/ r.executed = TRUE /\ Created(c, d, r, e)
            \/ r.executed = FALSE /\ e = d
<1> DEFINE x == d.records
           id == NextInstanceId(x, c.core)
           record == DefaultRecord(c.core, id)
           created == CreateInstance(d, c.core)
           at == IndexOfRecord(created.records, created.selected)
<1>0. PICK yes \in BOOLEAN, no \in BOOLEAN : yes = TRUE /\ no = FALSE
  OBVIOUS
<1>1. x \in Lists /\ x \in Seq(Records) /\ DistinctRefs(x) /\ Len(x) \in Nat
  BY DocumentParts, ListParts
<1>2. c \in AddCommands /\ c.core \in Cores
  <2>1. "add" # "set"
    OBVIOUS
  <2>2. c \in AddCommands
    BY <2>1, KindsOfCommands
  <2> QED BY <2>2, CreatedIsRecord
<1>3. d.selected \in Refs \cup {NoInstance}
  BY DocumentParts
<1>4. CASE CanCreate(d, c.core) /\ Room(x) /\ NameInBound(x, c.core)
  <2>1. id = <<TokenOf[c.core], id[2]>> /\ id[2] \in 0 .. MaxSuffix
    <3>1. id = <<TokenOf[c.core], id[2]>> /\ id[2] \in Nat
      BY <1>1, <1>2, NextIdFresh
    <3> QED BY <1>4, <3>1, InstanceCommandsAssumption DEF NameInBound
  <2>2. id \in Tokens \X (0 .. MaxSuffix)
    <3>1. TokenOf[c.core] \in Tokens
      BY <1>2 DEF Tokens
    <3> HIDE DEF id
    <3> QED BY <2>1, <3>1
  <2>3. record \in DefaultRecords /\ record \in Records /\ Ref(record) \in Refs
    <3> HIDE DEF id
    <3>1. record \in DefaultRecords
      BY <1>2, <2>2 DEF DefaultRecords
    <3>2. record \in Records
      BY <1>2, <2>2, ProjectInstancesAssumption DEF DefaultRecord, Records
    <3>3. Ref(record) \in Refs
      BY <1>2, <2>2 DEF DefaultRecord, Ref, Refs, InstanceRefs
    <3> QED BY <3>1, <3>2, <3>3
  <2>4. WithinLimits(x, c.core) /\ CanInsert(x, record)
    BY <1>4 DEF CanCreate
  <2> HIDE DEF id, record
  <2>5. created.records = InsertAt(x, Len(x) + 1, record) /\ created.selected = Ref(record)
    <3>1. InsertRecord(x, Len(x) + 1, record) = InsertAt(x, Len(x) + 1, record)
      BY <1>1 DEF InsertRecord
    <3> QED BY <3>1 DEF CreateInstance, record, id
  <2>6. created = [records |-> created.records, selected |-> created.selected]
    BY DEF CreateInstance
  <2> HIDE DEF created
  <2>7. /\ at = Len(x) + 1 /\ created.records[at] = record
        /\ created.records \in Seq(Records) /\ Len(created.records) = Len(x) + 1
        /\ DistinctRefs(created.records)
    <3>1. ~HasRecord(x, Ref(record)) /\ Len(x) + 1 \in 1 .. Len(x) + 1
      BY <1>1, <2>4 DEF CanInsert
    <3> QED BY <1>1, <2>3, <2>5, <3>1, AfterInsert
  <2>8. at \in 0 .. MaxRecords
    BY <1>1, <1>4, <2>7, InstanceCommandsAssumption DEF Room
  <2>9. created \in Documents
    <3>1. created.records \in Lists
      BY <1>1, <1>4, <2>7, InstanceCommandsAssumption DEF Lists, Room
    <3> QED BY <2>3, <2>5, <2>6, <3>1, DocumentParts
  <2>10. PICK g : g = Report(c, yes, no)
    OBVIOUS
  <2>11. g \in Commands /\ g.kind = "add" /\ g.executed = yes
    BY <2>10, Reported DEF SameMemory
  <2>12. <<r, e>> = <<Remember(g, created.records[at], at, d.selected), created>>
    BY <1>0, <1>4, <2>10 DEF AddFirst, created, Remember
  <2> HIDE DEF at
  <2>13. r = Remember(g, record, at, d.selected) /\ e = created
    BY <2>7, <2>12
  <2>14. /\ r \in Commands /\ r.kind = "add" /\ r.executed = yes
         /\ r.created = record /\ r.position = at
    BY <1>3, <2>3, <2>8, <2>11, <2>13, Remembered
  <2>15. Created(c, d, r, e)
    BY <1>4, <2>3, <2>4, <2>5, <2>7, <2>13, <2>14 DEF Created, record, id
  <2> QED BY <1>0, <2>9, <2>13, <2>14, <2>15
<1>5. CASE ~(CanCreate(d, c.core) /\ Room(x) /\ NameInBound(x, c.core))
  <2>1. PICK g : g = Report(c, no, no)
    OBVIOUS
  <2>2. g \in Commands /\ g.kind = "add" /\ g.executed = no
    BY <2>1, Reported DEF SameMemory
  <2>3. <<r, e>> = <<[g EXCEPT !.previous = d.selected], d>>
    BY <1>0, <1>5, <2>1 DEF AddFirst
  <2>4. g \in AddCommands
    <3>1. "add" # "set"
      OBVIOUS
    <3> QED BY <2>2, <3>1, KindsOfCommands
  <2>5. r = [g EXCEPT !.previous = d.selected] /\ e = d
    BY <2>3
  <2>6. r \in AddCommands /\ r.executed = no
    BY <1>3, <2>2, <2>4, <2>5 DEF AddCommands
  <2>7. r \in Commands /\ r.kind = "add"
    <3>1. r.kind \in {"add"}
      BY <2>6 DEF AddCommands
    <3> QED BY <2>6, <3>1 DEF Commands
  <2> QED BY <1>0, <2>5, <2>6, <2>7
<1> QED BY <1>4, <1>5

(* A position that is too small or too large is clamped.                   *)
LEMMA ClampedInsert ==
  ASSUME NEW s \in Seq(Records), NEW p \in Int, NEW r
  PROVE  /\ \E at \in 1 .. Len(s) + 1 : InsertRecord(s, p, r) = InsertAt(s, at, r)
         /\ p \in 1 .. Len(s) + 1 => InsertRecord(s, p, r) = InsertAt(s, p, r)
<1>1. Len(s) \in Nat
  BY LenProperties
<1> DEFINE at == IF p < 1 THEN 1 ELSE IF p > Len(s) + 1 THEN Len(s) + 1 ELSE p
<1>2. InsertRecord(s, p, r) = InsertAt(s, at, r)
  BY DEF InsertRecord
<1>3. at \in 1 .. Len(s) + 1 /\ (p \in 1 .. Len(s) + 1 => at = p)
  BY <1>1
<1> HIDE DEF at
<1> QED BY <1>2, <1>3

LEMMA AddAgainOutcome ==
  ASSUME NEW c \in Commands, c.kind = "add", c.created # NoRecord, NEW d \in Documents,
         NEW r, NEW e, <<r, e>> = AddAgain(c, d)
  PROVE  /\ r \in Commands /\ e \in Documents /\ SameMemory(r, c)
         /\ \/ /\ r.executed = TRUE
               /\ CanInsert(d.records, c.created) /\ Room(d.records)
               /\ e.records = InsertRecord(d.records, c.position, c.created)
               /\ SelectionIn(e)
            \/ /\ r.executed = FALSE /\ e = d
               /\ ~(CanInsert(d.records, c.created) /\ Room(d.records))
<1> DEFINE x == d.records
           y == InsertRecord(x, c.position, c.created)
<1>0. PICK yes \in BOOLEAN, no \in BOOLEAN : yes = TRUE /\ no = FALSE
  OBVIOUS
<1>1. x \in Lists /\ x \in Seq(Records) /\ DistinctRefs(x) /\ Len(x) \in Nat
  BY DocumentParts, ListParts
<1>2. c.created \in Records /\ c.position \in Int
  <2>1. "add" # "set"
    OBVIOUS
  <2>2. c \in AddCommands
    BY <2>1, KindsOfCommands
  <2>3. MaxRecords \in Nat
    BY InstanceCommandsAssumption
  <2>4. c.created \in Records /\ c.position \in 0 .. MaxRecords
    BY <2>2, CreatedIsRecord
  <2> QED BY <2>3, <2>4
<1>3. CASE CanInsert(x, c.created) /\ Room(x)
  <2>1. PICK at \in 1 .. Len(x) + 1 : y = InsertAt(x, at, c.created)
    BY <1>1, <1>2, ClampedInsert
  <2>2. y \in Seq(Records) /\ Len(y) = Len(x) + 1 /\ DistinctRefs(y)
    BY <1>1, <1>2, <1>3, <2>1, AfterInsert DEF CanInsert
  <2>3. y \in Lists
    BY <1>1, <1>3, <2>2, InstanceCommandsAssumption DEF Lists, Room
  <2>4. <<r, e>> = <<Report(c, yes, no), [records |-> y, selected |-> ReselectExactOrClear(y, Ref(c.created))]>>
    BY <1>0, <1>3 DEF AddAgain
  <2> HIDE DEF y
  <2>5. r = Report(c, yes, no) /\ e = [records |-> y, selected |-> ReselectExactOrClear(y, Ref(c.created))]
    BY <2>4
  <2>6. r \in Commands /\ SameMemory(r, c) /\ r.executed = yes
    BY <2>5, Reported
  <2>7. Ref(c.created) \in Refs
    BY <1>2 DEF Records, Ref, Refs, InstanceRefs
  <2>8. ReselectExactOrClear(y, Ref(c.created)) \in Refs \cup {NoInstance}
    BY <2>7 DEF ReselectExactOrClear
  <2>9. e \in Documents
    BY <2>3, <2>5, <2>8, DocumentParts
  <2>10. e.records = y /\ SelectionIn(e)
    BY <2>5 DEF SelectionIn, ReselectExactOrClear
  <2> QED BY <1>0, <1>3, <2>6, <2>9, <2>10 DEF y
<1>4. CASE ~(CanInsert(x, c.created) /\ Room(x))
  <2>1. <<r, e>> = <<Report(c, no, no), d>>
    BY <1>0, <1>4 DEF AddAgain
  <2>2. r = Report(c, no, no) /\ e = d
    BY <2>1
  <2>3. r \in Commands /\ SameMemory(r, c) /\ r.executed = no
    BY <2>2, Reported
  <2> QED BY <1>0, <1>4, <2>2, <2>3
<1> QED BY <1>3, <1>4

LEMMA AddUndoOutcome ==
  ASSUME NEW c \in Commands, c.kind = "add", NEW d \in Documents,
         NEW r, NEW e, <<r, e>> = AddUndo(c, d)
  PROVE  /\ r \in Commands /\ e \in Documents /\ SameMemory(r, c) /\ r.executed = c.executed
         /\ \/ /\ r.undone = TRUE
               /\ c.created # NoRecord /\ HasRecord(d.records, Ref(c.created))
               /\ e.records = TakeRecord(d.records, Ref(c.created))
               /\ SelectionIn(e)
            \/ /\ r.undone = FALSE /\ e = d
               /\ ~(c.created # NoRecord /\ HasRecord(d.records, Ref(c.created)))
<1> DEFINE x == d.records
           y == TakeRecord(x, Ref(c.created))
<1>0. PICK yes \in BOOLEAN, no \in BOOLEAN : yes = TRUE /\ no = FALSE
  OBVIOUS
<1>1. x \in Lists /\ x \in Seq(Records) /\ DistinctRefs(x) /\ Len(x) \in Nat /\ Len(x) <= MaxRecords
  BY DocumentParts, ListParts
<1>2. c.previous \in Refs \cup {NoInstance}
  <2>1. "add" # "set"
    OBVIOUS
  <2>2. c \in AddCommands
    BY <2>1, KindsOfCommands
  <2> QED BY <2>2, CreatedIsRecord
<1>3. CASE c.created # NoRecord /\ HasRecord(x, Ref(c.created))
  <2>1. PICK at \in 1 .. Len(x) : IndexOfRecord(x, Ref(c.created)) = at
    BY <1>1, <1>3, Found
  <2>2. y = RemoveAt(x, at)
    BY <2>1 DEF TakeRecord
  <2>3. y \in Seq(Records) /\ Len(y) = Len(x) - 1 /\ DistinctRefs(y)
    BY <1>1, <2>2, AfterRemove
  <2>4. y \in Lists
    BY <1>1, <2>3, InstanceCommandsAssumption DEF Lists
  <2>5. <<r, e>> = <<[c EXCEPT !.undone = yes], [records |-> y, selected |-> ReselectExactOrClear(y, c.previous)]>>
    BY <1>0, <1>3 DEF AddUndo
  <2> HIDE DEF y
  <2>6. r = [c EXCEPT !.undone = yes] /\ e = [records |-> y, selected |-> ReselectExactOrClear(y, c.previous)]
    BY <2>5
  <2>7. r \in Commands /\ SameMemory(r, c) /\ r.executed = c.executed /\ r.undone = yes
    BY <2>6, UndoneSet
  <2>8. ReselectExactOrClear(y, c.previous) \in Refs \cup {NoInstance}
    BY <1>2 DEF ReselectExactOrClear
  <2>9. e \in Documents
    BY <2>4, <2>6, <2>8, DocumentParts
  <2>10. e.records = y /\ SelectionIn(e)
    BY <2>6 DEF SelectionIn, ReselectExactOrClear
  <2> QED BY <1>0, <1>3, <2>7, <2>9, <2>10 DEF y
<1>4. CASE ~(c.created # NoRecord /\ HasRecord(x, Ref(c.created)))
  <2>1. <<r, e>> = <<[c EXCEPT !.undone = no], d>>
    BY <1>0, <1>4 DEF AddUndo
  <2>2. r = [c EXCEPT !.undone = no] /\ e = d
    BY <2>1
  <2>3. r \in Commands /\ SameMemory(r, c) /\ r.executed = c.executed /\ r.undone = no
    BY <2>2, UndoneSet
  <2> QED BY <1>0, <1>4, <2>2, <2>3
<1> QED BY <1>3, <1>4

(* The value that is read is one that can be written.                      *)
LEMMA ParameterIsValue ==
  ASSUME NEW s \in Seq(Records), NEW ref, HasRecord(s, ref)
  PROVE  ParameterOf(s, ref) \in Values \cup {NoValue}
<1>1. PICK k \in 1 .. Len(s) : IndexOfRecord(s, ref) = k
  BY FoundSomewhere
<1>2. s[k] \in Records
  BY ElementOfSeq
<1> QED BY <1>1, <1>2 DEF ParameterOf, Records

LEMMA SetFields ==
  ASSUME NEW c \in Commands, c.kind = "set"
  PROVE  /\ c.ref \in Refs /\ c.new \in Values \cup {NoValue} /\ c.old \in Values \cup {NoValue}
         /\ c \in SetCommands
<1>1. "add" # "set"
  OBVIOUS
<1>2. c \in SetCommands
  BY <1>1, KindsOfCommands
<1> QED BY <1>2 DEF SetCommands

(* A document whose list is replaced by another of the same records.       *)
LEMMA ListReplaced ==
  ASSUME NEW d \in Documents, NEW y \in Lists, NEW e, e = [d EXCEPT !.records = y]
  PROVE  e \in Documents /\ e.records = y /\ e.selected = d.selected
<1>1. d.selected \in Refs \cup {NoInstance}
  BY DocumentParts
<1>2. d = [records |-> d.records, selected |-> d.selected]
  BY DEF Documents
<1>3. e = [records |-> y, selected |-> d.selected]
  BY <1>2
<1> QED BY <1>1, <1>3, DocumentParts

(* What a parameter change did: it noted the value it found, and wrote its *)
(* own if that was another one.                                            *)
Noted(c, d, r) ==
  /\ r.kind = "set" /\ r.ref = c.ref /\ r.new = c.new
  /\ HasRecord(d.records, c.ref) => r.old = ParameterOf(d.records, c.ref)

Written(c, d, r, e) ==
  /\ HasRecord(d.records, c.ref) /\ r.old # c.new
  /\ e.records = SetParameter(d.records, c.ref, c.new)
  /\ e.selected = d.selected

NotWritten(c, d, r, e) ==
  e = d /\ ~(HasRecord(d.records, c.ref) /\ r.old # c.new)

LEMMA SetExecuteOutcome ==
  ASSUME NEW c \in Commands, c.kind = "set", NEW d \in Documents,
         NEW r, NEW e, <<r, e>> = SetExecute(c, d)
  PROVE  /\ r \in Commands /\ e \in Documents /\ Noted(c, d, r)
         /\ \/ r.executed = TRUE /\ Written(c, d, r, e)
            \/ r.executed = FALSE /\ NotWritten(c, d, r, e)
<1> DEFINE x == d.records
           old == IF HasRecord(x, c.ref) THEN ParameterOf(x, c.ref) ELSE NoValue
           y == SetParameter(x, c.ref, c.new)
<1>0. PICK yes \in BOOLEAN, no \in BOOLEAN : yes = TRUE /\ no = FALSE
  OBVIOUS
<1>1. x \in Lists /\ x \in Seq(Records) /\ DistinctRefs(x) /\ Len(x) <= MaxRecords
  BY DocumentParts, ListParts
<1>2. /\ c.ref \in Refs /\ c.new \in Values \cup {NoValue} /\ c \in SetCommands
      /\ old \in Values \cup {NoValue}
  BY <1>1, SetFields, ParameterIsValue
<1>3. PICK g : g = [c EXCEPT !.old = old]
  OBVIOUS
<1>4. HasRecord(x, c.ref) => old = ParameterOf(x, c.ref)
  OBVIOUS
<1>5. SetExecute(c, d) =
        IF HasRecord(x, c.ref) /\ old # c.new
        THEN <<Report(g, yes, no), [d EXCEPT !.records = y]>>
        ELSE <<Report(g, no, no), d>>
  BY <1>0, <1>3 DEF SetExecute
<1> HIDE DEF old
<1>6. /\ g \in SetCommands /\ g.kind = c.kind /\ g.ref = c.ref /\ g.new = c.new /\ g.old = old
  BY <1>2, <1>3 DEF SetCommands
<1>7. g \in Commands
  BY <1>6 DEF Commands
<1>8. CASE HasRecord(x, c.ref) /\ old # c.new
  <2>1. y \in Seq(Records) /\ Len(y) = Len(x) /\ DistinctRefs(y)
    BY <1>1, <1>2, <1>8, AfterSet
  <2>2. y \in Lists
    BY <1>1, <2>1 DEF Lists
  <2> HIDE DEF y
  <2>3. r = Report(g, yes, no) /\ e = [d EXCEPT !.records = y]
    BY <1>5, <1>8
  <2>4. r \in Commands /\ SameMemory(r, g) /\ r.executed = yes
    BY <1>7, <2>3, Reported
  <2>5. e \in Documents /\ e.records = y /\ e.selected = d.selected
    BY <2>2, <2>3, ListReplaced
  <2>6. r.kind = "set" /\ r.ref = c.ref /\ r.new = c.new /\ r.old = old
    BY <1>6, <2>4 DEF SameMemory
  <2> QED BY <1>0, <1>4, <1>8, <2>4, <2>5, <2>6 DEF y, Noted, Written
<1>9. CASE ~(HasRecord(x, c.ref) /\ old # c.new)
  <2>1. r = Report(g, no, no) /\ e = d
    BY <1>5, <1>9
  <2>2. r \in Commands /\ SameMemory(r, g) /\ r.executed = no
    BY <1>7, <2>1, Reported
  <2>3. r.kind = "set" /\ r.ref = c.ref /\ r.new = c.new /\ r.old = old
    BY <1>6, <2>2 DEF SameMemory
  <2> QED BY <1>0, <1>4, <1>9, <2>1, <2>2, <2>3 DEF Noted, NotWritten
<1> QED BY <1>8, <1>9

WrittenBack(c, d, e) ==
  /\ HasRecord(d.records, c.ref)
  /\ e.records = SetParameter(d.records, c.ref, c.old)
  /\ e.selected = d.selected

LEMMA SetUndoOutcome ==
  ASSUME NEW c \in Commands, c.kind = "set", NEW d \in Documents,
         NEW r, NEW e, <<r, e>> = SetUndo(c, d)
  PROVE  /\ r \in Commands /\ e \in Documents /\ SameMemory(r, c) /\ r.executed = c.executed
         /\ \/ r.undone = TRUE /\ WrittenBack(c, d, e)
            \/ r.undone = FALSE /\ e = d /\ ~HasRecord(d.records, c.ref)
<1> DEFINE x == d.records
           y == SetParameter(x, c.ref, c.old)
<1>0. PICK yes \in BOOLEAN, no \in BOOLEAN : yes = TRUE /\ no = FALSE
  OBVIOUS
<1>1. x \in Lists /\ x \in Seq(Records) /\ DistinctRefs(x) /\ Len(x) <= MaxRecords
  BY DocumentParts, ListParts
<1>2. CASE HasRecord(x, c.ref)
  <2>1. y \in Seq(Records) /\ Len(y) = Len(x) /\ DistinctRefs(y)
    BY <1>1, <1>2, SetFields, AfterSet
  <2>2. y \in Lists
    BY <1>1, <2>1 DEF Lists
  <2>3. <<r, e>> = <<[c EXCEPT !.undone = yes], [d EXCEPT !.records = y]>>
    BY <1>0, <1>2 DEF SetUndo
  <2> HIDE DEF y
  <2>4. r = [c EXCEPT !.undone = yes] /\ e = [d EXCEPT !.records = y]
    BY <2>3
  <2>5. r \in Commands /\ SameMemory(r, c) /\ r.executed = c.executed /\ r.undone = yes
    BY <2>4, UndoneSet
  <2>6. e \in Documents /\ e.records = y /\ e.selected = d.selected
    BY <2>2, <2>4, ListReplaced
  <2> QED BY <1>0, <1>2, <2>5, <2>6 DEF y, WrittenBack
<1>3. CASE ~HasRecord(x, c.ref)
  <2>1. <<r, e>> = <<[c EXCEPT !.undone = no], d>>
    BY <1>0, <1>3 DEF SetUndo
  <2>2. r = [c EXCEPT !.undone = no] /\ e = d
    BY <2>1
  <2>3. r \in Commands /\ SameMemory(r, c) /\ r.executed = c.executed /\ r.undone = no
    BY <2>2, UndoneSet
  <2> QED BY <1>0, <1>3, <2>2, <2>3
<1> QED BY <1>2, <1>3

-----------------------------------------------------------------------------
(* Both calls give pairs.                                                  *)
LEMMA OutcomesArePairs ==
  ASSUME NEW c, NEW d
  PROVE  /\ AddFirst(c, d) = <<AddFirst(c, d)[1], AddFirst(c, d)[2]>>
         /\ AddAgain(c, d) = <<AddAgain(c, d)[1], AddAgain(c, d)[2]>>
         /\ SetExecute(c, d) = <<SetExecute(c, d)[1], SetExecute(c, d)[2]>>
         /\ AddUndo(c, d) = <<AddUndo(c, d)[1], AddUndo(c, d)[2]>>
         /\ SetUndo(c, d) = <<SetUndo(c, d)[1], SetUndo(c, d)[2]>>
<1>0. \A a, b : <<a, b>> = << <<a, b>>[1], <<a, b>>[2] >>
  OBVIOUS
<1>1. \E a, b : AddFirst(c, d) = <<a, b>>
  BY Zenon DEF AddFirst
<1>2. \E a, b : AddAgain(c, d) = <<a, b>>
  BY Zenon DEF AddAgain
<1>3. \E a, b : SetExecute(c, d) = <<a, b>>
  BY Zenon DEF SetExecute
<1>4. \E a, b : AddUndo(c, d) = <<a, b>>
  BY Zenon DEF AddUndo
<1>5. \E a, b : SetUndo(c, d) = <<a, b>>
  BY Zenon DEF SetUndo
<1> QED BY <1>0, <1>1, <1>2, <1>3, <1>4, <1>5

(* A command handed to executeCommand remembers no record yet.             *)
LEMMA NewCommandsAreBlank ==
  ASSUME NEW c \in NewCommands
  PROVE  (c.kind = "add" /\ c.created = NoRecord) \/ c.kind = "set"
BY DEF NewCommands, AddCommand, SetCommand

(* THEOREM: the calls give commands and documents again, as                *)
(* CommandManagerAssumption asks: every record list a command can build is *)
(* without duplicates and within MaxRecords.                               *)
THEOREM InstanceCommandsTyped ==
  /\ \A c \in Commands, d \in Documents :
       /\ ExecuteInstanceCommand(c, d) \subseteq Commands \X Documents
       /\ UndoInstanceCommand(c, d) \subseteq Commands \X Documents
  /\ \A d \in Documents : SelectInstance(d) \subseteq Documents
<1>0. "add" # "set"
  OBVIOUS
<1>1. ASSUME NEW c \in Commands, NEW d \in Documents, NEW q \in ExecuteInstanceCommand(c, d)
      PROVE  q \in Commands \X Documents
  <2>1. PICK r, e : r = q[1] /\ e = q[2]
    OBVIOUS
  <2>2. CASE c.kind = "add" /\ c.created = NoRecord
    <3>1. q = <<r, e>> /\ <<r, e>> = AddFirst(c, d)
      BY <1>1, <2>1, <2>2, OutcomesArePairs DEF ExecuteInstanceCommand, AddExecute
    <3>2. r \in Commands /\ e \in Documents
      BY <2>2, <3>1, AddFirstOutcome
    <3> QED BY <3>1, <3>2
  <2>3. CASE c.kind = "add" /\ c.created # NoRecord
    <3>1. q = <<r, e>> /\ <<r, e>> = AddAgain(c, d)
      BY <1>1, <2>1, <2>3, OutcomesArePairs DEF ExecuteInstanceCommand, AddExecute
    <3>2. r \in Commands /\ e \in Documents
      BY <2>3, <3>1, AddAgainOutcome
    <3> QED BY <3>1, <3>2
  <2>4. CASE c.kind = "set"
    <3>1. q = <<r, e>> /\ <<r, e>> = SetExecute(c, d)
      BY <1>0, <1>1, <2>1, <2>4, OutcomesArePairs DEF ExecuteInstanceCommand
    <3>2. r \in Commands /\ e \in Documents
      BY <2>4, <3>1, SetExecuteOutcome
    <3> QED BY <3>1, <3>2
  <2> QED BY <2>2, <2>3, <2>4, KindsOfCommands
<1>2. ASSUME NEW c \in Commands, NEW d \in Documents, NEW q \in UndoInstanceCommand(c, d)
      PROVE  q \in Commands \X Documents
  <2>1. PICK r, e : r = q[1] /\ e = q[2]
    OBVIOUS
  <2>2. CASE c.kind = "add"
    <3>1. q = <<r, e>> /\ <<r, e>> = AddUndo(c, d)
      BY <1>2, <2>1, <2>2, OutcomesArePairs DEF UndoInstanceCommand
    <3>2. r \in Commands /\ e \in Documents
      BY <2>2, <3>1, AddUndoOutcome
    <3> QED BY <3>1, <3>2
  <2>3. CASE c.kind = "set"
    <3>1. q = <<r, e>> /\ <<r, e>> = SetUndo(c, d)
      BY <1>0, <1>2, <2>1, <2>3, OutcomesArePairs DEF UndoInstanceCommand
    <3>2. r \in Commands /\ e \in Documents
      BY <2>3, <3>1, SetUndoOutcome
    <3> QED BY <3>1, <3>2
  <2> QED BY <2>2, <2>3, KindsOfCommands
<1>3. ASSUME NEW d \in Documents, NEW e \in SelectInstance(d)
      PROVE  e \in Documents
  <2>1. PICK ref \in Selectable(d) : e = [d EXCEPT !.selected = ref]
    BY <1>3 DEF SelectInstance
  <2>2. d.records \in Lists /\ d = [records |-> d.records, selected |-> d.selected]
    BY DocumentParts DEF Documents
  <2>3. ref \in Refs
    <3>1. \A i \in DOMAIN d.records : d.records[i] \in Records
      BY <2>2, ListParts, LenProperties, ElementOfSeq
    <3>2. \A r \in Records : Ref(r) \in Refs
      BY DEF Records, Ref, Refs, InstanceRefs
    <3> QED BY <2>1, <3>1, <3>2 DEF Selectable
  <2>4. e = [records |-> d.records, selected |-> ref]
    BY <2>1, <2>2
  <2> QED BY <2>2, <2>3, <2>4, DocumentParts
<1> QED BY <1>1, <1>2, <1>3

-----------------------------------------------------------------------------
(* Of a list that may hold a record twice, as a session's may: the calls   *)
(* keep the types of what they are given, and one that is refused leaves   *)
(* the document alone.                                                     *)
Workspaces == [records: Seq(Records), selected: Refs \cup {NoInstance}]

LEMMA RefsOfRecords == \A r \in Records : Ref(r) \in Refs
BY DEF Records, Ref, Refs, InstanceRefs

LEMMA InsertedRecord ==
  ASSUME NEW s \in Seq(Records), NEW p \in Int, NEW r \in Records
  PROVE  InsertRecord(s, p, r) \in Seq(Records)
<1>1. PICK at \in 1 .. Len(s) + 1 : InsertRecord(s, p, r) = InsertAt(s, at, r)
  BY ClampedInsert
<1> QED BY <1>1, Inserted

LEMMA WrittenParameter ==
  ASSUME NEW s \in Seq(Records), NEW ref, HasRecord(s, ref), NEW v \in Values \cup {NoValue}
  PROVE  SetParameter(s, ref, v) \in Seq(Records)
<1>1. PICK k \in 1 .. Len(s) : IndexOfRecord(s, ref) = k
  BY FoundSomewhere
<1>2. s[k] \in Records
  BY ElementOfSeq
<1>3. PICK e : e = [s[k] EXCEPT !.value = v]
  OBVIOUS
<1>4. e \in Records
  BY <1>2, <1>3 DEF Records
<1>5. SetParameter(s, ref, v) = [s EXCEPT ![k] = e]
  BY <1>1, <1>3 DEF SetParameter
<1> QED BY <1>4, <1>5, ExceptSeq

LEMMA TakenRecord ==
  ASSUME NEW s \in Seq(Records), NEW ref, HasRecord(s, ref)
  PROVE  TakeRecord(s, ref) \in Seq(Records)
<1>1. PICK k \in 1 .. Len(s) : IndexOfRecord(s, ref) = k
  BY FoundSomewhere
<1> QED BY <1>1, Removed DEF TakeRecord

LEMMA WorkspaceParts ==
  /\ \A d \in Workspaces : d.records \in Seq(Records) /\ d.selected \in Refs \cup {NoInstance}
  /\ \A s \in Seq(Records), ref \in Refs \cup {NoInstance} :
       [records |-> s, selected |-> ref] \in Workspaces
  /\ \A d \in Workspaces, s \in Seq(Records) : [d EXCEPT !.records = s] \in Workspaces
BY DEF Workspaces

(* A first call that creates an instance remembers the record it put at    *)
(* the end.                                                                *)
LEMMA FirstCallTyped ==
  ASSUME NEW c \in Commands, c.kind = "add", c.created = NoRecord, NEW d \in Workspaces,
         NEW r, NEW e, <<r, e>> = AddFirst(c, d)
  PROVE  r \in Commands /\ e \in Workspaces /\ (~r.executed => e = d)
<1> DEFINE x == d.records
           id == NextInstanceId(x, c.core)
           record == DefaultRecord(c.core, id)
           created == CreateInstance(d, c.core)
           at == IndexOfRecord(created.records, created.selected)
<1>0. PICK yes \in BOOLEAN, no \in BOOLEAN : yes = TRUE /\ no = FALSE
  OBVIOUS
<1>1. x \in Seq(Records) /\ Len(x) \in Nat /\ d.selected \in Refs \cup {NoInstance}
  BY WorkspaceParts, LenProperties
<1>2. c \in AddCommands /\ c.core \in Cores
  <2>1. "add" # "set"
    OBVIOUS
  <2>2. c \in AddCommands
    BY <2>1, KindsOfCommands
  <2> QED BY <2>2, CreatedIsRecord
<1>3. CASE CanCreate(d, c.core) /\ Room(x) /\ NameInBound(x, c.core)
  <2>1. id = <<TokenOf[c.core], id[2]>> /\ id[2] \in 0 .. MaxSuffix
    <3>1. id = <<TokenOf[c.core], id[2]>> /\ id[2] \in Nat
      BY <1>1, <1>2, NextIdFresh
    <3> QED BY <1>3, <3>1, InstanceCommandsAssumption DEF NameInBound
  <2>2. id \in Tokens \X (0 .. MaxSuffix)
    <3>1. TokenOf[c.core] \in Tokens
      BY <1>2 DEF Tokens
    <3> HIDE DEF id
    <3> QED BY <2>1, <3>1
  <2>3. record \in DefaultRecords /\ record \in Records
    <3> HIDE DEF id
    <3>1. record \in DefaultRecords
      BY <1>2, <2>2 DEF DefaultRecords
    <3>2. record \in Records
      BY <1>2, <2>2, ProjectInstancesAssumption DEF DefaultRecord, Records
    <3> QED BY <3>1, <3>2
  <2>4. ~HasRecord(x, Ref(record))
    BY <1>3 DEF CanCreate, CanInsert
  <2> HIDE DEF id, record
  <2>5. created.records = InsertAt(x, Len(x) + 1, record) /\ created.selected = Ref(record)
    <3>1. InsertRecord(x, Len(x) + 1, record) = InsertAt(x, Len(x) + 1, record)
      BY <1>1 DEF InsertRecord
    <3> QED BY <3>1 DEF CreateInstance, record, id
  <2>6. created = [records |-> created.records, selected |-> created.selected]
    BY DEF CreateInstance
  <2> HIDE DEF created
  <2>7. PICK n \in Nat : n = Len(x)
    BY <1>1
  <2>8. PICK t : t = created.records
    OBVIOUS
  <2>9. /\ t \in Seq(Records) /\ Len(t) = n + 1 /\ t[n + 1] = record
        /\ \A i \in 1 .. n : t[i] = x[i]
    <3>1. n + 1 \in 1 .. Len(x) + 1
      BY <2>7
    <3>2. t \in Seq(Records) /\ WithElementAt(t, x, n + 1, record)
      BY <1>1, <2>3, <2>5, <2>7, <2>8, <3>1, Inserted
    <3> QED BY <2>7, <3>2 DEF WithElementAt
  <2>10. at = n + 1 /\ t[at] = record
    <3>1. \A i \in 1 .. n : Ref(t[i]) # Ref(record)
      BY <1>1, <2>4, <2>7, <2>9, FoundSomewhere
    <3>2. at \in 1 .. n + 1 /\ Ref(t[at]) = Ref(record)
      <4>1. n + 1 \in 1 .. n + 1
        BY <2>7
      <4> QED BY <2>5, <2>8, <2>9, <4>1, FoundSomewhere
    <3> HIDE DEF at
    <3> QED BY <2>9, <3>1, <3>2
  <2>11. at \in 0 .. MaxRecords
    BY <1>3, <2>7, <2>10, InstanceCommandsAssumption DEF Room
  <2>12. created \in Workspaces
    <3>1. Ref(record) \in Refs
      BY <2>3, RefsOfRecords
    <3> QED BY <2>5, <2>6, <2>8, <2>9, <3>1, WorkspaceParts
  <2>13. PICK g : g = Report(c, yes, no)
    OBVIOUS
  <2>14. g \in Commands /\ g.kind = "add" /\ g.executed = yes
    BY <2>13, Reported DEF SameMemory
  <2>15. <<r, e>> = <<Remember(g, created.records[at], at, d.selected), created>>
    BY <1>0, <1>3, <2>13 DEF AddFirst, created, Remember
  <2> HIDE DEF at
  <2>16. r = Remember(g, record, at, d.selected) /\ e = created
    BY <2>8, <2>10, <2>15
  <2>17. r \in Commands /\ r.executed = yes
    BY <1>1, <2>3, <2>11, <2>14, <2>16, Remembered
  <2> QED BY <1>0, <2>12, <2>16, <2>17
<1>4. CASE ~(CanCreate(d, c.core) /\ Room(x) /\ NameInBound(x, c.core))
  <2>1. PICK g : g = Report(c, no, no)
    OBVIOUS
  <2>2. g \in Commands /\ g.kind = "add"
    BY <2>1, Reported DEF SameMemory
  <2>3. <<r, e>> = <<[g EXCEPT !.previous = d.selected], d>>
    BY <1>0, <1>4, <2>1 DEF AddFirst
  <2>4. g \in AddCommands
    <3>1. "add" # "set"
      OBVIOUS
    <3> QED BY <2>2, <3>1, KindsOfCommands
  <2>5. r = [g EXCEPT !.previous = d.selected] /\ e = d
    BY <2>3
  <2>6. r \in AddCommands
    BY <1>1, <2>4, <2>5 DEF AddCommands
  <2> QED BY <2>5, <2>6 DEF Commands
<1> QED BY <1>3, <1>4

LEMMA LaterCallTyped ==
  ASSUME NEW c \in Commands, c.kind = "add", c.created # NoRecord, NEW d \in Workspaces,
         NEW r, NEW e, <<r, e>> = AddAgain(c, d)
  PROVE  r \in Commands /\ e \in Workspaces /\ (~r.executed => e = d)
<1> DEFINE x == d.records
           y == InsertRecord(x, c.position, c.created)
<1>0. PICK yes \in BOOLEAN, no \in BOOLEAN : yes = TRUE /\ no = FALSE
  OBVIOUS
<1>1. x \in Seq(Records)
  BY WorkspaceParts
<1>2. c.created \in Records /\ c.position \in Int
  <2>1. "add" # "set"
    OBVIOUS
  <2>2. c \in AddCommands
    BY <2>1, KindsOfCommands
  <2>3. MaxRecords \in Nat
    BY InstanceCommandsAssumption
  <2>4. c.created \in Records /\ c.position \in 0 .. MaxRecords
    BY <2>2, CreatedIsRecord
  <2> QED BY <2>3, <2>4
<1>3. CASE CanInsert(x, c.created) /\ Room(x)
  <2>1. y \in Seq(Records)
    BY <1>1, <1>2, InsertedRecord
  <2>2. <<r, e>> = <<Report(c, yes, no), [records |-> y, selected |-> ReselectExactOrClear(y, Ref(c.created))]>>
    BY <1>0, <1>3 DEF AddAgain
  <2> HIDE DEF y
  <2>3. r = Report(c, yes, no) /\ e = [records |-> y, selected |-> ReselectExactOrClear(y, Ref(c.created))]
    BY <2>2
  <2>4. r \in Commands /\ r.executed = yes
    BY <2>3, Reported
  <2>5. ReselectExactOrClear(y, Ref(c.created)) \in Refs \cup {NoInstance}
    BY <1>2, RefsOfRecords DEF ReselectExactOrClear
  <2> QED BY <1>0, <2>1, <2>3, <2>4, <2>5, WorkspaceParts
<1>4. CASE ~(CanInsert(x, c.created) /\ Room(x))
  <2>1. <<r, e>> = <<Report(c, no, no), d>>
    BY <1>0, <1>4 DEF AddAgain
  <2>2. r = Report(c, no, no) /\ e = d
    BY <2>1
  <2> QED BY <2>2, Reported
<1> QED BY <1>3, <1>4

LEMMA TakenBackTyped ==
  ASSUME NEW c \in Commands, c.kind = "add", NEW d \in Workspaces,
         NEW r, NEW e, <<r, e>> = AddUndo(c, d)
  PROVE  r \in Commands /\ e \in Workspaces /\ (~r.undone => e = d)
<1> DEFINE x == d.records
           y == TakeRecord(x, Ref(c.created))
<1>0. PICK yes \in BOOLEAN, no \in BOOLEAN : yes = TRUE /\ no = FALSE
  OBVIOUS
<1>1. x \in Seq(Records)
  BY WorkspaceParts
<1>2. c.previous \in Refs \cup {NoInstance}
  <2>1. "add" # "set"
    OBVIOUS
  <2>2. c \in AddCommands
    BY <2>1, KindsOfCommands
  <2> QED BY <2>2, CreatedIsRecord
<1>3. CASE c.created # NoRecord /\ HasRecord(x, Ref(c.created))
  <2>1. y \in Seq(Records)
    BY <1>1, <1>3, TakenRecord
  <2>2. <<r, e>> = <<[c EXCEPT !.undone = yes], [records |-> y, selected |-> ReselectExactOrClear(y, c.previous)]>>
    BY <1>0, <1>3 DEF AddUndo
  <2> HIDE DEF y
  <2>3. r = [c EXCEPT !.undone = yes] /\ e = [records |-> y, selected |-> ReselectExactOrClear(y, c.previous)]
    BY <2>2
  <2>4. r \in Commands /\ r.undone = yes
    BY <2>3, UndoneSet
  <2>5. ReselectExactOrClear(y, c.previous) \in Refs \cup {NoInstance}
    BY <1>2 DEF ReselectExactOrClear
  <2> QED BY <1>0, <2>1, <2>3, <2>4, <2>5, WorkspaceParts
<1>4. CASE ~(c.created # NoRecord /\ HasRecord(x, Ref(c.created)))
  <2>1. <<r, e>> = <<[c EXCEPT !.undone = no], d>>
    BY <1>0, <1>4 DEF AddUndo
  <2>2. r = [c EXCEPT !.undone = no] /\ e = d
    BY <2>1
  <2> QED BY <2>2, UndoneSet
<1> QED BY <1>3, <1>4

LEMMA SetTyped ==
  ASSUME NEW c \in Commands, c.kind = "set", NEW d \in Workspaces,
         NEW r, NEW e, <<r, e>> = SetExecute(c, d)
  PROVE  r \in Commands /\ e \in Workspaces /\ (~r.executed => e = d)
<1> DEFINE x == d.records
           old == IF HasRecord(x, c.ref) THEN ParameterOf(x, c.ref) ELSE NoValue
           y == SetParameter(x, c.ref, c.new)
<1>0. PICK yes \in BOOLEAN, no \in BOOLEAN : yes = TRUE /\ no = FALSE
  OBVIOUS
<1>1. x \in Seq(Records)
  BY WorkspaceParts
<1>2. c.new \in Values \cup {NoValue} /\ c \in SetCommands /\ old \in Values \cup {NoValue}
  BY <1>1, SetFields, ParameterIsValue
<1>3. PICK g : g = [c EXCEPT !.old = old]
  OBVIOUS
<1>4. SetExecute(c, d) =
        IF HasRecord(x, c.ref) /\ old # c.new
        THEN <<Report(g, yes, no), [d EXCEPT !.records = y]>>
        ELSE <<Report(g, no, no), d>>
  BY <1>0, <1>3 DEF SetExecute
<1> HIDE DEF old
<1>5. g \in Commands
  BY <1>2, <1>3 DEF SetCommands, Commands
<1>6. CASE HasRecord(x, c.ref) /\ old # c.new
  <2>1. y \in Seq(Records)
    BY <1>1, <1>2, <1>6, WrittenParameter
  <2> HIDE DEF y
  <2>2. r = Report(g, yes, no) /\ e = [d EXCEPT !.records = y]
    BY <1>4, <1>6
  <2>3. r \in Commands /\ r.executed = yes
    BY <1>5, <2>2, Reported
  <2> QED BY <1>0, <2>1, <2>2, <2>3, WorkspaceParts
<1>7. CASE ~(HasRecord(x, c.ref) /\ old # c.new)
  <2>1. r = Report(g, no, no) /\ e = d
    BY <1>4, <1>7
  <2> QED BY <1>5, <2>1, Reported
<1> QED BY <1>6, <1>7

LEMMA SetBackTyped ==
  ASSUME NEW c \in Commands, c.kind = "set", NEW d \in Workspaces,
         NEW r, NEW e, <<r, e>> = SetUndo(c, d)
  PROVE  r \in Commands /\ e \in Workspaces /\ (~r.undone => e = d)
<1> DEFINE x == d.records
           y == SetParameter(x, c.ref, c.old)
<1>0. PICK yes \in BOOLEAN, no \in BOOLEAN : yes = TRUE /\ no = FALSE
  OBVIOUS
<1>1. x \in Seq(Records)
  BY WorkspaceParts
<1>2. CASE HasRecord(x, c.ref)
  <2>1. y \in Seq(Records)
    BY <1>1, <1>2, SetFields, WrittenParameter
  <2>2. <<r, e>> = <<[c EXCEPT !.undone = yes], [d EXCEPT !.records = y]>>
    BY <1>0, <1>2 DEF SetUndo
  <2> HIDE DEF y
  <2>3. r = [c EXCEPT !.undone = yes] /\ e = [d EXCEPT !.records = y]
    BY <2>2
  <2>4. r \in Commands /\ r.undone = yes
    BY <2>3, UndoneSet
  <2> QED BY <1>0, <2>1, <2>3, <2>4, WorkspaceParts
<1>3. CASE ~HasRecord(x, c.ref)
  <2>1. <<r, e>> = <<[c EXCEPT !.undone = no], d>>
    BY <1>0, <1>3 DEF SetUndo
  <2>2. r = [c EXCEPT !.undone = no] /\ e = d
    BY <2>1
  <2> QED BY <2>2, UndoneSet
<1> QED BY <1>2, <1>3

(* Every call, on whatever document.                                       *)
LEMMA CallsKeepTypes ==
  ASSUME NEW c \in Commands, NEW d \in Workspaces
  PROVE  /\ \A q \in ExecuteInstanceCommand(c, d) :
              q[1] \in Commands /\ q[2] \in Workspaces /\ (~q[1].executed => q[2] = d)
         /\ \A q \in UndoInstanceCommand(c, d) :
              q[1] \in Commands /\ q[2] \in Workspaces /\ (~q[1].undone => q[2] = d)
<1>0. "add" # "set"
  OBVIOUS
<1>1. ASSUME NEW q \in ExecuteInstanceCommand(c, d)
      PROVE  q[1] \in Commands /\ q[2] \in Workspaces /\ (~q[1].executed => q[2] = d)
  <2>1. PICK r, e : r = q[1] /\ e = q[2]
    OBVIOUS
  <2>2. CASE c.kind = "add" /\ c.created = NoRecord
    <3>1. <<r, e>> = AddFirst(c, d)
      BY <1>1, <2>1, <2>2, OutcomesArePairs DEF ExecuteInstanceCommand, AddExecute
    <3> QED BY <2>1, <2>2, <3>1, FirstCallTyped
  <2>3. CASE c.kind = "add" /\ c.created # NoRecord
    <3>1. <<r, e>> = AddAgain(c, d)
      BY <1>1, <2>1, <2>3, OutcomesArePairs DEF ExecuteInstanceCommand, AddExecute
    <3> QED BY <2>1, <2>3, <3>1, LaterCallTyped
  <2>4. CASE c.kind = "set"
    <3>1. <<r, e>> = SetExecute(c, d)
      BY <1>0, <1>1, <2>1, <2>4, OutcomesArePairs DEF ExecuteInstanceCommand
    <3> QED BY <2>1, <2>4, <3>1, SetTyped
  <2> QED BY <2>2, <2>3, <2>4, KindsOfCommands
<1>2. ASSUME NEW q \in UndoInstanceCommand(c, d)
      PROVE  q[1] \in Commands /\ q[2] \in Workspaces /\ (~q[1].undone => q[2] = d)
  <2>1. PICK r, e : r = q[1] /\ e = q[2]
    OBVIOUS
  <2>2. CASE c.kind = "add"
    <3>1. <<r, e>> = AddUndo(c, d)
      BY <1>2, <2>1, <2>2, OutcomesArePairs DEF UndoInstanceCommand
    <3> QED BY <2>1, <2>2, <3>1, TakenBackTyped
  <2>3. CASE c.kind = "set"
    <3>1. <<r, e>> = SetUndo(c, d)
      BY <1>0, <1>2, <2>1, <2>3, OutcomesArePairs DEF UndoInstanceCommand
    <3> QED BY <2>1, <2>3, <3>1, SetBackTyped
  <2> QED BY <2>2, <2>3, KindsOfCommands
<1> QED BY <1>1, <1>2

(* A command that is in use never tears a document.                        *)
LEMMA FlagsOfCommands ==
  ASSUME NEW c \in Commands
  PROVE  c.executed \in BOOLEAN /\ c.undone \in BOOLEAN /\ c.tore = FALSE
<1>1. CASE c \in AddCommands
  BY <1>1 DEF AddCommands
<1>2. CASE c \in SetCommands
  BY <1>2 DEF SetCommands
<1> QED BY <1>1, <1>2 DEF Commands

LEMMA NewCommandsTyped == NewCommands \subseteq Commands
<1>0. MaxRecords \in Nat /\ TRUE \in BOOLEAN /\ FALSE \in BOOLEAN
  BY InstanceCommandsAssumption
<1>1. ASSUME NEW c \in Cores PROVE AddCommand(c) \in AddCommands
  BY <1>0 DEF AddCommand, AddCommands
<1>2. ASSUME NEW ref \in Refs, NEW v \in Values PROVE SetCommand(ref, v) \in SetCommands
  BY <1>0 DEF SetCommand, SetCommands
<1> QED BY <1>1, <1>2 DEF NewCommands, Commands

=============================================================================
