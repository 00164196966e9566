--------------------------- MODULE NodeEditorProofs ---------------------------
(***************************************************************************)
(* What the node editor promises for every set of packages, every design   *)
(* it opens and every bound: its graph has only connections that the rules *)
(* take with all others there, shows the design after each edit that is    *)
(* not refused, and stays as it is when the design cannot be loaded; its   *)
(* scene is what a refresh would show.                                     *)
(*                                                                         *)
(*   1. sequences: what flattening, removing and appending leave;          *)
(*   2. a rule on two ports is one on what they are and one on each        *)
(*      connection there is, and of two connections it does not matter     *)
(*      which was first;                                                   *)
(*   3. loading takes connections one by one, and keeps all of them;       *)
(*   4. what each patch makes of a design;                                 *)
(*   5. what a step leaves of design and graph;                            *)
(*   6. what loading, refreshing and toggling make of the scene;           *)
(*   7. the theorems.                                                      *)
(***************************************************************************)
EXTENDS NodeEditor, SequenceTheorems, NaturalsInduction, WellFoundedInduction, TLAPS

-----------------------------------------------------------------------------
(* Sequences.                                                              *)

LEMMA EntriesOf ==
  ASSUME NEW T, NEW t \in Seq(T)
  PROVE  Len(t) \in Nat /\ DOMAIN t = 1 .. Len(t) /\ \A i \in DOMAIN t : t[i] \in T
BY LenProperties, ElementOfSeq

LEMMA SequenceOf ==
  ASSUME NEW T, NEW n \in Nat, NEW t \in [1 .. n -> T]
  PROVE  t \in Seq(T) /\ Len(t) = n /\ DOMAIN t = 1 .. n
OBVIOUS

LEMMA SetOfList ==
  ASSUME NEW T, NEW t \in Seq(T)
  PROVE  ToSet(t) \subseteq T
BY EntriesOf DEF ToSet

LEMMA SameSet ==
  ASSUME NEW s, NEW t, DOMAIN s = DOMAIN t, \A n \in DOMAIN s : s[n] = t[n]
  PROVE  ToSet(s) = ToSet(t)
BY DEF ToSet

(* A list is one over every set that has its entries.                      *)
LEMMA ListOver ==
  ASSUME NEW t, IsList(t), NEW T, ToSet(t) \subseteq T
  PROVE  t \in Seq(T)
<1>1. t \in Seq(ToSet(t))
  BY DEF IsList
<1>2. t \in [1 .. Len(t) -> T] /\ Len(t) \in Nat
  <2>1. Len(t) \in Nat /\ DOMAIN t = 1 .. Len(t) /\ t = [i \in DOMAIN t |-> t[i]]
    BY <1>1, EntriesOf
  <2>2. \A i \in DOMAIN t : t[i] \in T
    BY DEF ToSet
  <2> QED BY <2>1, <2>2
<1> QED BY <1>2, SequenceOf

LEMMA ListIs ==
  ASSUME NEW T, NEW t \in Seq(T)
  PROVE  IsList(t)
<1>1. Len(t) \in Nat /\ DOMAIN t = 1 .. Len(t) /\ t = [i \in DOMAIN t |-> t[i]]
  BY EntriesOf
<1>2. \A i \in DOMAIN t : t[i] \in ToSet(t)
  BY DEF ToSet
<1>3. t \in [1 .. Len(t) -> ToSet(t)]
  BY <1>1, <1>2
<1> QED BY <1>1, <1>3, SequenceOf DEF IsList

LEMMA SetOfTwo ==
  ASSUME NEW T, NEW s \in Seq(T), NEW t \in Seq(T)
  PROVE  s \o t \in Seq(T) /\ ToSet(s \o t) = ToSet(s) \cup ToSet(t)
<1>1. /\ s \o t \in Seq(T) /\ Len(s \o t) = Len(s) + Len(t)
      /\ \A i \in 1 .. Len(s) : (s \o t)[i] = s[i]
      /\ \A i \in 1 .. Len(t) : (s \o t)[Len(s) + i] = t[i]
  BY ConcatProperties, EntriesOf
<1>2. PICK a \in Nat, b \in Nat : a = Len(s) /\ b = Len(t)
  BY EntriesOf
<1>9. PICK u : u = s \o t
  OBVIOUS
<1>3. DOMAIN s = 1 .. a /\ DOMAIN t = 1 .. b /\ DOMAIN u = 1 .. a + b
  BY <1>1, <1>2, <1>9, EntriesOf
<1>4. (\A i \in 1 .. a : u[i] = s[i]) /\ \A i \in 1 .. b : u[a + i] = t[i]
  BY <1>1, <1>2, <1>9
<1>5. ASSUME NEW i \in 1 .. a + b PROVE u[i] \in ToSet(s) \cup ToSet(t)
  <2>1. CASE i \in 1 .. a
    BY <1>3, <1>4, <2>1 DEF ToSet
  <2>2. CASE i \notin 1 .. a
    <3>1. PICK j \in 1 .. b : i = a + j
      <4>1. i - a \in 1 .. b /\ i = a + (i - a)
        BY <2>2
      <4> QED BY <4>1
    <3> QED BY <1>3, <1>4, <3>1 DEF ToSet
  <2> QED BY <2>1, <2>2
<1>6. \A i \in 1 .. a : s[i] \in ToSet(u)
  <2> SUFFICES ASSUME NEW i \in 1 .. a PROVE s[i] \in ToSet(u)
    OBVIOUS
  <2>1. i \in 1 .. a + b
    OBVIOUS
  <2> QED BY <1>3, <1>4, <2>1 DEF ToSet
<1>7. \A i \in 1 .. b : t[i] \in ToSet(u)
  <2> SUFFICES ASSUME NEW i \in 1 .. b PROVE t[i] \in ToSet(u)
    OBVIOUS
  <2>1. a + i \in 1 .. a + b
    OBVIOUS
  <2> QED BY <1>3, <1>4, <2>1 DEF ToSet
<1>8. ToSet(u) = ToSet(s) \cup ToSet(t)
  BY <1>3, <1>5, <1>6, <1>7 DEF ToSet
<1> QED BY <1>1, <1>2, <1>8, <1>9

LEMMA SetOfAppend ==
  ASSUME NEW T, NEW s \in Seq(T), NEW e \in T
  PROVE  /\ Append(s, e) \in Seq(T) /\ Len(Append(s, e)) = Len(s) + 1
         /\ \A i \in 1 .. Len(s) : Append(s, e)[i] = s[i]
         /\ Append(s, e)[Len(s) + 1] = e
         /\ ToSet(Append(s, e)) = ToSet(s) \cup {e}
<1>1. PICK n \in Nat : n = Len(s)
  BY EntriesOf
<1>7. PICK u : u = Append(s, e)
  OBVIOUS
<1>2. u \in Seq(T) /\ Len(u) = n + 1 /\ (\A i \in 1 .. n : u[i] = s[i]) /\ u[n + 1] = e
  BY <1>1, <1>7, AppendProperties
<1>3. DOMAIN u = 1 .. n + 1 /\ DOMAIN s = 1 .. n
  BY <1>1, <1>2, <1>7, EntriesOf
<1>4. \A i \in 1 .. n + 1 : i \in 1 .. n \/ i = n + 1
  OBVIOUS
<1>5. (\A i \in 1 .. n : i \in 1 .. n + 1) /\ n + 1 \in 1 .. n + 1
  OBVIOUS
<1>6. ToSet(u) = ToSet(s) \cup {e}
  BY <1>2, <1>3, <1>4, <1>5 DEF ToSet
<1> QED BY <1>1, <1>2, <1>6, <1>7

(* What is left when one entry of a list is removed.                       *)
LEMMA WithoutOne ==
  ASSUME NEW T, NEW s \in Seq(T), NEW p \in DOMAIN s
  PROVE  /\ RemoveAt(s, p) \in Seq(T)
         /\ ToSet(RemoveAt(s, p)) = {s[i] : i \in DOMAIN s \ {p}}
<1>1. PICK n \in Nat : n = Len(s) /\ DOMAIN s = 1 .. n
  BY EntriesOf
<1>2. PICK q \in Int, r \in Int : q = p - 1 /\ r = p + 1
  BY <1>1
<1>3. 1 \in Int /\ n \in Int /\ p \in Int
  BY <1>1
<1>4. PICK a, b : a = SubSeq(s, 1, q) /\ b = SubSeq(s, r, n)
  OBVIOUS
<1>5. (\A i \in 1 .. q : i \in 1 .. n) /\ (\A i \in r .. n : i \in 1 .. n)
  BY <1>1, <1>2
<1>6. /\ a \in Seq(T) /\ Len(a) = (IF 1 <= q THEN q - 1 + 1 ELSE 0)
      /\ \A i \in 1 .. q - 1 + 1 : a[i] = s[1 + i - 1]
  <2>1. \A i \in 1 .. q : s[i] \in T
    BY <1>1, <1>5, EntriesOf
  <2> QED BY <1>3, <1>4, <1>1, <1>2, <2>1, SubSeqProperties, SMTT(60)
<1>7. /\ b \in Seq(T) /\ Len(b) = (IF r <= n THEN n - r + 1 ELSE 0)
      /\ \A i \in 1 .. n - r + 1 : b[i] = s[r + i - 1]
  <2>1. \A i \in r .. n : s[i] \in T
    BY <1>1, <1>5, EntriesOf
  <2> QED BY <1>3, <1>4, <1>1, <1>2, <2>1, SubSeqProperties, SMTT(60)
<1>8. ToSet(a) = {s[i] : i \in 1 .. q}
  <2>1. DOMAIN a = 1 .. q /\ \A i \in 1 .. q : a[i] = s[i]
    <3>1. Len(a) = q /\ \A i \in 1 .. q : i \in 1 .. q - 1 + 1 /\ 1 + i - 1 = i
      BY <1>1, <1>2, <1>6
    <3> QED BY <1>6, <3>1, EntriesOf
  <2> QED BY <2>1 DEF ToSet
<1>9. ToSet(b) = {s[i] : i \in r .. n}
  <2>1. DOMAIN b = 1 .. n - p /\ \A i \in 1 .. n - p : b[i] = s[i + p]
    <3>1. Len(b) = n - p /\ \A i \in 1 .. n - p : i \in 1 .. n - r + 1 /\ r + i - 1 = i + p
      BY <1>1, <1>2, <1>7
    <3> QED BY <1>7, <3>1, EntriesOf
  <2>2. \A i \in 1 .. n - p : i + p \in r .. n
    BY <1>1, <1>2
  <2>3. \A i \in r .. n : i - p \in 1 .. n - p /\ (i - p) + p = i
    BY <1>1, <1>2
  <2>4. ToSet(b) \subseteq {s[i] : i \in r .. n}
    BY <2>1, <2>2 DEF ToSet
  <2>5. ASSUME NEW i \in r .. n PROVE s[i] \in ToSet(b)
    <3>1. PICK k \in 1 .. n - p : k + p = i
      BY <2>3
    <3> QED BY <2>1, <3>1 DEF ToSet
  <2> QED BY <2>4, <2>5
<1>10. DOMAIN s \ {p} = 1 .. q \cup r .. n
  BY <1>1, <1>2
<1>11. RemoveAt(s, p) = a \o b
  BY <1>1, <1>2, <1>4 DEF RemoveAt
<1>12. ToSet(a) \cup ToSet(b) = {s[i] : i \in DOMAIN s \ {p}}
  <2>1. \A A, B : {s[i] : i \in A} \cup {s[i] : i \in B} = {s[i] : i \in A \cup B}
    OBVIOUS
  <2> QED BY <1>8, <1>9, <1>10, <2>1, Zenon
<1>13. a \o b \in Seq(T) /\ ToSet(a \o b) = ToSet(a) \cup ToSet(b)
  BY <1>6, <1>7, SetOfTwo
<1> QED BY <1>11, <1>12, <1>13

-----------------------------------------------------------------------------
(* Flattening.                                                             *)

(* Numbers are reached one by one.                                         *)
LEMMA OneByOne ==
  ASSUME NEW S, 0 \in S, \A n \in Nat : n \in S => n + 1 \in S
  PROVE  Nat \subseteq S
<1> DEFINE R == OpToRel(<, Nat)
           T == Nat \ S
<1>1. IsWellFoundedOn(R, Nat)
  BY NatLessThanWellFounded
<1>2. SUFFICES ASSUME T # {} PROVE FALSE
  OBVIOUS
<1>3. PICK n \in T : \A m \in T : ~(<<m, n>> \in R)
  <2>1. T \subseteq Nat
    OBVIOUS
  <2> HIDE DEF R, T
  <2> QED BY <1>1, <1>2, <2>1, WFMin
<1>4. n \in Nat /\ n # 0 /\ n - 1 \in Nat /\ n - 1 < n
  <2>1. n \in Nat /\ n # 0
    OBVIOUS
  <2> HIDE DEF T, R
  <2> QED BY <2>1
<1>5. <<n - 1, n>> \in R
  BY <1>4 DEF OpToRel
<1>6. n - 1 \in S
  <2> HIDE DEF R
  <2> QED BY <1>3, <1>4, <1>5
<1> HIDE DEF R
<1>7. n - 1 + 1 = n /\ n \notin S
  BY <1>4
<1> QED BY <1>4, <1>6, <1>7

(* f[n] is what the first n lists are one after the other.                 *)
Flattening(f, lists, n) ==
  f = [i \in 1 .. n |-> IF i = 1 THEN lists[i] ELSE f[i - 1] \o lists[i]]

LEMMA FlatteningExists ==
  ASSUME NEW lists, NEW m \in Nat
  PROVE  \E f : Flattening(f, lists, m)
<1> DEFINE S == {n \in Nat : \E f : Flattening(f, lists, n)}
<1>1. 0 \in S
  <2> DEFINE f == [i \in 1 .. 0 |-> lists[i]]
  <2>1. \A i \in 1 .. 0 : FALSE
    OBVIOUS
  <2>2. Flattening(f, lists, 0)
    BY <2>1 DEF Flattening
  <2> QED BY <2>2
<1>2. ASSUME NEW n \in Nat, n \in S PROVE n + 1 \in S
  <2>1. PICK f : Flattening(f, lists, n)
    BY <1>2
  <2> DEFINE last == IF n + 1 = 1 THEN lists[n + 1] ELSE f[n] \o lists[n + 1]
             g == [i \in 1 .. n + 1 |-> IF i = n + 1 THEN last ELSE f[i]]
  <2>2. (\A i \in 1 .. n : g[i] = f[i]) /\ g[n + 1] = last
    <3> HIDE DEF last
    <3> QED OBVIOUS
  <2>3. ASSUME NEW i \in 1 .. n + 1
        PROVE  g[i] = IF i = 1 THEN lists[i] ELSE g[i - 1] \o lists[i]
    <3> HIDE DEF g
    <3>1. CASE i = n + 1
      <4>1. i # 1 => i - 1 = n /\ n \in 1 .. n /\ g[n] = f[n]
        BY <2>2, <3>1
      <4> QED BY <2>2, <3>1, <4>1
    <3>2. CASE i \in 1 .. n
      <4>1. g[i] = f[i] /\ (i # 1 => i - 1 \in 1 .. n /\ g[i - 1] = f[i - 1])
        BY <2>2, <3>2
      <4>2. f[i] = IF i = 1 THEN lists[i] ELSE f[i - 1] \o lists[i]
        BY <2>1, <3>2 DEF Flattening
      <4> HIDE DEF last
      <4> QED BY <4>1, <4>2
    <3> QED BY <3>1, <3>2
  <2>4. Flattening(g, lists, n + 1)
    BY <2>3 DEF Flattening
  <2> QED BY <2>4
<1>3. Nat \subseteq S
  <2> HIDE DEF S
  <2> QED BY <1>1, <1>2, OneByOne
<1> QED BY <1>3

(* A list of lists, flattened, has the entries of all of them.             *)
EntriesOfAll(t, lists, n) ==
  \A x : x \in ToSet(t) <=> \E i \in 1 .. n : x \in ToSet(lists[i])

LEMMA Flattened ==
  ASSUME NEW T, NEW lists \in Seq(Seq(T)), NEW m \in Nat, m = Len(lists),
         NEW f, Flattening(f, lists, m), NEW n \in 1 .. m
  PROVE  f[n] \in Seq(T) /\ EntriesOfAll(f[n], lists, n)
<1> DEFINE Has(k) == f[k] \in Seq(T) /\ EntriesOfAll(f[k], lists, k)
           S == {k \in Nat : k # 0 /\ k <= m => Has(k)}
<1>1. \A i \in 1 .. m : lists[i] \in Seq(T)
  BY EntriesOf
<1>2. \A k \in 1 .. m : f[k] = IF k = 1 THEN lists[k] ELSE f[k - 1] \o lists[k]
  BY DEF Flattening
<1>3. 0 \in S
  OBVIOUS
<1>4. ASSUME NEW k \in Nat, k \in S PROVE k + 1 \in S
  <2> SUFFICES ASSUME k + 1 <= m PROVE Has(k + 1)
    OBVIOUS
  <2>1. k + 1 \in 1 .. m /\ lists[k + 1] \in Seq(T)
    BY <1>1
  <2>2. CASE k = 0
    <3>1. f[1] = lists[1] /\ 1 \in 1 .. m
      BY <1>2, <2>1, <2>2
    <3>2. 1 .. 1 = {1}
      OBVIOUS
    <3> QED BY <2>1, <2>2, <3>1, <3>2 DEF EntriesOfAll
  <2>3. CASE k # 0
    <3>1. Has(k)
      <4>1. k # 0 /\ k <= m
        BY <2>3
      <4> HIDE DEF Has
      <4> QED BY <1>4, <4>1
    <3>2. f[k + 1] = f[k] \o lists[k + 1]
      <4>1. k + 1 # 1 /\ (k + 1) - 1 = k
        BY <2>3
      <4> QED BY <1>2, <2>1, <4>1
    <3>3. PICK r : r = f[k] \o lists[k + 1]
      OBVIOUS
    <3>4. r \in Seq(T) /\ ToSet(r) = ToSet(f[k]) \cup ToSet(lists[k + 1])
      BY <2>1, <3>1, <3>3, SetOfTwo
    <3>5. 1 .. k + 1 = 1 .. k \cup {k + 1}
      OBVIOUS
    <3>6. EntriesOfAll(r, lists, k + 1)
      BY <3>1, <3>4, <3>5, Zenon DEF EntriesOfAll
    <3>7. f[k + 1] = r
      BY <3>2, <3>3
    <3> QED BY <3>4, <3>6, <3>7
  <2> QED BY <2>2, <2>3
<1>5. Nat \subseteq S
  <2> HIDE DEF S
  <2> QED BY <1>3, <1>4, OneByOne
<1>6. n \in Nat /\ n # 0 /\ n <= m
  OBVIOUS
<1> HIDE DEF Has
<1>7. Has(n)
  BY <1>5, <1>6
<1> QED BY <1>7 DEF Has

LEMMA SetOfFlat ==
  ASSUME NEW T, NEW lists \in Seq(Seq(T))
  PROVE  /\ FlattenSeq(lists) \in Seq(T)
         /\ EntriesOfAll(FlattenSeq(lists), lists, Len(lists))
<1>1. PICK m \in Nat : m = Len(lists)
  BY EntriesOf
<1>2. CASE m = 0
  <2>1. lists = <<>> /\ FlattenSeq(lists) = <<>>
    BY <1>1, <1>2, EmptySeq DEF FlattenSeq
  <2>2. <<>> \in Seq(T) /\ ToSet(<<>>) = {}
    BY DEF ToSet
  <2>3. 1 .. 0 = {}
    OBVIOUS
  <2> QED BY <1>1, <1>2, <2>1, <2>2, <2>3 DEF EntriesOfAll
<1>3. CASE m # 0
  <2> DEFINE flatten == CHOOSE f : Flattening(f, lists, m)
  <2>1. Flattening(flatten, lists, m)
    BY FlatteningExists
  <2>2. FlattenSeq(lists) = flatten[m]
    BY <1>1, <1>3 DEF FlattenSeq, Flattening
  <2>3. m \in 1 .. m
    BY <1>3
  <2> HIDE DEF flatten
  <2>4. flatten[m] \in Seq(T) /\ EntriesOfAll(flatten[m], lists, m)
    BY <1>1, <2>1, <2>3, Flattened
  <2> QED BY <1>1, <2>2, <2>4
<1> QED BY <1>2, <1>3

-----------------------------------------------------------------------------
(* The rules on two ports: what they ask of the ports, whatever is         *)
(* connected, and what of each connection there is.                        *)
Declarative(g, source, target) ==
  << >> \in {Semantics(g, source).accepts, Semantics(g, target).accepts}

Compatible(g, source, target, wanted) ==
  LET s == Semantics(g, source)
      t == Semantics(g, target)
  IN  /\ HasPort(g, source) /\ HasPort(g, target)
      /\ source[1] # target[1]
      /\ IpcoreConstraints(g, source, target)
      /\ DirectionRules(s, t, "none", "none")
      /\ IF Declarative(g, source, target)
         THEN OppositeSideRule(s, source[2], t, target[2]) /\ s.bus = t.bus /\ RolesFit(s, t)
         ELSE /\ ClassOppositeSideRule(s, source[2], t, target[2])
              /\ FittingClasses(s, t, wanted) # <<>>

(* Whether a connection c keeps the rules from taking one between the two. *)
Takes(g, c, source, target, end) ==
  IF Declarative(g, source, target) THEN Semantics(g, end).cardinality = "one"
  ELSE ~Semantics(g, end).multi /\ c.status # "invalid"

Blocks(g, c, source, target) ==
  \/ c.source = source /\ c.target = target
  \/ source \in {c.source, c.target} /\ Takes(g, c, source, target, source)
  \/ target \in {c.source, c.target} /\ Takes(g, c, source, target, target)

LEMMA RuleOnEach ==
  ASSUME NEW g, NEW source, NEW target, NEW wanted
  PROVE  PortToPort(g, source, target, wanted) # {} <=>
           /\ Compatible(g, source, target, wanted)
           /\ \A c \in ToSet(g.connections) : ~Blocks(g, c, source, target)
<1> DEFINE s == Semantics(g, source)
           t == Semantics(g, target)
           Ports2 == HasPort(g, source) /\ HasPort(g, target)
           Exists == ConnectionExists(g, source, target)
           Core   == IpcoreConstraints(g, source, target)
<1>1. CASE Declarative(g, source, target)
  <2>1. PortToPort(g, source, target, wanted) # {} <=>
          /\ Ports2 /\ source[1] # target[1] /\ ~Exists /\ Core
          /\ DeclarativeRules(g, source, target, "none", "none")
    BY <1>1 DEF PortToPort, Option, Declared, Declarative
  <2>2. DeclarativeRules(g, source, target, "none", "none") <=>
          /\ DirectionRules(s, t, "none", "none")
          /\ s.cardinality = "one" => ~Occupied(g, source)
          /\ t.cardinality = "one" => ~Occupied(g, target)
          /\ OppositeSideRule(s, source[2], t, target[2])
          /\ s.bus = t.bus
          /\ RolesFit(s, t)
    BY DEF DeclarativeRules
  <2>3. (\A c \in ToSet(g.connections) : ~Blocks(g, c, source, target)) <=>
          /\ ~Exists
          /\ s.cardinality = "one" => ~Occupied(g, source)
          /\ t.cardinality = "one" => ~Occupied(g, target)
    BY <1>1, Zenon DEF Blocks, Takes, ConnectionExists, Occupied
  <2> QED BY <1>1, <2>1, <2>2, <2>3 DEF Compatible
<1>2. CASE ~Declarative(g, source, target)
  <2> DEFINE valid == ValidClasses(g, source, target, wanted)
             rules == /\ DirectionRules(s, t, "none", "none")
                      /\ ClassOppositeSideRule(s, source[2], t, target[2])
                      /\ valid # <<>>
  <2>1. PortToPort(g, source, target, wanted) # {} <=>
          Ports2 /\ source[1] # target[1] /\ ~Exists /\ Core /\ rules
    <3>1. ByClass(g, source, target, "none", "none", wanted) # {} <=> rules
      BY DEF ByClass
    <3> HIDE DEF rules
    <3> QED BY <1>2, <3>1 DEF PortToPort, Option, Declarative
  <2>2. valid # <<>> <=>
          /\ ~s.multi => ~Used(g, source)
          /\ ~t.multi => ~Used(g, target)
          /\ FittingClasses(s, t, wanted) # <<>>
    BY DEF ValidClasses
  <2>3. (\A c \in ToSet(g.connections) : ~Blocks(g, c, source, target)) <=>
          /\ ~Exists
          /\ ~s.multi => ~Used(g, source)
          /\ ~t.multi => ~Used(g, target)
    BY <1>2, Zenon DEF Blocks, Takes, ConnectionExists, Used
  <2> QED BY <1>2, <2>1, <2>2, <2>3 DEF Compatible
<1> QED BY <1>1, <1>2

TypesKnown(g) == \A id \in DOMAIN g.modules : g.modules[id].type \in Types

(* It does not matter which of two connections was first, unless the other *)
(* is one a file says to be invalid.                                       *)
LEMMA EitherOrder ==
  ASSUME NEW g, TypesKnown(g), NEW c, NEW d,
         HasPort(g, c.source), HasPort(g, c.target),
         HasPort(g, d.source), HasPort(g, d.target),
         c.status # "invalid", ~Blocks(g, c, d.source, d.target)
  PROVE  ~Blocks(g, d, c.source, c.target)
<1>1. ASSUME NEW end, HasPort(g, end), Semantics(g, end).accepts # << >>
      PROVE  Semantics(g, end).cardinality = "one" <=> ~Semantics(g, end).multi
  BY <1>1, PortsAssumption DEF HasPort, Semantics, TypesKnown
<1>2. ASSUME NEW end, HasPort(g, end), end \in {c.source, c.target},
             end \in {d.source, d.target}, Takes(g, d, c.source, c.target, end)
      PROVE  Takes(g, c, d.source, d.target, end)
  <2>1. ~Declarative(g, c.source, c.target) => Semantics(g, end).accepts # << >>
    BY <1>2 DEF Declarative
  <2>2. ~Declarative(g, d.source, d.target) => Semantics(g, end).accepts # << >>
    BY <1>2 DEF Declarative
  <2> QED BY <1>1, <1>2, <2>1, <2>2 DEF Takes
<1> QED BY <1>2 DEF Blocks

(* What a module shows does not matter to the rules.                       *)
SameKinds(g, h) ==
  /\ DOMAIN g.modules = DOMAIN h.modules
  /\ \A id \in DOMAIN g.modules :
       /\ g.modules[id].type = h.modules[id].type
       /\ g.modules[id].instance = h.modules[id].instance

LEMMA KindsDecide ==
  ASSUME NEW g, NEW h, SameKinds(g, h), NEW source, NEW target
  PROVE  /\ \A wanted : Compatible(g, source, target, wanted)
                           => Compatible(h, source, target, wanted)
         /\ HasPort(g, source) /\ HasPort(g, target) =>
              \A c : Blocks(g, c, source, target) <=> Blocks(h, c, source, target)
<1>1. \A end : HasPort(g, end) <=> HasPort(h, end)
  BY DEF SameKinds, HasPort
<1>2. \A end : HasPort(g, end) => Semantics(g, end) = Semantics(h, end)
  BY DEF SameKinds, HasPort, Semantics
<1>3. HasPort(g, source) /\ HasPort(g, target) =>
        (IpcoreConstraints(g, source, target) <=> IpcoreConstraints(h, source, target))
  <2> SUFFICES ASSUME HasPort(g, source) /\ HasPort(g, target)
               PROVE  IpcoreConstraints(g, source, target)
                        <=> IpcoreConstraints(h, source, target)
    OBVIOUS
  <2>1. /\ g.modules[source[1]].instance = h.modules[source[1]].instance
        /\ g.modules[target[1]].instance = h.modules[target[1]].instance
    BY DEF HasPort, SameKinds
  <2> QED BY <1>2, <2>1 DEF IpcoreConstraints
<1>4. HasPort(g, source) /\ HasPort(g, target) =>
        (Declarative(g, source, target) <=> Declarative(h, source, target))
  BY <1>2 DEF Declarative
<1>5. ASSUME NEW wanted, Compatible(g, source, target, wanted)
      PROVE  Compatible(h, source, target, wanted)
  <2>1. HasPort(g, source) /\ HasPort(g, target)
    BY <1>5 DEF Compatible
  <2> QED BY <1>1, <1>2, <1>3, <1>4, <1>5, <2>1 DEF Compatible
<1>6. ASSUME HasPort(g, source) /\ HasPort(g, target), NEW c
      PROVE  Blocks(g, c, source, target) <=> Blocks(h, c, source, target)
  BY <1>2, <1>4, <1>6 DEF Blocks, Takes
<1> QED BY <1>5, <1>6

-----------------------------------------------------------------------------
(* Graphs all of whose connections fit together.                           *)
GraphSound(g) ==
  /\ g = [order |-> g.order, modules |-> g.modules, connections |-> g.connections]
  /\ g.modules = [id \in DOMAIN g.modules |-> g.modules[id]]
  /\ TypesKnown(g)
  /\ IsList(g.connections)
  /\ \A n \in DOMAIN g.connections :
       Compatible(g, g.connections[n].source, g.connections[n].target, g.connections[n].class)
  /\ \A m, n \in DOMAIN g.connections : m < n =>
       ~Blocks(g, g.connections[m], g.connections[n].source, g.connections[n].target)

(* What loading leaves besides: no id twice, no end without a module.      *)
Joining(c) == {c.source[1], c.target[1]}

SceneGraph(g) ==
  /\ IsList(g.order) /\ DOMAIN g.modules = ToSet(g.order)
  /\ \A c, d \in ToSet(g.connections) : c.id = d.id => c = d
  /\ \A c \in ToSet(g.connections) :
       /\ Joining(c) \subseteq DOMAIN g.modules
       /\ \A end \in {c.source, c.target} : end = <<end[1], end[2]>>

LEMMA SoundIsLegal ==
  ASSUME GraphSound(graph)
  PROVE  GraphIsLegal
<1> SUFFICES ASSUME NEW n \in DOMAIN graph.connections,
                    graph.connections[n].status # "invalid"
             PROVE  PortToPort([graph EXCEPT !.connections = RemoveAt(@, n)],
                               graph.connections[n].source, graph.connections[n].target,
                               graph.connections[n].class) # {}
  BY DEF GraphIsLegal
<1>1. PICK s, c, h : /\ s = graph.connections /\ c = s[n]
                     /\ h = [graph EXCEPT !.connections = RemoveAt(@, n)]
  OBVIOUS
<1>2. s \in Seq(ToSet(s)) /\ n \in DOMAIN s /\ DOMAIN s \subseteq Int
  <2>1. s \in Seq(ToSet(s)) /\ n \in DOMAIN s
    BY <1>1 DEF GraphSound, IsList
  <2> QED BY <2>1, EntriesOf
<1>3. ToSet(RemoveAt(s, n)) = {s[i] : i \in DOMAIN s \ {n}}
  BY <1>2, WithoutOne
<1>4. h.modules = graph.modules /\ h.connections = RemoveAt(s, n)
  BY <1>1 DEF GraphSound
<1>5. SameKinds(graph, h)
  BY <1>4 DEF SameKinds
<1>6. \A m \in DOMAIN s : HasPort(graph, s[m].source) /\ HasPort(graph, s[m].target)
  BY <1>1 DEF GraphSound, Compatible
<1>7. Compatible(h, c.source, c.target, c.class)
  BY <1>1, <1>5, KindsDecide DEF GraphSound
<1>8. ASSUME NEW m \in DOMAIN s, m # n
      PROVE  ~Blocks(graph, s[m], c.source, c.target)
  <2>1. CASE m < n
    BY <1>1, <1>2, <2>1 DEF GraphSound
  <2>2. CASE n < m
    <3>1. ~Blocks(graph, c, s[m].source, s[m].target)
      BY <1>1, <1>2, <2>2 DEF GraphSound
    <3> QED BY <1>1, <1>2, <1>6, <3>1, EitherOrder DEF GraphSound
  <2> QED BY <1>2, <1>8, <2>1, <2>2
<1>9. \A d \in ToSet(h.connections) : ~Blocks(h, d, c.source, c.target)
  <2> SUFFICES ASSUME NEW m \in DOMAIN s, m # n PROVE ~Blocks(h, s[m], c.source, c.target)
    BY <1>3, <1>4
  <2> QED BY <1>1, <1>2, <1>5, <1>6, <1>8, KindsDecide
<1>10. PortToPort(h, c.source, c.target, c.class) # {}
  BY <1>7, <1>9, RuleOnEach
<1> QED BY <1>1, <1>10

(* A graph with modules that show something else.                          *)
LEMMA ShowingKeepsSound ==
  ASSUME NEW g, GraphSound(g), NEW id, NEW expanded
  PROVE  GraphSound([g EXCEPT !.modules[id].expanded = expanded])
<1>1. PICK ms, h : /\ ms = [g.modules EXCEPT ![id].expanded = expanded]
                   /\ h = [g EXCEPT !.modules[id].expanded = expanded]
  OBVIOUS
<1>2. h = [g EXCEPT !.modules = ms]
  BY <1>1
<1>3. /\ h = [order |-> h.order, modules |-> h.modules, connections |-> h.connections]
      /\ h.connections = g.connections /\ h.modules = ms
  BY <1>2 DEF GraphSound
<1>4. DOMAIN ms = DOMAIN g.modules /\ ms = [k \in DOMAIN ms |-> ms[k]]
  BY <1>1
<1>5. \A k \in DOMAIN g.modules :
        ms[k].type = g.modules[k].type /\ ms[k].instance = g.modules[k].instance
  BY <1>1
<1>6. SameKinds(g, h) /\ TypesKnown(h)
  BY <1>3, <1>4, <1>5 DEF SameKinds, TypesKnown, GraphSound
<1>7. \A n \in DOMAIN h.connections :
        /\ Compatible(h, h.connections[n].source, h.connections[n].target,
                      h.connections[n].class)
        /\ HasPort(g, h.connections[n].source) /\ HasPort(g, h.connections[n].target)
  <2>1. \A n \in DOMAIN h.connections : Compatible(g, h.connections[n].source,
           h.connections[n].target, h.connections[n].class)
    BY <1>3 DEF GraphSound
  <2>2. \A n \in DOMAIN h.connections :
          HasPort(g, h.connections[n].source) /\ HasPort(g, h.connections[n].target)
    BY <2>1 DEF Compatible
  <2> QED BY <1>6, <2>1, <2>2, KindsDecide
<1>8. \A m, n \in DOMAIN h.connections : m < n =>
        ~Blocks(h, h.connections[m], h.connections[n].source, h.connections[n].target)
  <2>1. \A m, n \in DOMAIN h.connections : m < n =>
          ~Blocks(g, h.connections[m], h.connections[n].source, h.connections[n].target)
    BY <1>3 DEF GraphSound
  <2> QED BY <1>6, <1>7, <2>1, KindsDecide
<1>9. GraphSound(h)
  BY <1>3, <1>4, <1>6, <1>7, <1>8 DEF GraphSound
<1> QED BY <1>1, <1>9

LEMMA ShowingKeepsScene ==
  ASSUME NEW g, GraphSound(g), SceneGraph(g), NEW id, NEW expanded
  PROVE  SceneGraph([g EXCEPT !.modules[id].expanded = expanded])
<1>1. PICK ms, h : /\ ms = [g.modules EXCEPT ![id].expanded = expanded]
                   /\ h = [g EXCEPT !.modules[id].expanded = expanded]
  OBVIOUS
<1>2. h = [g EXCEPT !.modules = ms]
  BY <1>1
<1>3. h.order = g.order /\ h.connections = g.connections /\ h.modules = ms
  BY <1>2 DEF GraphSound
<1>4. DOMAIN ms = DOMAIN g.modules
  BY <1>1
<1>5. SceneGraph(h)
  BY <1>3, <1>4 DEF SceneGraph
<1> QED BY <1>1, <1>5

-----------------------------------------------------------------------------
(* Loading.                                                                *)

Shows(c, record) ==
  /\ c.id = record.id /\ c.class = record.class /\ c.status = record.status
  /\ {c.source, c.target} = {record.ends[1], record.ends[2]}

(* What has come of the first n connections, unless one was refused.       *)
LoadedSoFar(loading, bare, records, n) ==
  /\ loading = [ok |-> loading.ok, graph |-> loading.graph]
  /\ loading.ok =>
       /\ GraphSound(loading.graph)
       /\ loading.graph.modules = bare.modules /\ loading.graph.order = bare.order
       /\ Len(loading.graph.connections) = n
       /\ \A k \in 1 .. n : Shows(loading.graph.connections[k], records[k])

LEMMA Joined ==
  ASSUME NEW g, GraphSound(g), NEW c, NEW n \in Nat, Len(g.connections) = n,
         Compatible(g, c.source, c.target, c.class),
         \A d \in ToSet(g.connections) : ~Blocks(g, d, c.source, c.target),
         NEW h, h = [g EXCEPT !.connections = Append(@, c)]
  PROVE  /\ GraphSound(h) /\ h.modules = g.modules /\ h.order = g.order
         /\ Len(h.connections) = n + 1
         /\ \A k \in 1 .. n : h.connections[k] = g.connections[k]
         /\ h.connections[n + 1] = c
<1>1. PICK s, t : s = g.connections /\ t = Append(s, c)
  OBVIOUS
<1>2. s \in Seq(ToSet(s)) /\ DOMAIN s = 1 .. n /\ Len(s) = n
  BY <1>1, EntriesOf DEF GraphSound, IsList
<1> DEFINE T == ToSet(s) \cup {c}
<1>3. s \in Seq(T) /\ c \in T
  BY <1>1, ListOver DEF GraphSound
<1> HIDE DEF T
<1>4. /\ t \in Seq(T) /\ Len(t) = n + 1 /\ t[n + 1] = c
      /\ \A k \in 1 .. n : t[k] = s[k]
  BY <1>1, <1>2, <1>3, SetOfAppend
<1>5. DOMAIN t = 1 .. n + 1 /\ IsList(t)
  BY <1>4, EntriesOf, ListIs
<1>6. /\ h = [order |-> h.order, modules |-> h.modules, connections |-> h.connections]
      /\ h.modules = g.modules /\ h.order = g.order /\ h.connections = t
  BY <1>1 DEF GraphSound
<1>7. SameKinds(g, h) /\ TypesKnown(h)
  BY <1>6 DEF SameKinds, GraphSound, TypesKnown
<1>8. \A k \in 1 .. n + 1 : k \in 1 .. n \/ k = n + 1
  OBVIOUS
<1>9. \A k \in 1 .. n + 1 : Compatible(g, t[k].source, t[k].target, t[k].class)
  <2>1. \A k \in 1 .. n : Compatible(g, s[k].source, s[k].target, s[k].class)
    BY <1>1, <1>2 DEF GraphSound
  <2> QED BY <1>4, <1>8, <2>1
<1>10. ASSUME NEW l \in 1 .. n + 1, NEW k \in 1 .. n + 1, l < k
       PROVE  ~Blocks(g, t[l], t[k].source, t[k].target)
  <2>1. l \in 1 .. n /\ t[l] = s[l] /\ s[l] \in ToSet(s)
    <3>1. l \in 1 .. n
      BY <1>10
    <3> QED BY <1>2, <1>4, <3>1 DEF ToSet
  <2>2. CASE k \in 1 .. n
    BY <1>1, <1>2, <1>4, <1>10, <2>1, <2>2 DEF GraphSound
  <2>3. CASE k = n + 1
    BY <1>1, <1>4, <2>1, <2>3
  <2> QED BY <1>8, <2>2, <2>3
<1>11. \A k \in 1 .. n + 1 : /\ Compatible(h, t[k].source, t[k].target, t[k].class)
                             /\ HasPort(g, t[k].source) /\ HasPort(g, t[k].target)
  <2>1. \A k \in 1 .. n + 1 : HasPort(g, t[k].source) /\ HasPort(g, t[k].target)
    BY <1>9 DEF Compatible
  <2> QED BY <1>7, <1>9, <2>1, KindsDecide
<1>12. \A l, k \in 1 .. n + 1 : l < k => ~Blocks(h, t[l], t[k].source, t[k].target)
  BY <1>7, <1>10, <1>11, KindsDecide
<1>13. h.modules = [id \in DOMAIN h.modules |-> h.modules[id]]
  BY <1>6 DEF GraphSound
<1>14. GraphSound(h)
  BY <1>5, <1>6, <1>7, <1>11, <1>12, <1>13 DEF GraphSound
<1> QED BY <1>1, <1>4, <1>6, <1>14

(* What AddRecord makes of a record that fits.                             *)
TakenAs(loading, record, source, target) ==
  [loading EXCEPT !.graph.connections = Append(@, Connected(record, source, target))]

LEMMA OneMoreLoaded ==
  ASSUME NEW loading, NEW bare, NEW records, NEW n \in Nat,
         LoadedSoFar(loading, bare, records, n)
  PROVE  LoadedSoFar(AddRecord(loading, records[n + 1]), bare, records, n + 1)
<1>1. PICK r, u : r = records[n + 1] /\ u = AddRecord(loading, r)
  OBVIOUS
<1>2. PICK a, b, g : a = r.ends[1] /\ b = r.ends[2] /\ g = loading.graph
  OBVIOUS
<1>3. \/ ~loading.ok /\ u = loading
      \/ /\ loading.ok /\ PortToPort(g, a, b, r.class) # {}
         /\ u = TakenAs(loading, r, a, b)
      \/ /\ loading.ok /\ PortToPort(g, b, a, r.class) # {}
         /\ u = TakenAs(loading, r, b, a)
      \/ u = [loading EXCEPT !.ok = FALSE]
  BY <1>1, <1>2 DEF AddRecord, TakenAs
<1>4. CASE ~loading.ok /\ u = loading
  BY <1>1, <1>4 DEF LoadedSoFar
<1>5. CASE u = [loading EXCEPT !.ok = FALSE]
  BY <1>1, <1>5 DEF LoadedSoFar
<1>6. ASSUME NEW s, NEW t, {s, t} = {a, b}, loading.ok,
             PortToPort(g, s, t, r.class) # {}, u = TakenAs(loading, r, s, t)
      PROVE  LoadedSoFar(u, bare, records, n + 1)
  <2>1. PICK c, h : /\ c = Connected(r, s, t)
                    /\ h = [g EXCEPT !.connections = Append(@, c)]
    OBVIOUS
  <2>2. c.source = s /\ c.target = t /\ c.class = r.class /\ Shows(c, r)
    BY <1>2, <1>6, <2>1 DEF Connected, Shows
  <2>3. /\ GraphSound(g) /\ g.modules = bare.modules /\ g.order = bare.order
        /\ Len(g.connections) = n
    BY <1>2, <1>6 DEF LoadedSoFar
  <2>4. /\ Compatible(g, s, t, r.class)
        /\ \A d \in ToSet(g.connections) : ~Blocks(g, d, s, t)
    BY <1>6, RuleOnEach
  <2>5. /\ GraphSound(h) /\ h.modules = g.modules /\ h.order = g.order
        /\ Len(h.connections) = n + 1
        /\ \A k \in 1 .. n : h.connections[k] = g.connections[k]
        /\ h.connections[n + 1] = c
    <3>1. /\ Compatible(g, c.source, c.target, c.class)
          /\ \A d \in ToSet(g.connections) : ~Blocks(g, d, c.source, c.target)
      BY <2>2, <2>4
    <3>2. GraphSound(g) /\ Len(g.connections) = n
      BY <2>3
    <3>3. h = [g EXCEPT !.connections = Append(@, c)]
      BY <2>1
    <3> QED BY <3>1, <3>2, <3>3, Joined
  <2>6. u = [loading EXCEPT !.graph = h]
    BY <1>2, <1>6, <2>1 DEF TakenAs
  <2>7. u = [ok |-> u.ok, graph |-> u.graph] /\ u.graph = h
    BY <2>6 DEF LoadedSoFar
  <2>8. \A k \in 1 .. n + 1 : k \in 1 .. n \/ k = n + 1
    OBVIOUS
  <2>9. \A k \in 1 .. n + 1 : Shows(h.connections[k], records[k])
    <3>1. \A k \in 1 .. n : Shows(g.connections[k], records[k])
      BY <1>2, <1>6 DEF LoadedSoFar
    <3> QED BY <1>1, <2>2, <2>5, <2>8, <3>1
  <2> QED BY <2>3, <2>5, <2>7, <2>9 DEF LoadedSoFar
<1>7. CASE /\ loading.ok /\ PortToPort(g, a, b, r.class) # {}
           /\ u = TakenAs(loading, r, a, b)
  BY <1>1, <1>6, <1>7
<1>8. CASE /\ loading.ok /\ PortToPort(g, b, a, r.class) # {}
           /\ u = TakenAs(loading, r, b, a)
  <2>1. {b, a} = {a, b}
    OBVIOUS
  <2> QED BY <1>1, <1>6, <1>8, <2>1
<1> QED BY <1>3, <1>4, <1>5, <1>7, <1>8

(* f[n] is what loading is after n connections.                            *)
LoadingBy(f, g, records, n) ==
  f = [i \in 0 .. n |-> IF i = 0 THEN [ok |-> TRUE, graph |-> g]
                        ELSE AddRecord(f[i - 1], records[i])]

LEMMA LoadingExists ==
  ASSUME NEW g, NEW records, NEW m \in Nat
  PROVE  \E f : LoadingBy(f, g, records, m)
<1> DEFINE S == {n \in Nat : \E f : LoadingBy(f, g, records, n)}
           start == [ok |-> TRUE, graph |-> g]
<1>1. 0 \in S
  <2> DEFINE f == [i \in 0 .. 0 |-> start]
  <2>1. \A i \in 0 .. 0 : i = 0
    OBVIOUS
  <2>2. LoadingBy(f, g, records, 0)
    BY <2>1 DEF LoadingBy
  <2> QED BY <2>2
<1>2. ASSUME NEW n \in Nat, n \in S PROVE n + 1 \in S
  <2>1. PICK f : LoadingBy(f, g, records, n)
    BY <1>2
  <2> DEFINE last == AddRecord(f[n], records[n + 1])
             e == [i \in 0 .. n + 1 |-> IF i = n + 1 THEN last ELSE f[i]]
  <2>2. (\A i \in 0 .. n : e[i] = f[i]) /\ e[n + 1] = last
    <3> HIDE DEF last
    <3> QED OBVIOUS
  <2>3. ASSUME NEW i \in 0 .. n + 1
        PROVE  e[i] = IF i = 0 THEN start ELSE AddRecord(e[i - 1], records[i])
    <3> HIDE DEF e, start
    <3>1. CASE i = n + 1
      <4>1. i # 0 /\ i - 1 = n /\ n \in 0 .. n /\ e[n] = f[n]
        BY <2>2, <3>1
      <4> QED BY <2>2, <3>1, <4>1
    <3>2. CASE i \in 0 .. n
      <4>1. e[i] = f[i] /\ (i # 0 => i - 1 \in 0 .. n /\ e[i - 1] = f[i - 1])
        BY <2>2, <3>2
      <4>2. f[i] = IF i = 0 THEN start ELSE AddRecord(f[i - 1], records[i])
        BY <2>1, <3>2 DEF LoadingBy, start
      <4> HIDE DEF last
      <4> QED BY <4>1, <4>2
    <3> QED BY <3>1, <3>2
  <2>4. LoadingBy(e, g, records, n + 1)
    BY <2>3 DEF LoadingBy
  <2> QED BY <2>4
<1>3. Nat \subseteq S
  <2> HIDE DEF S
  <2> QED BY <1>1, <1>2, OneByOne
<1> QED BY <1>3

LEMMA LoadedByOne ==
  ASSUME NEW g, GraphSound(g), g.connections = << >>, NEW records, NEW m \in Nat,
         NEW f, LoadingBy(f, g, records, m)
  PROVE  LoadedSoFar(f[m], g, records, m)
<1> DEFINE S == {n \in Nat : n <= m => LoadedSoFar(f[n], g, records, n)}
<1>1. 0 \in S
  <2>1. f[0] = [ok |-> TRUE, graph |-> g]
    BY DEF LoadingBy
  <2>2. \A k \in 1 .. 0 : FALSE
    OBVIOUS
  <2>3. Len(g.connections) = 0
    OBVIOUS
  <2> QED BY <2>1, <2>2, <2>3 DEF LoadedSoFar
<1>2. ASSUME NEW n \in Nat, n \in S PROVE n + 1 \in S
  <2> SUFFICES ASSUME n + 1 <= m PROVE LoadedSoFar(f[n + 1], g, records, n + 1)
    OBVIOUS
  <2>1. LoadedSoFar(f[n], g, records, n)
    BY <1>2
  <2>2. PICK k \in 0 .. m : k = n + 1 /\ k # 0 /\ k - 1 = n
    <3>1. n + 1 \in 0 .. m /\ n + 1 # 0 /\ n + 1 - 1 = n
      OBVIOUS
    <3> QED BY <3>1
  <2>3. f[k] = AddRecord(f[n], records[k])
    BY <2>2 DEF LoadingBy
  <2> QED BY <2>1, <2>2, <2>3, OneMoreLoaded
<1>3. Nat \subseteq S
  <2> HIDE DEF S
  <2> QED BY <1>1, <1>2, OneByOne
<1>4. m \in S
  BY <1>3
<1> QED BY <1>4

(* The modules of a list of records.                                       *)
TypesOfRecords(records) == \A n \in DOMAIN records : records[n].type \in Types

LEMMA ModulesMade ==
  ASSUME NEW T, NEW records \in Seq(T), TypesOfRecords(records)
  PROVE  /\ GraphSound(ModulesOf(records)) /\ ModulesOf(records).connections = << >>
         /\ DOMAIN ModulesOf(records).modules = {r.id : r \in ToSet(records)}
         /\ IsList(ModulesOf(records).order)
         /\ ToSet(ModulesOf(records).order) = DOMAIN ModulesOf(records).modules
         /\ \A id \in DOMAIN ModulesOf(records).modules : \E n \in DOMAIN records :
              records[n].id = id /\ ModulesOf(records).modules[id] = ModuleOf(records[n])
<1> DEFINE order == [n \in DOMAIN records |-> records[n].id]
           Module(id) == ModuleOf(records[CHOOSE n \in DOMAIN order : order[n] = id])
<1>1. PICK ms : ms = [id \in ToSet(order) |-> Module(id)]
  OBVIOUS
<1>2. PICK g : g = ModulesOf(records)
  OBVIOUS
<1>3. g = [order |-> order, modules |-> ms, connections |-> << >>]
  BY <1>1, <1>2 DEF ModulesOf
<1>4. ToSet(order) = {r.id : r \in ToSet(records)}
  BY DEF ToSet
<1>5. ASSUME NEW id \in DOMAIN ms
      PROVE  \E n \in DOMAIN records : records[n].id = id /\ ms[id] = ModuleOf(records[n])
  <2> DEFINE k == CHOOSE n \in DOMAIN order : order[n] = id
  <2>1. id \in ToSet(order)
    BY <1>1
  <2>2. k \in DOMAIN order /\ order[k] = id
    BY <2>1 DEF ToSet
  <2>3. ms[id] = ModuleOf(records[k])
    BY <1>1, <2>1
  <2> HIDE DEF k
  <2> QED BY <2>2, <2>3
<1>6. TypesKnown(g)
  <2>1. \A r : ModuleOf(r).type = r.type
    BY DEF ModuleOf
  <2> HIDE DEF order
  <2> QED BY <1>3, <1>5, <2>1 DEF TypesKnown, TypesOfRecords
<1>7. GraphSound(g)
  <2>1. g.modules = ms /\ g.connections = << >> /\ DOMAIN << >> = {}
    BY <1>3
  <2>2. << >> \in Seq({}) /\ ToSet(<< >>) = {}
    BY DEF ToSet
  <2>3. g = [order |-> g.order, modules |-> g.modules, connections |-> g.connections]
    BY <1>3
  <2>4. ms = [id \in DOMAIN ms |-> ms[id]]
    BY <1>1
  <2> QED BY <1>6, <2>1, <2>2, <2>3, <2>4 DEF GraphSound, IsList
<1>8. g.modules = ms /\ g.connections = << >> /\ DOMAIN ms = ToSet(order) /\ g.order = order
  BY <1>1, <1>3
<1>9. IsList(order)
  <2>1. PICK m \in Nat : DOMAIN records = 1 .. m
    BY EntriesOf
  <2>2. order \in [1 .. m -> ToSet(order)]
    BY <2>1 DEF ToSet
  <2> HIDE DEF order
  <2> QED BY <2>1, <2>2, SequenceOf DEF IsList
<1> HIDE DEF order
<1> QED BY <1>2, <1>4, <1>5, <1>7, <1>8, <1>9

-----------------------------------------------------------------------------
(* The records of a design.                                                *)

LEMMA DesignParts ==
  ASSUME NEW d, IsDesign(d)
  PROVE  /\ d.components \in Seq(Instances) /\ d.components # << >>
         /\ ToSet(d.components) \subseteq Instances
         /\ \A i \in Instances :
              d.graph[i] = NoGraph \/ (i \in ToSet(d.components) /\ IsGraphConfig(d.graph[i]))
<1>1. d.components \in Seq(Instances) /\ d.components # << >>
  BY DEF IsDesign
<1> QED BY <1>1, SetOfList DEF IsDesign

LEMMA ObjectsAre ==
  ASSUME NEW d, IsDesign(d), NEW i \in Instances
  PROVE  /\ IsList(ObjectsOf(d, i))
         /\ \A o \in ToSet(ObjectsOf(d, i)) : o.type \in Types
<1>1. CASE d.graph[i] = NoGraph
  <2>1. PICK o : o = OwnModule(i)
    OBVIOUS
  <2>2. ObjectsOf(d, i) = <<o>> /\ o.type \in Types
    BY <1>1, <2>1, NodeEditorAssumption DEF ObjectsOf, OwnModule
  <2>3. <<o>> \in Seq({o}) /\ DOMAIN <<o>> = {1} /\ <<o>>[1] = o
    OBVIOUS
  <2>4. ToSet(<<o>>) = {o}
    BY <2>3 DEF ToSet
  <2> QED BY <2>2, <2>3, <2>4, ListIs
<1>2. CASE d.graph[i] # NoGraph
  BY <1>2, DesignParts DEF ObjectsOf, IsGraphConfig
<1> QED BY <1>1, <1>2

LEMMA RelationshipsAre ==
  ASSUME NEW d, IsDesign(d), NEW i \in Instances
  PROVE  /\ IsList(RelationshipsOf(d, i))
         /\ \A r \in ToSet(RelationshipsOf(d, i)) : IsRelationship(r)
<1>1. CASE d.graph[i] = NoGraph
  <2>1. RelationshipsOf(d, i) = << >>
    BY <1>1 DEF RelationshipsOf
  <2>2. << >> \in Seq({}) /\ ToSet(<< >>) = {}
    BY DEF ToSet
  <2> QED BY <2>1, <2>2, ListIs
<1>2. CASE d.graph[i] # NoGraph
  BY <1>2, DesignParts DEF RelationshipsOf, IsGraphConfig
<1> QED BY <1>1, <1>2

LEMMA RecordsOfAre ==
  ASSUME NEW d, IsDesign(d), NEW i \in Instances
  PROVE  /\ IsList(RecordsOf(d, i))
         /\ \A r : r \in ToSet(RecordsOf(d, i)) <=>
                     \E o \in ToSet(ObjectsOf(d, i)) : r = Record(d, i, o)
<1>1. PICK s, t : s = ObjectsOf(d, i) /\ t = RecordsOf(d, i)
  OBVIOUS
<1>2. PICK n \in Nat : DOMAIN s = 1 .. n
  BY <1>1, ObjectsAre, EntriesOf DEF IsList
<1>3. DOMAIN t = 1 .. n /\ \A k \in 1 .. n : t[k] = Record(d, i, s[k])
  BY <1>1, <1>2 DEF RecordsOf
<1>4. t = [k \in 1 .. n |-> t[k]]
  BY <1>1, <1>2, <1>3 DEF RecordsOf
<1>5. t \in [1 .. n -> ToSet(t)]
  <2>1. \A k \in 1 .. n : t[k] \in ToSet(t)
    BY <1>3 DEF ToSet
  <2> QED BY <1>4, <2>1
<1>6. IsList(t)
  BY <1>5, SequenceOf DEF IsList
<1>7. \A r : r \in ToSet(t) <=> \E o \in ToSet(s) : r = Record(d, i, o)
  <2> SUFFICES ASSUME NEW r PROVE r \in ToSet(t) <=> \E o \in ToSet(s) : r = Record(d, i, o)
    OBVIOUS
  <2> QED BY <1>2, <1>3, Zenon DEF ToSet
<1> QED BY <1>1, <1>6, <1>7

(* Lists that are each of a component, flattened.                          *)
LEMMA FlatOfComponents ==
  ASSUME NEW d, IsDesign(d), NEW T, NEW f \in [Instances -> Seq(T)],
         NEW lists, lists = [n \in DOMAIN d.components |-> f[d.components[n]]],
         NEW t, t = FlattenSeq(lists)
  PROVE  /\ t \in Seq(T)
         /\ \A x : x \in ToSet(t) <=> \E i \in ToSet(d.components) : x \in ToSet(f[i])
<1>1. PICK s : s = d.components
  OBVIOUS
<1>2. PICK n \in Nat : DOMAIN s = 1 .. n /\ \A k \in 1 .. n : s[k] \in Instances
  <2>1. s \in Seq(Instances)
    BY <1>1, DesignParts
  <2> QED BY <2>1, EntriesOf
<1>3. DOMAIN lists = 1 .. n /\ \A k \in 1 .. n : lists[k] = f[s[k]]
  BY <1>1, <1>2
<1>4. lists \in Seq(Seq(T)) /\ Len(lists) = n
  <2>1. lists \in [1 .. n -> Seq(T)]
    BY <1>1, <1>2
  <2> QED BY <2>1, SequenceOf
<1>5. t \in Seq(T) /\ EntriesOfAll(t, lists, n)
  BY <1>4, SetOfFlat
<1>6. \A x : x \in ToSet(t) <=> \E i \in ToSet(s) : x \in ToSet(f[i])
  <2> SUFFICES ASSUME NEW x PROVE x \in ToSet(t) <=> \E i \in ToSet(s) : x \in ToSet(f[i])
    OBVIOUS
  <2>1. x \in ToSet(t) <=> \E k \in 1 .. n : x \in ToSet(lists[k])
    BY <1>5 DEF EntriesOfAll
  <2>2. (\E k \in 1 .. n : x \in ToSet(lists[k])) <=> \E k \in 1 .. n : x \in ToSet(f[s[k]])
    BY <1>3
  <2>3. (\E k \in 1 .. n : x \in ToSet(f[s[k]])) <=> \E i \in ToSet(s) : x \in ToSet(f[i])
    <3>1. ToSet(s) = {s[k] : k \in 1 .. n}
      BY <1>2 DEF ToSet
    <3> QED BY <3>1
  <2> QED BY <2>1, <2>2, <2>3
<1> QED BY <1>1, <1>5, <1>6

LEMMA ConnectionRecordsAre ==
  ASSUME NEW d, IsDesign(d)
  PROVE  /\ IsList(ConnectionRecords(d))
         /\ \A r : r \in ToSet(ConnectionRecords(d)) <=>
                     \E i \in ToSet(d.components) : r \in ToSet(RelationshipsOf(d, i))
<1> DEFINE T == UNION {ToSet(RelationshipsOf(d, i)) : i \in Instances}
<1>1. \A i \in Instances : RelationshipsOf(d, i) \in Seq(T)
  <2>1. \A i \in Instances : /\ IsList(RelationshipsOf(d, i))
                             /\ ToSet(RelationshipsOf(d, i)) \subseteq T
    BY RelationshipsAre
  <2> HIDE DEF T
  <2> QED BY <2>1, ListOver
<1>2. PICK f : f = [i \in Instances |-> RelationshipsOf(d, i)]
  OBVIOUS
<1> HIDE DEF T
<1>3. f \in [Instances -> Seq(T)] /\ \A i \in Instances : f[i] = RelationshipsOf(d, i)
  BY <1>1, <1>2
<1>4. PICK lists : lists = [n \in DOMAIN d.components |-> f[d.components[n]]]
  OBVIOUS
<1>5. PICK t : t = FlattenSeq(lists)
  OBVIOUS
<1>6. /\ t \in Seq(T)
      /\ \A x : x \in ToSet(t) <=> \E i \in ToSet(d.components) : x \in ToSet(f[i])
  BY <1>3, <1>4, <1>5, FlatOfComponents
<1>7. \A n \in DOMAIN d.components : d.components[n] \in Instances
  BY DesignParts, EntriesOf
<1>8. lists = [n \in DOMAIN d.components |-> RelationshipsOf(d, d.components[n])]
  BY <1>3, <1>4, <1>7
<1>9. t = ConnectionRecords(d)
  BY <1>5, <1>8 DEF ConnectionRecords
<1>10. \A x : x \in ToSet(t) <=>
                \E i \in ToSet(d.components) : x \in ToSet(RelationshipsOf(d, i))
  BY <1>3, <1>6, DesignParts
<1> QED BY <1>6, <1>9, <1>10, ListIs

LEMMA ModuleRecordsAre ==
  ASSUME NEW d, IsDesign(d)
  PROVE  /\ IsList(ModuleRecords(d)) /\ TypesOfRecords(ModuleRecords(d))
         /\ \A r : r \in ToSet(ModuleRecords(d)) <=>
                     \E i \in ToSet(d.components) : \E o \in ToSet(ObjectsOf(d, i)) :
                       r = Record(d, i, o)
<1> DEFINE T == UNION {ToSet(RecordsOf(d, i)) : i \in Instances}
           Own(i)        == IF d.graph[i] = NoGraph THEN RecordsOf(d, i) ELSE <<>>
           Configured(i) == IF d.graph[i] = NoGraph THEN <<>> ELSE RecordsOf(d, i)
<1>1. \A i \in Instances : Own(i) \in Seq(T) /\ Configured(i) \in Seq(T)
  <2>1. \A i \in Instances : IsList(RecordsOf(d, i)) /\ ToSet(RecordsOf(d, i)) \subseteq T
    BY RecordsOfAre
  <2> HIDE DEF T
  <2>2. \A i \in Instances : RecordsOf(d, i) \in Seq(T) /\ << >> \in Seq(T)
    BY <2>1, ListOver
  <2> QED BY <2>2
<1>2. PICK f, h : f = [i \in Instances |-> Own(i)] /\ h = [i \in Instances |-> Configured(i)]
  OBVIOUS
<1>3. ASSUME NEW i \in Instances, NEW x
      PROVE  (x \in ToSet(f[i]) \/ x \in ToSet(h[i])) <=> x \in ToSet(RecordsOf(d, i))
  <2>1. ToSet(<< >>) = {}
    BY DEF ToSet
  <2>2. f[i] = Own(i) /\ h[i] = Configured(i)
    BY <1>2
  <2> QED BY <2>1, <2>2
<1>4. PICK ss, ts : /\ ss = [n \in DOMAIN d.components |-> f[d.components[n]]]
                    /\ ts = [n \in DOMAIN d.components |-> h[d.components[n]]]
  OBVIOUS
<1>5. PICK a, b, t : a = FlattenSeq(ss) /\ b = FlattenSeq(ts) /\ t = a \o b
  OBVIOUS
<1>6. ModuleRecords(d) = t
  <2>1. \A n \in DOMAIN d.components : d.components[n] \in Instances
    BY DesignParts, EntriesOf
  <2>2. /\ ss = [n \in DOMAIN d.components |-> Own(d.components[n])]
        /\ ts = [n \in DOMAIN d.components |-> Configured(d.components[n])]
    <3> HIDE DEF Own, Configured
    <3> QED BY <1>2, <1>4, <2>1
  <2> QED BY <1>5, <2>2 DEF ModuleRecords
<1> HIDE DEF T, Own, Configured
<1>7. f \in [Instances -> Seq(T)] /\ h \in [Instances -> Seq(T)]
  BY <1>1, <1>2
<1>8. /\ a \in Seq(T)
      /\ \A x : x \in ToSet(a) <=> \E i \in ToSet(d.components) : x \in ToSet(f[i])
  <2>1. ss = [n \in DOMAIN d.components |-> f[d.components[n]]]
    BY <1>4
  <2>2. a = FlattenSeq(ss)
    BY <1>5
  <2>3. f \in [Instances -> Seq(T)]
    BY <1>7
  <2> QED BY <2>1, <2>2, <2>3, FlatOfComponents
<1>9. /\ b \in Seq(T)
      /\ \A x : x \in ToSet(b) <=> \E i \in ToSet(d.components) : x \in ToSet(h[i])
  <2>1. ts = [n \in DOMAIN d.components |-> h[d.components[n]]]
    BY <1>4
  <2>2. b = FlattenSeq(ts)
    BY <1>5
  <2>3. h \in [Instances -> Seq(T)]
    BY <1>7
  <2> QED BY <2>1, <2>2, <2>3, FlatOfComponents
<1>10. t \in Seq(T) /\ ToSet(t) = ToSet(a) \cup ToSet(b)
  BY <1>5, <1>8, <1>9, SetOfTwo
<1>11. ASSUME NEW x
       PROVE  x \in ToSet(t) <=>
                \E i \in ToSet(d.components) : \E o \in ToSet(ObjectsOf(d, i)) : x = Record(d, i, o)
  <2>1. x \in ToSet(t) <=> \E i \in ToSet(d.components) : x \in ToSet(RecordsOf(d, i))
    BY <1>3, <1>8, <1>9, <1>10, DesignParts
  <2> QED BY <2>1, DesignParts, RecordsOfAre
<1>12. TypesOfRecords(t)
  <2> SUFFICES ASSUME NEW n \in DOMAIN t PROVE t[n].type \in Types
    BY DEF TypesOfRecords
  <2>1. t[n] \in ToSet(t)
    BY DEF ToSet
  <2>2. PICK i \in ToSet(d.components) :
          \E o \in ToSet(ObjectsOf(d, i)) : t[n] = Record(d, i, o)
    BY <1>11, <2>1
  <2>3. PICK o \in ToSet(ObjectsOf(d, i)) : t[n] = Record(d, i, o)
    BY <2>2
  <2>4. o.type \in Types
    BY ObjectsAre, DesignParts
  <2> QED BY <2>3, <2>4 DEF Record
<1> QED BY <1>6, <1>10, <1>11, <1>12, ListIs

-----------------------------------------------------------------------------
(* A graph that shows a design.                                            *)

ModulesShown(d, g) ==
  {<<r.id, ModuleOf(r)>> : r \in {m \in ToSet(ModuleRecords(d)) : m.id \notin Instances}} =
  {<<id, g.modules[id]>> : id \in DOMAIN g.modules \ Instances}

ConnectionsShown(d, g) ==
  {<<r.id, r.class, r.status, ToSet(r.ends)>> : r \in ToSet(ConnectionRecords(d))} =
  {<<c.id, c.class, c.status, {c.source, c.target}>> : c \in ToSet(g.connections)}

LEMMA StepIs ==
  /\ InStep <=> ModulesShown(design, graph) /\ ConnectionsShown(design, graph)
  /\ InStep' <=> ModulesShown(design', graph') /\ ConnectionsShown(design', graph')
BY DEF InStep, ModulesShown, ConnectionsShown

(* What a record of a module says the graph has to show.                   *)
Says(d, id, module) ==
  \E i \in ToSet(d.components) : \E o \in ToSet(ObjectsOf(d, i)) :
    /\ o.id = id
    /\ module = [instance |-> i, type |-> o.type, expanded |-> id \in d.expanded]

LEMMA ModulesShownIs ==
  ASSUME NEW d, IsDesign(d), NEW g
  PROVE  ModulesShown(d, g) <=>
           \A id, module : id \notin Instances =>
             (Says(d, id, module) <=> id \in DOMAIN g.modules /\ module = g.modules[id])
<1> DEFINE R == {m \in ToSet(ModuleRecords(d)) : m.id \notin Instances}
           A == {<<r.id, ModuleOf(r)>> : r \in R}
           B == {<<id, g.modules[id]>> : id \in DOMAIN g.modules \ Instances}
<1>1. ASSUME NEW id, NEW module, id \notin Instances
      PROVE  <<id, module>> \in A <=> Says(d, id, module)
  <2>1. <<id, module>> \in A <=>
          \E r \in ToSet(ModuleRecords(d)) : r.id = id /\ module = ModuleOf(r)
    BY <1>1
  <2>2. (\E r \in ToSet(ModuleRecords(d)) : r.id = id /\ module = ModuleOf(r)) <=>
          \E i \in ToSet(d.components) : \E o \in ToSet(ObjectsOf(d, i)) :
            Record(d, i, o).id = id /\ module = ModuleOf(Record(d, i, o))
    BY ModuleRecordsAre
  <2>3. \A i, o : /\ Record(d, i, o).id = o.id
                  /\ ModuleOf(Record(d, i, o)) =
                       [instance |-> i, type |-> o.type, expanded |-> o.id \in d.expanded]
    BY DEF Record, ModuleOf
  <2> HIDE DEF A
  <2> QED BY <2>1, <2>2, <2>3 DEF Says
<1>2. ASSUME NEW id, NEW module, id \notin Instances
      PROVE  <<id, module>> \in B <=> id \in DOMAIN g.modules /\ module = g.modules[id]
  BY <1>2
<1>3. /\ \A x \in A : \E id, module : id \notin Instances /\ x = <<id, module>>
      /\ \A x \in B : \E id, module : id \notin Instances /\ x = <<id, module>>
  OBVIOUS
<1>4. A = B <=> ModulesShown(d, g)
  BY DEF ModulesShown
<1> HIDE DEF A, B
<1>5. A = B <=> \A id, module : id \notin Instances =>
                  (<<id, module>> \in A <=> <<id, module>> \in B)
  BY <1>3
<1> QED BY <1>1, <1>2, <1>4, <1>5

(* What is loaded fits together and shows the design.                      *)
LEMMA LoadedGraph ==
  ASSUME NEW d, IsDesign(d), Loaded(d).ok
  PROVE  /\ GraphSound(Loaded(d).graph) /\ SceneGraph(Loaded(d).graph)
         /\ ModulesShown(d, Loaded(d).graph) /\ ConnectionsShown(d, Loaded(d).graph)
<1>1. PICK ms, cs : ms = ModuleRecords(d) /\ cs = ConnectionRecords(d)
  OBVIOUS
<1>2. RecordsFit(ms, cs) /\ Loaded(d) = Populated(ms, cs)
  <2>1. Loaded(d) = IF RecordsFit(ms, cs) THEN Populated(ms, cs) ELSE [ok |-> FALSE]
    BY <1>1 DEF Loaded
  <2> QED BY <2>1
<1>3. ms \in Seq(ToSet(ms)) /\ TypesOfRecords(ms) /\ cs \in Seq(ToSet(cs))
  BY <1>1, ModuleRecordsAre, ConnectionRecordsAre DEF IsList
<1>4. PICK m \in Nat : m = Len(cs) /\ DOMAIN cs = 1 .. m
  BY <1>3, EntriesOf
<1>5. PICK g : g = ModulesOf(ms)
  OBVIOUS
<1>6. /\ GraphSound(g) /\ g.connections = << >>
      /\ IsList(g.order) /\ ToSet(g.order) = DOMAIN g.modules
      /\ DOMAIN g.modules = {r.id : r \in ToSet(ms)}
      /\ \A id \in DOMAIN g.modules : \E n \in DOMAIN ms :
           ms[n].id = id /\ g.modules[id] = ModuleOf(ms[n])
  BY <1>3, <1>5, ModulesMade
<1>7. LoadedSoFar(Populated(ms, cs), g, cs, m)
  <2> DEFINE loading == CHOOSE f : LoadingBy(f, g, cs, m)
  <2>1. LoadingBy(loading, g, cs, m)
    BY LoadingExists
  <2>2. Populated(ms, cs) = loading[m]
    BY <1>4, <1>5 DEF Populated, LoadingBy
  <2> HIDE DEF loading
  <2> QED BY <1>6, <2>1, <2>2, LoadedByOne
<1>8. PICK h : h = Loaded(d).graph
  OBVIOUS
<1>9. /\ GraphSound(h) /\ h.modules = g.modules /\ h.order = g.order
      /\ Len(h.connections) = m
      /\ \A k \in 1 .. m : Shows(h.connections[k], cs[k])
  BY <1>2, <1>7, <1>8 DEF LoadedSoFar
<1>10. ModulesShown(d, h)
  <2>1. \A r \in ToSet(ms) : r.id \in DOMAIN g.modules /\ g.modules[r.id] = ModuleOf(r)
    <3> SUFFICES ASSUME NEW k \in DOMAIN ms
                 PROVE  ms[k].id \in DOMAIN g.modules /\ g.modules[ms[k].id] = ModuleOf(ms[k])
      BY DEF ToSet
    <3>1. ms[k].id \in DOMAIN g.modules
      BY <1>6 DEF ToSet
    <3>2. PICK n \in DOMAIN ms : ms[n].id = ms[k].id /\ g.modules[ms[k].id] = ModuleOf(ms[n])
      BY <1>6, <3>1
    <3>3. n = k
      BY <1>2, <3>2 DEF RecordsFit
    <3> QED BY <3>1, <3>2, <3>3
  <2>2. {<<r.id, ModuleOf(r)>> : r \in {s \in ToSet(ms) : s.id \notin Instances}} =
        {<<id, g.modules[id]>> : id \in DOMAIN g.modules \ Instances}
    <3>1. ASSUME NEW r \in ToSet(ms), r.id \notin Instances
          PROVE  \E id \in DOMAIN g.modules \ Instances :
                   <<r.id, ModuleOf(r)>> = <<id, g.modules[id]>>
      BY <2>1, <3>1
    <3>2. ASSUME NEW id \in DOMAIN g.modules \ Instances
          PROVE  \E r \in ToSet(ms) : r.id \notin Instances /\
                   <<id, g.modules[id]>> = <<r.id, ModuleOf(r)>>
      BY <1>6, <2>1
    <3> QED BY <3>1, <3>2
  <2> QED BY <1>1, <1>9, <2>2 DEF ModulesShown
<1>11. ConnectionsShown(d, h)
  <2>1. PICK hs : hs = h.connections
    OBVIOUS
  <2>2. DOMAIN hs = 1 .. m
    <3>1. hs \in Seq(ToSet(hs))
      BY <1>9, <2>1 DEF GraphSound, IsList
    <3> QED BY <1>9, <2>1, <3>1, EntriesOf
  <2>3. \A k \in 1 .. m : ToSet(cs[k].ends) = {cs[k].ends[1], cs[k].ends[2]}
    <3> SUFFICES ASSUME NEW k \in 1 .. m
                 PROVE  ToSet(cs[k].ends) = {cs[k].ends[1], cs[k].ends[2]}
      OBVIOUS
    <3>1. cs[k] \in ToSet(cs)
      BY <1>4 DEF ToSet
    <3>2. PICK i \in ToSet(d.components) : cs[k] \in ToSet(RelationshipsOf(d, i))
      BY <1>1, <3>1, ConnectionRecordsAre
    <3> QED BY <3>2, RelationshipsAre, DesignParts DEF IsRelationship
  <2> DEFINE Said(r)  == <<r.id, r.class, r.status, ToSet(r.ends)>>
             Shown(c) == <<c.id, c.class, c.status, {c.source, c.target}>>
  <2>4. \A k \in 1 .. m : Said(cs[k]) = Shown(hs[k])
    BY <1>9, <2>1, <2>3 DEF Shows
  <2>5. /\ {Said(r) : r \in ToSet(cs)} = {Said(cs[k]) : k \in 1 .. m}
        /\ {Shown(c) : c \in ToSet(hs)} = {Shown(hs[k]) : k \in 1 .. m}
    <3> HIDE DEF Said, Shown
    <3>1. ToSet(cs) = {cs[k] : k \in 1 .. m} /\ ToSet(hs) = {hs[k] : k \in 1 .. m}
      BY <1>4, <2>2 DEF ToSet
    <3>2. {Said(r) : r \in ToSet(cs)} = {Said(cs[k]) : k \in 1 .. m}
      BY <3>1
    <3>3. {Shown(c) : c \in ToSet(hs)} = {Shown(hs[k]) : k \in 1 .. m}
      BY <3>1
    <3> QED BY <3>2, <3>3
  <2>6. {Said(cs[k]) : k \in 1 .. m} = {Shown(hs[k]) : k \in 1 .. m}
    <3> HIDE DEF Said, Shown
    <3> QED BY <2>4
  <2>7. {Said(r) : r \in ToSet(cs)} = {Shown(c) : c \in ToSet(hs)}
    <3> HIDE DEF Said, Shown
    <3> QED BY <2>5, <2>6
  <2> QED BY <1>1, <2>1, <2>7 DEF ConnectionsShown
<1>12. SceneGraph(h)
  <2>1. PICK hs : hs = h.connections
    OBVIOUS
  <2>2. DOMAIN hs = 1 .. m
    <3>1. hs \in Seq(ToSet(hs))
      BY <1>9, <2>1 DEF GraphSound, IsList
    <3> QED BY <1>9, <2>1, <3>1, EntriesOf
  <2>3. ToSet(hs) = {hs[k] : k \in 1 .. m}
    BY <2>2 DEF ToSet
  <2>4. \A k, l \in 1 .. m : hs[k].id = hs[l].id => hs[k] = hs[l]
    BY <1>2, <1>4, <1>9, <2>1 DEF RecordsFit, Shows
  <2>5. \A k \in 1 .. m : Joining(hs[k]) \subseteq DOMAIN h.modules
    BY <1>9, <2>1, <2>2 DEF GraphSound, Compatible, HasPort, Joining
  <2>6. ASSUME NEW k \in 1 .. m, NEW end \in {hs[k].source, hs[k].target}
        PROVE  end = <<end[1], end[2]>>
    <3>1. cs[k] \in ToSet(cs)
      BY <1>4 DEF ToSet
    <3>2. PICK i \in ToSet(d.components) : cs[k] \in ToSet(RelationshipsOf(d, i))
      BY <1>1, <3>1, ConnectionRecordsAre
    <3>3. IsRelationship(cs[k])
      BY <3>2, RelationshipsAre, DesignParts
    <3>4. end \in {cs[k].ends[1], cs[k].ends[2]}
      BY <1>9, <2>1 DEF Shows
    <3> QED BY <3>3, <3>4 DEF IsRelationship
  <2>7. \A b, c \in ToSet(hs) : b.id = c.id => b = c
    BY <2>3, <2>4
  <2>8. \A c \in ToSet(hs) :
          /\ Joining(c) \subseteq DOMAIN h.modules
          /\ \A end \in {c.source, c.target} : end = <<end[1], end[2]>>
    BY <2>3, <2>5, <2>6
  <2> QED BY <1>6, <1>9, <2>1, <2>7, <2>8 DEF SceneGraph
<1> QED BY <1>8, <1>9, <1>10, <1>11, <1>12

-----------------------------------------------------------------------------
(* What the patches make of a design.                                      *)

LEMMA SameShape ==
  ASSUME NEW d, IsDesign(d), NEW e, e.components = d.components, e.graph = d.graph,
         e = [components |-> e.components, graph |-> e.graph, expanded |-> e.expanded,
              fractional |-> e.fractional, topologies |-> e.topologies]
  PROVE  IsDesign(e)
BY DEF IsDesign

LEMMA GraphConfigIs ==
  ASSUME NEW d, IsDesign(d), NEW i \in Instances
  PROVE  IsGraphConfig(GraphConfigOf(d, i))
<1>1. CASE d.graph[i] = NoGraph
  <2>1. IsList(<< >>) /\ ToSet(<< >>) = {}
    <3>1. << >> \in Seq({}) /\ ToSet(<< >>) = {}
      BY DEF ToSet
    <3> QED BY <3>1, ListIs
  <2>2. GraphConfigOf(d, i) = [objects |-> << >>, relationships |-> << >>]
    BY <1>1 DEF GraphConfigOf
  <2> QED BY <2>1, <2>2 DEF IsGraphConfig
<1>2. CASE d.graph[i] # NoGraph
  BY <1>2, DesignParts DEF GraphConfigOf
<1> QED BY <1>1, <1>2

(* Designs and graphs without a connection a file says to be invalid.      *)
NoneInvalid(d) ==
  \A i \in Instances : \A r \in ToSet(RelationshipsOf(d, i)) : r.status # "invalid"

GraphValid(g) == \A c \in ToSet(g.connections) : c.status # "invalid"

LEMMA SameGraphsValid ==
  ASSUME NEW d, NEW e, e.graph = d.graph, NoneInvalid(d)
  PROVE  NoneInvalid(e)
BY DEF NoneInvalid, RelationshipsOf

LEMMA ConfigValid ==
  ASSUME NEW d, NoneInvalid(d), NEW i \in Instances
  PROVE  \A r \in ToSet(GraphConfigOf(d, i).relationships) : r.status # "invalid"
<1>1. CASE d.graph[i] = NoGraph
  <2>1. GraphConfigOf(d, i).relationships = << >> /\ ToSet(<< >>) = {}
    BY <1>1 DEF GraphConfigOf, ToSet
  <2> QED BY <2>1
<1>2. CASE d.graph[i] # NoGraph
  BY <1>2 DEF NoneInvalid, RelationshipsOf, GraphConfigOf
<1> QED BY <1>1, <1>2

LEMMA ShownIsValid ==
  ASSUME NEW d, IsDesign(d), NoneInvalid(d), NEW g, ConnectionsShown(d, g)
  PROVE  GraphValid(g)
<1> SUFFICES ASSUME NEW c \in ToSet(g.connections) PROVE c.status # "invalid"
  BY DEF GraphValid
<1>1. PICK r \in ToSet(ConnectionRecords(d)) :
        <<r.id, r.class, r.status, ToSet(r.ends)>> =
        <<c.id, c.class, c.status, {c.source, c.target}>>
  BY DEF ConnectionsShown
<1>2. PICK i \in ToSet(d.components) : r \in ToSet(RelationshipsOf(d, i))
  BY ConnectionRecordsAre
<1>3. r.status # "invalid"
  BY <1>2, DesignParts DEF NoneInvalid
<1> QED BY <1>1, <1>3

LEMMA Reconfigured ==
  ASSUME NEW d, IsDesign(d), NEW i \in ToSet(d.components), NEW config, IsGraphConfig(config)
  PROVE  /\ IsDesign([d EXCEPT !.graph[i] = config])
         /\ [d EXCEPT !.graph[i] = config].components = d.components
         /\ NoneInvalid(d) /\ (\A r \in ToSet(config.relationships) : r.status # "invalid") =>
              NoneInvalid([d EXCEPT !.graph[i] = config])
<1>1. PICK gs, e : gs = [d.graph EXCEPT ![i] = config] /\ e = [d EXCEPT !.graph = gs]
  OBVIOUS
<1>2. e = [d EXCEPT !.graph[i] = config]
  BY <1>1
<1>3. /\ e = [components |-> e.components, graph |-> e.graph, expanded |-> e.expanded,
              fractional |-> e.fractional, topologies |-> e.topologies]
      /\ e.components = d.components /\ e.graph = gs
  BY <1>1 DEF IsDesign
<1>4. i \in Instances
  BY DesignParts
<1>5. /\ gs = [k \in Instances |-> gs[k]]
      /\ \A k \in Instances : gs[k] = IF k = i THEN config ELSE d.graph[k]
  BY <1>1, <1>4 DEF IsDesign
<1>6. \A k \in Instances :
        gs[k] = NoGraph \/ (k \in ToSet(d.components) /\ IsGraphConfig(gs[k]))
  BY <1>5 DEF IsDesign
<1>7. e.components \in Seq(Instances) \ {<<>>}
  BY <1>3 DEF IsDesign
<1>8. IsDesign(e)
  BY <1>3, <1>5, <1>6, <1>7 DEF IsDesign
<1>9. NoneInvalid(d) /\ (\A r \in ToSet(config.relationships) : r.status # "invalid") =>
        NoneInvalid(e)
  <2>1. \A r \in ToSet(<< >>) : r.status # "invalid"
    BY DEF ToSet
  <2> QED BY <1>3, <1>5, <2>1 DEF NoneInvalid, RelationshipsOf
<1> QED BY <1>2, <1>3, <1>8, <1>9

(* A list in a graph_config with one entry more.                           *)
LEMMA ListWith ==
  ASSUME NEW s, IsList(s), NEW e
  PROVE  IsList(Append(s, e)) /\ ToSet(Append(s, e)) = ToSet(s) \cup {e}
<1> DEFINE T == ToSet(s) \cup {e}
<1>1. s \in Seq(T) /\ e \in T
  BY ListOver
<1> HIDE DEF T
<1>2. Append(s, e) \in Seq(T) /\ ToSet(Append(s, e)) = ToSet(s) \cup {e}
  BY <1>1, SetOfAppend
<1> QED BY <1>2, ListIs

LEMMA EndsOfPair ==
  ASSUME NEW s, NEW t
  PROVE  ToSet(<<s, t>>) = {s, t}
<1>1. DOMAIN <<s, t>> = {1, 2} /\ <<s, t>>[1] = s /\ <<s, t>>[2] = t
  OBVIOUS
<1> QED BY <1>1 DEF ToSet

LEMMA LeastOf ==
  ASSUME NEW S \in SUBSET Nat, S # {}
  PROVE  \E n \in S : \A m \in Nat : m < n => m \notin S
<1> DEFINE R == OpToRel(<, Nat)
<1>1. IsWellFoundedOn(R, Nat)
  BY NatLessThanWellFounded
<1>2. PICK n \in S : \A m \in S : ~(<<m, n>> \in R)
  <2> HIDE DEF R
  <2> QED BY <1>1, WFMin
<1>3. ASSUME NEW m \in Nat, m < n PROVE m \notin S
  <2>1. <<m, n>> \in R
    BY <1>3 DEF OpToRel
  <2> HIDE DEF R
  <2> QED BY <1>2, <2>1
<1> QED BY <1>3

EditorInv ==
  /\ IsDesign(design)
  /\ active \in ToSet(design.components)
  /\ drawn \subseteq ToSet(design.components)
  /\ GraphSound(graph) /\ SceneGraph(graph)

(* What the rules offer between ends of modules that are shown.            *)
IsOption(option) ==
  /\ option.source = <<option.source[1], option.source[2]>>
  /\ option.target = <<option.target[1], option.target[2]>>
  /\ option.status # "invalid"

LEMMA OptionIs ==
  ASSUME NEW g, NEW source, NEW target, NEW from, NEW to, NEW wanted,
         NEW option \in Option(g, source, target, from, to, wanted)
  PROVE  option.source = source /\ option.target = target /\ option.status # "invalid"
<1>1. \/ option \in Declared(g, source, target, from, to)
      \/ option \in ByClass(g, source, target, from, to, wanted)
  BY DEF Option
<1>2. CASE option \in Declared(g, source, target, from, to)
  <2>1. PICK class, status : /\ class = "" /\ status = ""
                             /\ option = [source |-> source, target |-> target, class |-> class,
                                         status |-> status]
    BY <1>2 DEF Declared
  <2> QED BY <2>1
<1>3. CASE option \in ByClass(g, source, target, from, to, wanted)
  <2>1. PICK class, status : /\ status \in {"valid", "ambiguous"}
                             /\ option = [source |-> source, target |-> target, class |-> class,
                                         status |-> status]
    BY <1>3 DEF ByClass
  <2> QED BY <2>1
<1> QED BY <1>1, <1>2, <1>3

LEMMA EndIs ==
  ASSUME NEW end \in VisibleEnds
  PROVE  end = <<end[1], end[2]>>
<1>1. PICK id \in view.nodes : end \in {<<id, p>> : p \in Ports(TypeWith(graph, id))}
  BY DEF VisibleEnds
<1>2. PICK p : end = <<id, p>>
  BY <1>1
<1> QED BY <1>2

LEMMA DrawnIsOption ==
  ASSUME NEW s \in VisibleEnds, NEW t \in VisibleEnds, ConnectionCreated(s, t)
  PROVE  \E option : IsOption(option) /\ ExecuteAddConnection(option)
<1>1. PICK option : option \in PortToPort(graph, s, t, "") /\ ExecuteAddConnection(option)
  BY DEF ConnectionCreated
<1>2. PICK none, any : option \in Option(graph, s, t, none, none, any)
  BY <1>1 DEF PortToPort
<1>3. option.source = s /\ option.target = t /\ option.status # "invalid"
  BY <1>2, OptionIs
<1>4. s = <<s[1], s[2]>> /\ t = <<t[1], t[2]>>
  BY EndIs
<1> QED BY <1>1, <1>3, <1>4 DEF IsOption

LEMMA DroppedIsOption ==
  ASSUME NEW s \in VisibleEnds, NEW side, NEW id, CompleteDraft(s, side, id)
  PROVE  \E option : IsOption(option) /\ ExecuteAddConnection(option)
<1>1. PICK option \in PortToNode(graph, s, side, id) : ExecuteAddConnection(option)
  BY DEF CompleteDraft
<1>2. PICK p, end : /\ end = <<id, p>>
                    /\ \/ option \in Option(graph, s, end, side, OtherSide(side), "")
                       \/ option \in Option(graph, end, s, OtherSide(side), side, "")
  BY DEF PortToNode
<1>3. PICK from, to, any : \/ option \in Option(graph, s, end, from, to, any)
                           \/ option \in Option(graph, end, s, from, to, any)
  BY <1>2
<1>4. /\ option.status # "invalid"
      /\ \/ option.source = s /\ option.target = end
         \/ option.source = end /\ option.target = s
  BY <1>3, OptionIs
<1>5. s = <<s[1], s[2]>> /\ end = <<end[1], end[2]>>
  BY <1>2, EndIs
<1> QED BY <1>1, <1>4, <1>5 DEF IsOption

LEMMA WithRelationshipIs ==
  ASSUME EditorInv, NEW option, IsOption(option)
  PROVE  /\ IsDesign(WithRelationship(Relationship(option)))
         /\ WithRelationship(Relationship(option)).components = design.components
         /\ NoneInvalid(design) => NoneInvalid(WithRelationship(Relationship(option)))
<1>1. PICK r : r = Relationship(option)
  OBVIOUS
<1>2. IsRelationship(r) /\ r.status # "invalid"
  <2>1. r.ends = <<option.source, option.target>>
    BY <1>1 DEF Relationship
  <2>2. r.status # "invalid"
    BY <1>1 DEF Relationship, IsOption
  <2> QED BY <2>1, <2>2, EndsOfPair DEF IsRelationship, IsOption
<1>3. PICK c, rs, config : /\ c = GraphConfigOf(design, active)
                           /\ rs = Append(c.relationships, r)
                           /\ config = [c EXCEPT !.relationships = rs]
  OBVIOUS
<1>4. IsGraphConfig(c)
  BY <1>3, GraphConfigIs, DesignParts DEF EditorInv
<1>5. IsList(rs) /\ ToSet(rs) = ToSet(c.relationships) \cup {r}
  BY <1>3, <1>4, ListWith DEF IsGraphConfig
<1>6. config = [objects |-> c.objects, relationships |-> rs]
  BY <1>3, <1>4 DEF IsGraphConfig
<1>7. IsGraphConfig(config)
  BY <1>2, <1>4, <1>5, <1>6 DEF IsGraphConfig
<1>8. WithRelationship(r) = [design EXCEPT !.graph[active] = config]
  BY <1>3 DEF WithRelationship
<1>9. NoneInvalid(design) => \A q \in ToSet(rs) : q.status # "invalid"
  BY <1>2, <1>3, <1>5, ConfigValid, DesignParts DEF EditorInv
<1>10. config.relationships = rs
  BY <1>6
<1> QED BY <1>1, <1>7, <1>8, <1>9, <1>10, Reconfigured DEF EditorInv

LEMMA WithoutRelationshipIs ==
  ASSUME EditorInv, NEW id, id \in {r.id : r \in ToSet(RelationshipsOf(design, active))}
  PROVE  /\ IsDesign(WithoutRelationship(id))
         /\ WithoutRelationship(id).components = design.components
         /\ NoneInvalid(design) => NoneInvalid(WithoutRelationship(id))
<1>1. PICK c, list : c = GraphConfigOf(design, active) /\ list = c.relationships
  OBVIOUS
<1>2. IsGraphConfig(c) /\ list \in Seq(ToSet(list))
  <2>1. IsGraphConfig(c)
    BY <1>1, GraphConfigIs, DesignParts DEF EditorInv
  <2> QED BY <1>1, <2>1 DEF IsGraphConfig, IsList
<1>3. PICK k \in DOMAIN list : list[k].id = id
  <2>1. ToSet(RelationshipsOf(design, active)) \subseteq ToSet(list)
    <3>1. ToSet(<< >>) = {}
      BY DEF ToSet
    <3> QED BY <1>1, <3>1 DEF RelationshipsOf, GraphConfigOf
  <2> QED BY <2>1 DEF ToSet
<1>4. PICK m \in Nat : DOMAIN list = 1 .. m
  BY <1>2, EntriesOf
<1> DEFINE S == {n \in 1 .. m : list[n].id = id}
<1>5. PICK n \in S : \A l \in Nat : l < n => l \notin S
  <2>1. S \in SUBSET Nat /\ S # {}
    BY <1>3, <1>4
  <2> HIDE DEF S
  <2> QED BY <2>1, LeastOf
<1>6. n \in DOMAIN list /\ list[n].id = id /\ \A l \in 1 .. n - 1 : ~(list[l].id = id)
  <2>1. n \in 1 .. m /\ list[n].id = id
    OBVIOUS
  <2>2. ASSUME NEW l \in 1 .. n - 1 PROVE l \in Nat /\ l < n /\ l \in 1 .. m
    BY <2>1
  <2> QED BY <1>4, <1>5, <2>1, <2>2
<1>7. PICK p : p = CHOOSE l \in DOMAIN list :
                    list[l].id = id /\ \A q \in 1 .. l - 1 : ~(list[q].id = id)
  OBVIOUS
<1>8. p \in DOMAIN list
  <2> HIDE DEF S
  <2> QED BY <1>6, <1>7
<1>9. PICK rs, config : rs = RemoveAt(list, p) /\ config = [c EXCEPT !.relationships = rs]
  OBVIOUS
<1>10. IsList(rs) /\ ToSet(rs) \subseteq ToSet(list)
  <2>1. rs \in Seq(ToSet(list))
    BY <1>2, <1>8, <1>9, WithoutOne
  <2> QED BY <2>1, ListIs, SetOfList
<1>11. config = [objects |-> c.objects, relationships |-> rs]
  BY <1>2, <1>9 DEF IsGraphConfig
<1>12. IsGraphConfig(config)
  BY <1>1, <1>2, <1>10, <1>11 DEF IsGraphConfig
<1>13. WithoutRelationship(id) = [design EXCEPT !.graph[active] = config]
  BY <1>1, <1>7, <1>9 DEF WithoutRelationship
<1>14. NoneInvalid(design) => \A q \in ToSet(rs) : q.status # "invalid"
  BY <1>1, <1>10, ConfigValid, DesignParts DEF EditorInv
<1>15. config.relationships = rs
  BY <1>11
<1> QED BY <1>12, <1>13, <1>14, <1>15, Reconfigured DEF EditorInv

LEMMA PlacedIs ==
  ASSUME EditorInv, NEW id, NEW whole \in BOOLEAN
  PROVE  /\ IsDesign(Placed(id, whole)) /\ Placed(id, whole).components = design.components
         /\ Placed(id, whole).expanded = design.expanded
         /\ Placed(id, whole).graph = design.graph
<1>1. PICK fs, e : /\ fs = IF whole THEN design.fractional \ {id}
                           ELSE design.fractional \cup {id}
                   /\ e = [design EXCEPT !.fractional = fs]
  OBVIOUS
<1>2. e = Placed(id, whole)
  BY <1>1 DEF Placed
<1>3. /\ e = [components |-> e.components, graph |-> e.graph, expanded |-> e.expanded,
              fractional |-> e.fractional, topologies |-> e.topologies]
      /\ e.components = design.components /\ e.graph = design.graph
      /\ e.expanded = design.expanded
  BY <1>1 DEF EditorInv, IsDesign
<1> QED BY <1>2, <1>3, SameShape DEF EditorInv

LEMMA WithObjectIs ==
  ASSUME EditorInv, NEW object, object.type \in Types, NEW whole \in BOOLEAN
  PROVE  /\ IsDesign(WithObject(object, whole))
         /\ WithObject(object, whole).components = design.components
         /\ NoneInvalid(design) => NoneInvalid(WithObject(object, whole))
<1>1. PICK c, os, config : /\ c = GraphConfigOf(design, active)
                           /\ os = Append(c.objects, object)
                           /\ config = [c EXCEPT !.objects = os]
  OBVIOUS
<1>2. IsGraphConfig(c)
  BY <1>1, GraphConfigIs, DesignParts DEF EditorInv
<1>3. IsList(os) /\ ToSet(os) = ToSet(c.objects) \cup {object}
  BY <1>1, <1>2, ListWith DEF IsGraphConfig
<1>4. config = [objects |-> os, relationships |-> c.relationships]
  BY <1>1, <1>2 DEF IsGraphConfig
<1>5. IsGraphConfig(config)
  BY <1>2, <1>3, <1>4 DEF IsGraphConfig
<1>6. PICK e : e = Placed(object.id, whole)
  OBVIOUS
<1>7. IsDesign(e) /\ e.components = design.components /\ e.graph = design.graph
  BY <1>6, PlacedIs
<1>8. WithObject(object, whole) = [e EXCEPT !.graph[active] = config]
  BY <1>1, <1>6 DEF WithObject
<1>9. NoneInvalid(design) => \A q \in ToSet(config.relationships) : q.status # "invalid"
  <2>1. config.relationships = c.relationships
    BY <1>4
  <2> QED BY <1>1, <2>1, ConfigValid, DesignParts DEF EditorInv
<1>10. NoneInvalid(design) => NoneInvalid(e)
  BY <1>7, SameGraphsValid
<1> QED BY <1>5, <1>7, <1>8, <1>9, <1>10, Reconfigured DEF EditorInv

(* Objects of a component's own module are the same module.                *)
LEMMA MaterializedIs ==
  ASSUME EditorInv, NEW e,
         e = [components |-> e.components, graph |-> e.graph, expanded |-> e.expanded,
              fractional |-> e.fractional, topologies |-> e.topologies],
         e.components \in Seq(Instances) \ {<<>>},
         ToSet(design.components) \subseteq ToSet(e.components),
         e.graph = Materialized
  PROVE  /\ IsDesign(e)
         /\ \A i \in Instances : /\ ObjectsOf(e, i) = ObjectsOf(design, i)
                                 /\ RelationshipsOf(e, i) = RelationshipsOf(design, i)
<1>1. ASSUME NEW i \in Instances
      PROVE  \/ e.graph[i] = design.graph[i]
             \/ /\ i \in drawn /\ design.graph[i] = NoGraph
                /\ e.graph[i] = [objects |-> <<OwnModule(i)>>, relationships |-> <<>>]
  BY DEF Materialized
<1>2. ASSUME NEW i \in Instances, i \in drawn, design.graph[i] = NoGraph,
             e.graph[i] = [objects |-> <<OwnModule(i)>>, relationships |-> <<>>]
      PROVE  /\ i \in ToSet(e.components) /\ IsGraphConfig(e.graph[i])
             /\ ObjectsOf(e, i) = ObjectsOf(design, i)
             /\ RelationshipsOf(e, i) = RelationshipsOf(design, i)
  <2>1. i \in ToSet(e.components)
    BY <1>2 DEF EditorInv
  <2>2. ObjectsOf(design, i) = <<OwnModule(i)>> /\ RelationshipsOf(design, i) = <<>>
    BY <1>2 DEF ObjectsOf, RelationshipsOf
  <2>3. e.graph[i].objects = <<OwnModule(i)>> /\ e.graph[i].relationships = <<>>
    BY <1>2
  <2>4. ObjectsOf(e, i) = <<OwnModule(i)>> /\ RelationshipsOf(e, i) = <<>>
    BY <2>3 DEF ObjectsOf, RelationshipsOf
  <2>5. /\ IsList(<<OwnModule(i)>>) /\ IsList(<<>>)
        /\ \A o \in ToSet(<<OwnModule(i)>>) : o.type \in Types
        /\ \A r \in ToSet(<<>>) : IsRelationship(r)
    BY <2>2, ObjectsAre, RelationshipsAre DEF EditorInv
  <2>6. IsGraphConfig(e.graph[i])
    BY <1>2, <2>3, <2>5 DEF IsGraphConfig
  <2> QED BY <2>1, <2>2, <2>4, <2>6
<1>3. \A i \in Instances : /\ ObjectsOf(e, i) = ObjectsOf(design, i)
                           /\ RelationshipsOf(e, i) = RelationshipsOf(design, i)
  <2> SUFFICES ASSUME NEW i \in Instances
               PROVE  /\ ObjectsOf(e, i) = ObjectsOf(design, i)
                      /\ RelationshipsOf(e, i) = RelationshipsOf(design, i)
    OBVIOUS
  <2>1. CASE e.graph[i] = design.graph[i]
    BY <2>1 DEF ObjectsOf, RelationshipsOf
  <2> QED BY <1>1, <1>2, <2>1
<1>4. \A i \in Instances :
        e.graph[i] = NoGraph \/ (i \in ToSet(e.components) /\ IsGraphConfig(e.graph[i]))
  <2>1. \A i \in Instances :
          \/ design.graph[i] = NoGraph
          \/ i \in ToSet(design.components) /\ IsGraphConfig(design.graph[i])
    BY DesignParts DEF EditorInv
  <2> QED BY <1>1, <1>2, <2>1
<1>5. e.graph = [i \in Instances |-> e.graph[i]]
  BY DEF Materialized
<1>6. IsDesign(e)
  BY <1>4, <1>5 DEF IsDesign
<1> QED BY <1>3, <1>6

-----------------------------------------------------------------------------
(* Designs that say the same.                                              *)

LEMMA SameModules ==
  ASSUME NEW d, IsDesign(d), NEW e, IsDesign(e), NEW g, e.expanded = d.expanded,
         \A i \in ToSet(d.components) : /\ i \in ToSet(e.components)
                                        /\ ObjectsOf(e, i) = ObjectsOf(d, i),
         \A i \in ToSet(e.components) : i \in ToSet(d.components) \/
           (\A o \in ToSet(ObjectsOf(e, i)) : o.id \in Instances),
         ModulesShown(d, g)
  PROVE  ModulesShown(e, g)
<1>1. ASSUME NEW id, NEW module, id \notin Instances
      PROVE  Says(d, id, module) <=> Says(e, id, module)
  BY <1>1 DEF Says
<1> QED BY <1>1, ModulesShownIs

LEMMA SameConnections ==
  ASSUME NEW d, IsDesign(d), NEW e, IsDesign(e), NEW g,
         \A i \in ToSet(d.components) : /\ i \in ToSet(e.components)
                                        /\ RelationshipsOf(e, i) = RelationshipsOf(d, i),
         \A i \in ToSet(e.components) : i \in ToSet(d.components) \/
           RelationshipsOf(e, i) = <<>>,
         ConnectionsShown(d, g)
  PROVE  ConnectionsShown(e, g)
<1>1. ToSet(<<>>) = {}
  BY DEF ToSet
<1>2. ASSUME NEW r
      PROVE  r \in ToSet(ConnectionRecords(d)) <=> r \in ToSet(ConnectionRecords(e))
  BY <1>1, ConnectionRecordsAre
<1>3. ToSet(ConnectionRecords(d)) = ToSet(ConnectionRecords(e))
  BY <1>2
<1> QED BY <1>3 DEF ConnectionsShown

(* Designs with the same components and graph_configs.                     *)
LEMMA SameGraphs ==
  ASSUME NEW d, IsDesign(d), NEW e, IsDesign(e), NEW g,
         e.components = d.components, e.graph = d.graph
  PROVE  /\ ConnectionsShown(d, g) => ConnectionsShown(e, g)
         /\ ModulesShown(d, g) /\ e.expanded = d.expanded => ModulesShown(e, g)
<1>1. \A i : ObjectsOf(e, i) = ObjectsOf(d, i) /\ RelationshipsOf(e, i) = RelationshipsOf(d, i)
  BY DEF ObjectsOf, RelationshipsOf
<1> QED BY <1>1, SameModules, SameConnections

(* A module and its flag in the design.                                    *)
FlagSet(d, e, g, h, id, expanded) ==
  /\ e.components = d.components /\ e.graph = d.graph
  /\ e.expanded = IF expanded THEN d.expanded \cup {id} ELSE d.expanded \ {id}
  /\ h.modules = [g.modules EXCEPT ![id].expanded = expanded]

LEMMA FlagShown ==
  ASSUME NEW d, IsDesign(d), NEW e, IsDesign(e), NEW g, NEW h, NEW id,
         NEW expanded \in BOOLEAN,
         FlagSet(d, e, g, h, id, expanded), ModulesShown(d, g)
  PROVE  ModulesShown(e, h)
<1> USE DEF FlagSet
<1>1. \A i : ObjectsOf(e, i) = ObjectsOf(d, i)
  BY DEF ObjectsOf
<1>2. SUFFICES ASSUME NEW k, NEW module, k \notin Instances
               PROVE  Says(e, k, module) <=> k \in DOMAIN h.modules /\ module = h.modules[k]
  BY ModulesShownIs
<1>3. \A m : Says(d, k, m) <=> k \in DOMAIN g.modules /\ m = g.modules[k]
  BY <1>2, ModulesShownIs
<1>4. DOMAIN h.modules = DOMAIN g.modules
  OBVIOUS
<1>5. CASE k # id
  <2>1. k \in e.expanded <=> k \in d.expanded
    BY <1>5
  <2>2. Says(e, k, module) <=> Says(d, k, module)
    BY <1>1, <2>1 DEF Says
  <2>3. k \in DOMAIN g.modules => h.modules[k] = g.modules[k]
    BY <1>5
  <2> QED BY <1>3, <1>4, <2>2, <2>3
<1>6. CASE k = id
  <2>1. (k \in e.expanded) = expanded
    BY <1>6
  <2>2. Says(e, k, module) <=> \E i \in ToSet(d.components) : \E o \in ToSet(ObjectsOf(d, i)) :
          o.id = k /\ module = [instance |-> i, type |-> o.type, expanded |-> expanded]
    BY <1>1, <2>1 DEF Says
  <2>3. ASSUME NEW i \in ToSet(d.components), NEW o \in ToSet(ObjectsOf(d, i)), o.id = k
        PROVE  /\ k \in DOMAIN h.modules
               /\ h.modules[k] = [instance |-> i, type |-> o.type, expanded |-> expanded]
    <3>1. PICK m : m = [instance |-> i, type |-> o.type, expanded |-> k \in d.expanded]
      OBVIOUS
    <3>2. Says(d, k, m)
      BY <2>3, <3>1 DEF Says
    <3>3. k \in DOMAIN g.modules /\ g.modules[k] = m
      BY <1>3, <3>2
    <3>4. h.modules[k] = [m EXCEPT !.expanded = expanded]
      BY <1>6, <3>3
    <3>5. [m EXCEPT !.expanded = expanded] = [instance |-> i, type |-> o.type, expanded |-> expanded]
      BY <3>1
    <3> QED BY <1>4, <3>3, <3>4, <3>5
  <2>4. ASSUME k \in DOMAIN h.modules
        PROVE  \E i \in ToSet(d.components) : \E o \in ToSet(ObjectsOf(d, i)) : o.id = k
    BY <1>3, <1>4, <2>4 DEF Says
  <2> QED BY <2>2, <2>3, <2>4
<1> QED BY <1>5, <1>6

-----------------------------------------------------------------------------
(* What each step leaves: the invariant, and a graph that shows the design *)
(* after an edit that was not refused.                                     *)

AllValid == NoneInvalid(design) /\ GraphValid(graph)

Keeps ==
  /\ EditorInv'
  /\ design' # design /\ ~stale' /\ InStep => InStep'
  /\ AllValid => AllValid'

LEMMA HeadIs ==
  ASSUME NEW T, NEW s \in Seq(T), s # <<>>
  PROVE  Head(s) \in ToSet(s)
<1>1. PICK n \in Nat : n = Len(s) /\ DOMAIN s = 1 .. n
  BY EntriesOf
<1>2. n # 0
  BY <1>1, EmptySeq
<1>3. Head(s) = s[1] /\ 1 \in 1 .. n
  BY <1>2
<1> QED BY <1>1, <1>3 DEF ToSet

LEMMA RebuildShows ==
  ASSUME EditorInv, NEW next, IsDesign(next), next.components = design.components,
         design' = next, Rebuild(next)
  PROVE  /\ GraphSound(graph') /\ SceneGraph(graph')
         /\ active' \in ToSet(design'.components)
         /\ ~stale' => ModulesShown(design', graph') /\ ConnectionsShown(design', graph')
         /\ NoneInvalid(next) /\ GraphValid(graph) => GraphValid(graph')
<1>1. CASE Loaded(next).ok
  <2>1. graph' = Loaded(next).graph /\ active' = Head(next.components)
    BY <1>1 DEF Rebuild
  <2>2. Head(next.components) \in ToSet(next.components)
    BY DesignParts, HeadIs
  <2>3. ConnectionsShown(next, graph')
    BY <1>1, <2>1, LoadedGraph
  <2>4. NoneInvalid(next) => GraphValid(graph')
    BY <2>3, ShownIsValid
  <2> QED BY <1>1, <2>1, <2>2, <2>4, LoadedGraph
<1>2. CASE ~Loaded(next).ok
  BY <1>2 DEF Rebuild, EditorInv
<1> QED BY <1>1, <1>2

LEMMA GraphlessIs ==
  ASSUME NEW d
  PROVE  Graphless(d) \subseteq ToSet(d.components)
BY DEF Graphless

LEMMA RebuiltKeeps ==
  ASSUME EditorInv, NEW next, IsDesign(next), next.components = design.components,
         NoneInvalid(design) => NoneInvalid(next),
         design' = next, drawn' = Graphless(next), Rebuild(next)
  PROVE  Keeps
<1>1. EditorInv'
  BY RebuildShows, GraphlessIs DEF EditorInv
<1>2. design' # design /\ ~stale' /\ InStep => InStep'
  BY <1>1, RebuildShows, StepIs
<1>3. AllValid => AllValid'
  BY RebuildShows DEF AllValid
<1> QED BY <1>1, <1>2, <1>3 DEF Keeps

LEMMA StillKeeps ==
  ASSUME EditorInv, UNCHANGED <<design, drawn, graph>>,
         active' \in ToSet(design.components)
  PROVE  Keeps
<1>1. EditorInv'
  BY DEF EditorInv
<1>2. AllValid => AllValid'
  BY DEF AllValid
<1> QED BY <1>1, <1>2 DEF Keeps

LEMMA OnlyRefreshKeeps ==
  ASSUME EditorInv, OnlyRefresh
  PROVE  Keeps
BY StillKeeps DEF OnlyRefresh, EditorInv

(* A patch that changes no flag of a module.                               *)
LEMMA CommitKeeps ==
  ASSUME EditorInv, NEW next, IsDesign(next), next.components = design.components,
         next.expanded = design.expanded, next.graph = design.graph, Commit(next)
  PROVE  Keeps
<1>1. design' = next /\ drawn' = Graphless(next)
  BY DEF Commit
<1>2. CASE OnlyViewsChanged(design, next)
  <2>1. UNCHANGED <<graph, active>>
    BY <1>2 DEF Commit
  <2>2. InStep => InStep'
    BY <1>1, <2>1, SameGraphs, StepIs DEF EditorInv
  <2>3. EditorInv'
    BY <1>1, <2>1, GraphlessIs DEF EditorInv
  <2>4. AllValid => AllValid'
    BY <1>1, <2>1, SameGraphsValid DEF AllValid
  <2> QED BY <2>2, <2>3, <2>4 DEF Keeps
<1>3. CASE ~OnlyViewsChanged(design, next)
  <2>1. Rebuild(next)
    BY <1>3 DEF Commit
  <2>2. NoneInvalid(design) => NoneInvalid(next)
    BY SameGraphsValid
  <2> QED BY <1>1, <2>1, <2>2, RebuiltKeeps
<1> QED BY <1>2, <1>3

LEMMA AddConnectionKeeps ==
  ASSUME EditorInv, NEW option, IsOption(option), ExecuteAddConnection(option)
  PROVE  Keeps
<1>1. CASE stale
  BY <1>1, OnlyRefreshKeeps DEF ExecuteAddConnection
<1>2. CASE ~stale
  <2>1. PICK next : next = WithRelationship(Relationship(option))
    OBVIOUS
  <2>2. design' = next /\ drawn' = Graphless(next) /\ Rebuild(next)
    BY <1>2, <2>1 DEF ExecuteAddConnection, CommitAndRefresh, Rebuild
  <2> QED BY <2>1, <2>2, WithRelationshipIs, RebuiltKeeps
<1> QED BY <1>1, <1>2

LEMMA DeletedKeeps ==
  ASSUME EditorInv, NEW id, ConnectionDeleted(id)
  PROVE  Keeps
<1>1. CASE stale \/ id \notin {r.id : r \in ToSet(RelationshipsOf(design, active))}
  BY <1>1, OnlyRefreshKeeps DEF ConnectionDeleted
<1>2. CASE ~stale /\ id \in {r.id : r \in ToSet(RelationshipsOf(design, active))}
  <2>1. PICK next : next = WithoutRelationship(id)
    OBVIOUS
  <2>2. design' = next /\ drawn' = Graphless(next) /\ Rebuild(next)
    BY <1>2, <2>1 DEF ConnectionDeleted, CommitAndRefresh, Rebuild
  <2> QED BY <1>2, <2>1, <2>2, WithoutRelationshipIs, RebuiltKeeps
<1> QED BY <1>1, <1>2

LEMMA MovedKeeps ==
  ASSUME EditorInv, NEW id, NEW whole \in BOOLEAN, NodeMoved(id, whole)
  PROVE  Keeps
<1>1. CASE stale
  BY <1>1, OnlyRefreshKeeps DEF NodeMoved
<1>2. CASE ~stale
  <2>1. PICK next : next = Placed(id, whole)
    OBVIOUS
  <2>2. Commit(next)
    BY <1>2, <2>1 DEF NodeMoved, Commit, Rebuild
  <2> QED BY <2>1, <2>2, PlacedIs, CommitKeeps
<1> QED BY <1>1, <1>2

LEMMA ToggledKeeps ==
  ASSUME EditorInv, NEW id, ToggleCollapsed(id)
  PROVE  Keeps
<1>1. CASE stale
  BY <1>1, OnlyRefreshKeeps DEF ToggleCollapsed
<1>2. CASE ~stale
  <2>1. PICK expanded \in BOOLEAN : expanded = ~graph.modules[id].expanded
    OBVIOUS
  <2>2. PICK es, e : /\ es = IF expanded THEN design.expanded \cup {id}
                             ELSE design.expanded \ {id}
                     /\ e = [design EXCEPT !.expanded = es]
    OBVIOUS
  <2>3. PICK h : h = [graph EXCEPT !.modules[id].expanded = expanded]
    OBVIOUS
  <2>4. design' = e /\ drawn' = Graphless(design) /\ graph' = h /\ active' = active
    <3>1. SetCollapsed(id, ~graph.modules[id].expanded)
      BY <1>2 DEF ToggleCollapsed
    <3>2. /\ design' = [design EXCEPT !.expanded = IF expanded THEN @ \cup {id} ELSE @ \ {id}]
          /\ drawn' = Graphless(design)
          /\ graph' = [graph EXCEPT !.modules[id].expanded = expanded] /\ active' = active
      BY <2>1, <3>1, Zenon DEF SetCollapsed, SetExpanded
    <3> QED BY <2>2, <2>3, <3>2, Zenon
  <2>5. /\ e = [components |-> e.components, graph |-> e.graph, expanded |-> e.expanded,
                fractional |-> e.fractional, topologies |-> e.topologies]
        /\ e.components = design.components /\ e.graph = design.graph /\ e.expanded = es
    BY <2>2 DEF EditorInv, IsDesign
  <2>6. IsDesign(e)
    BY <2>5, SameShape DEF EditorInv
  <2>7. GraphSound(h) /\ SceneGraph(h)
    BY <2>3, ShowingKeepsSound, ShowingKeepsScene DEF EditorInv
  <2>8. /\ h.modules = [graph.modules EXCEPT ![id].expanded = expanded]
        /\ h.connections = graph.connections
    BY <2>3 DEF EditorInv, GraphSound
  <2>9. ModulesShown(design, graph) => ModulesShown(e, h)
    <3>1. IsDesign(design)
      BY DEF EditorInv
    <3>2. e.expanded = IF expanded THEN design.expanded \cup {id} ELSE design.expanded \ {id}
      BY <2>2, <2>5, Zenon
    <3>3. FlagSet(design, e, graph, h, id, expanded)
      BY <2>5, <2>8, <3>2, Zenon DEF FlagSet
    <3> QED BY <2>1, <2>6, <3>1, <3>3, FlagShown
  <2>10. ConnectionsShown(design, graph) => ConnectionsShown(e, h)
    <3>1. ConnectionsShown(design, graph) => ConnectionsShown(e, graph)
      BY <2>5, <2>6, SameGraphs DEF EditorInv
    <3> QED BY <2>8, <3>1 DEF ConnectionsShown
  <2>11. drawn' \subseteq ToSet(e.components)
    BY <2>4, <2>5, GraphlessIs
  <2>12. EditorInv'
    BY <2>4, <2>5, <2>6, <2>7, <2>11 DEF EditorInv
  <2>13. InStep => InStep'
    BY <2>4, <2>9, <2>10, StepIs
  <2>14. AllValid => AllValid'
    BY <2>4, <2>5, <2>8, SameGraphsValid DEF AllValid, GraphValid
  <2> QED BY <2>12, <2>13, <2>14 DEF Keeps
<1> QED BY <1>1, <1>2

LEMMA CreatedKeeps ==
  ASSUME EditorInv, NEW id, NEW type, NEW whole \in BOOLEAN, CreateModule(id, type, whole)
  PROVE  Keeps
<1>1. PICK object : object = [id |-> id, type |-> type, fits |-> TRUE]
  OBVIOUS
<1>2. object.type \in Types
  BY <1>1, NodeEditorAssumption, DesignParts DEF CreateModule, EditorInv
<1>3. PICK next : next = WithObject(object, whole)
  OBVIOUS
<1>4. design' = next /\ drawn' = Graphless(next) /\ Rebuild(next)
  BY <1>1, <1>3 DEF CreateModule, CommitAndRefresh, Rebuild
<1> QED BY <1>2, <1>3, <1>4, WithObjectIs, RebuiltKeeps

LEMMA PresetKeeps ==
  ASSUME EditorInv, ApplyTopologyPreset
  PROVE  Keeps
<1>1. PICK ts, next : /\ ts = design.topologies \cup {active}
                      /\ next = [design EXCEPT !.topologies = ts]
  OBVIOUS
<1>2. Commit(next)
  BY <1>1 DEF ApplyTopologyPreset, Commit, Rebuild
<1>3. /\ next = [components |-> next.components, graph |-> next.graph, expanded |-> next.expanded,
                 fractional |-> next.fractional, topologies |-> next.topologies]
      /\ next.components = design.components /\ next.graph = design.graph
      /\ next.expanded = design.expanded
  BY <1>1 DEF EditorInv, IsDesign
<1>4. IsDesign(next)
  BY <1>3, SameShape DEF EditorInv
<1> QED BY <1>2, <1>3, <1>4, CommitKeeps

LEMMA RecordKeeps ==
  ASSUME EditorInv, EditRecord
  PROVE  Keeps
<1>1. PICK gs, e : gs = Materialized /\ e = [design EXCEPT !.graph = gs]
  OBVIOUS
<1>2. design' = e /\ drawn' = {} /\ UNCHANGED <<graph, active>>
  BY <1>1 DEF EditRecord
<1>3. /\ e = [components |-> e.components, graph |-> e.graph, expanded |-> e.expanded,
              fractional |-> e.fractional, topologies |-> e.topologies]
      /\ e.components = design.components /\ e.graph = Materialized
      /\ e.expanded = design.expanded
      /\ e.components \in Seq(Instances) \ {<<>>}
  BY <1>1 DEF EditorInv, IsDesign
<1>4. /\ IsDesign(e)
      /\ \A i \in Instances : /\ ObjectsOf(e, i) = ObjectsOf(design, i)
                              /\ RelationshipsOf(e, i) = RelationshipsOf(design, i)
  BY <1>3, MaterializedIs
<1>5. ToSet(design.components) \subseteq Instances
  BY DesignParts DEF EditorInv
<1>6. InStep => InStep'
  <2>1. ModulesShown(design, graph) => ModulesShown(e, graph)
    BY <1>3, <1>4, <1>5, SameModules DEF EditorInv
  <2>2. ConnectionsShown(design, graph) => ConnectionsShown(e, graph)
    BY <1>3, <1>4, <1>5, SameConnections DEF EditorInv
  <2> QED BY <1>2, <2>1, <2>2, StepIs
<1>7. EditorInv'
  BY <1>2, <1>3, <1>4 DEF EditorInv
<1>8. AllValid => AllValid'
  BY <1>2, <1>4 DEF AllValid, NoneInvalid
<1> QED BY <1>6, <1>7, <1>8 DEF Keeps

LEMMA AddedKeeps ==
  ASSUME EditorInv, NEW i \in Instances, AddInstance(i)
  PROVE  Keeps
<1>1. PICK cs, gs, e : /\ cs = Append(design.components, i) /\ gs = Materialized
                       /\ e = [design EXCEPT !.components = cs, !.graph = gs]
  OBVIOUS
<1>2. /\ i \notin ToSet(design.components)
      /\ design' = e /\ drawn' = {} /\ active' = i /\ graph' = graph
  BY <1>1 DEF AddInstance
<1>3. /\ e = [components |-> e.components, graph |-> e.graph, expanded |-> e.expanded,
              fractional |-> e.fractional, topologies |-> e.topologies]
      /\ e.components = cs /\ e.graph = Materialized /\ e.expanded = design.expanded
  <2>1. PICK d : d = [design EXCEPT !.components = cs]
    OBVIOUS
  <2>2. /\ d = [components |-> d.components, graph |-> d.graph, expanded |-> d.expanded,
                fractional |-> d.fractional, topologies |-> d.topologies]
        /\ d.components = cs /\ d.expanded = design.expanded
    BY <2>1 DEF EditorInv, IsDesign
  <2>3. e = [d EXCEPT !.graph = gs]
    BY <1>1, <2>1
  <2> QED BY <1>1, <2>2, <2>3
<1>4. /\ cs \in Seq(Instances) /\ cs # <<>>
      /\ ToSet(cs) = ToSet(design.components) \cup {i}
  <2>1. design.components \in Seq(Instances)
    BY DesignParts DEF EditorInv
  <2>2. cs \in Seq(Instances) /\ ToSet(cs) = ToSet(design.components) \cup {i}
    BY <1>1, <2>1, SetOfAppend
  <2>3. ToSet(<<>>) = {}
    BY DEF ToSet
  <2> QED BY <2>2, <2>3
<1>5. /\ IsDesign(e)
      /\ \A k \in Instances : /\ ObjectsOf(e, k) = ObjectsOf(design, k)
                              /\ RelationshipsOf(e, k) = RelationshipsOf(design, k)
  BY <1>3, <1>4, MaterializedIs
<1>6. ToSet(design.components) \subseteq Instances
  BY DesignParts DEF EditorInv
<1>7. /\ RelationshipsOf(e, i) = <<>>
      /\ \A o \in ToSet(ObjectsOf(e, i)) : o.id \in Instances
  <2>1. design.graph[i] = NoGraph
    BY <1>2, DesignParts DEF EditorInv
  <2>2. RelationshipsOf(e, i) = <<>> /\ ObjectsOf(e, i) = <<OwnModule(i)>>
    BY <1>5, <2>1 DEF ObjectsOf, RelationshipsOf
  <2>3. ToSet(<<OwnModule(i)>>) = {OwnModule(i)} /\ OwnModule(i).id = i
    BY DEF ToSet, OwnModule
  <2> QED BY <2>2, <2>3
<1>8. InStep => InStep'
  <2>1. ModulesShown(design, graph) => ModulesShown(e, graph)
    BY <1>3, <1>4, <1>5, <1>6, <1>7, SameModules DEF EditorInv
  <2>2. ConnectionsShown(design, graph) => ConnectionsShown(e, graph)
    BY <1>3, <1>4, <1>5, <1>6, <1>7, SameConnections DEF EditorInv
  <2> QED BY <1>2, <2>1, <2>2, StepIs
<1>9. EditorInv'
  BY <1>2, <1>3, <1>4, <1>5 DEF EditorInv
<1>10. AllValid => AllValid'
  BY <1>2, <1>5 DEF AllValid, NoneInvalid
<1> QED BY <1>8, <1>9, <1>10 DEF Keeps

-----------------------------------------------------------------------------
(* The scene.                                                              *)

Ids(cs) == {c.id : c \in cs}

Belonging(g, a) == {id \in DOMAIN g.modules : Belongs(g, a, id)}

(* Of some connections those between nodes that are shown.                 *)
Among(g, a, nodes, cs) ==
  {c \in cs : ConnectionBelongs(g, a, c) /\ Joining(c) \subseteq nodes}

SceneOf(g, a, nodes) ==
  [nodes |-> nodes, edges |-> Ids(Among(g, a, nodes, ToSet(g.connections)))]

Collapses(g, h) == TypeWith(g, h) \in Collapsible

Closed(g, h) == Collapses(g, h) /\ ~g.modules[h].expanded

Presenting(g, a, nodes, h) ==
  IF ~Collapses(g, h) THEN nodes
  ELSE IF g.modules[h].expanded THEN nodes \cup AttachedTo(g, a, h)
  ELSE nodes \ AttachedTo(g, a, h)

(* The nodes and edges a host leaves, whatever was shown before.           *)
EdgesOpen(g, a, nodes, edges, h) ==
  (edges \ Ids(ConnectionsAt(g, a, h))) \cup
  Ids(Among(g, a, nodes \cup AttachedTo(g, a, h), ConnectionsAt(g, a, h)))

EdgesClosed(g, a, nodes, edges, h) ==
  ((edges \ Ids(ConnectionsAt(g, a, h))) \
     Ids({c \in ToSet(g.connections) : Joining(c) \cap AttachedTo(g, a, h) # {}})) \cup
  Ids(Among(g, a, nodes \ AttachedTo(g, a, h),
            ConnectionsAt(g, a, h) \ AttachmentsAt(g, a, h)))

PresentingEdges(g, a, nodes, edges, h) ==
  IF ~Collapses(g, h) THEN edges
  ELSE IF g.modules[h].expanded THEN EdgesOpen(g, a, nodes, edges, h)
  ELSE EdgesClosed(g, a, nodes, edges, h)

LEMMA EnsuredNode ==
  ASSUME NEW g, NEW a, NEW nodes, NEW edges, NEW id, Belongs(g, a, id), id \notin nodes
  PROVE  EnsureModule(g, a, [nodes |-> nodes, edges |-> edges], id) =
           Presentation(g, a, [nodes |-> nodes \cup {id}, edges |-> edges], id)
<1> DEFINE before == [nodes |-> nodes, edges |-> edges]
<1>1. [before EXCEPT !.nodes = @ \cup {id}] = [nodes |-> nodes \cup {id}, edges |-> edges]
  OBVIOUS
<1>2. EnsureModule(g, a, before, id) =
        Presentation(g, a, [before EXCEPT !.nodes = @ \cup {id}], id)
  BY DEF EnsureModule
<1> HIDE DEF before
<1> QED BY <1>1, <1>2 DEF before

LEMMA Ensured ==
  ASSUME NEW g, NEW a, NEW nodes, NEW edges, NEW cs
  PROVE  EnsureConnections(g, a, [nodes |-> nodes, edges |-> edges], cs) =
           [nodes |-> nodes, edges |-> edges \cup Ids(Among(g, a, nodes, cs))]
BY DEF EnsureConnections, Ids, Joining, Among

LEMMA PresentedAs ==
  ASSUME NEW g, NEW a, NEW nodes, NEW edges, NEW h
  PROVE  Presentation(g, a, [nodes |-> nodes, edges |-> edges], h) =
           [nodes |-> Presenting(g, a, nodes, h),
            edges |-> PresentingEdges(g, a, nodes, edges, h)]
<1> DEFINE at == ConnectionsAt(g, a, h)
           by == AttachmentsAt(g, a, h)
           to == AttachedTo(g, a, h)
           before == [nodes |-> nodes, edges |-> edges]
           hidden == [nodes |-> nodes, edges |-> edges \ Ids(at)]
<1>1. [before EXCEPT !.edges = @ \ {c.id : c \in at}] = hidden
  BY DEF Ids
<1>3. ApplyExpanded(g, a, hidden, to, at) =
        [nodes |-> nodes \cup to, edges |-> EdgesOpen(g, a, nodes, edges, h)]
  <2> DEFINE left == edges \ Ids(at)
             all == nodes \cup to
  <2>1. [hidden EXCEPT !.nodes = @ \cup to] = [nodes |-> all, edges |-> left]
    OBVIOUS
  <2>2. ApplyExpanded(g, a, hidden, to, at) =
          EnsureConnections(g, a, [nodes |-> all, edges |-> left], at)
    BY <2>1 DEF ApplyExpanded
  <2>3. EdgesOpen(g, a, nodes, edges, h) = left \cup Ids(Among(g, a, all, at))
    BY DEF EdgesOpen
  <2>4. ApplyExpanded(g, a, hidden, to, at) =
          [nodes |-> all, edges |-> EdgesOpen(g, a, nodes, edges, h)]
    <3> HIDE DEF at, to, hidden, left, all
    <3> QED BY <2>2, <2>3, Ensured
  <2> QED BY <2>4
<1>4. ApplyCollapsed(g, a, hidden, to, at \ by) =
        [nodes |-> nodes \ to, edges |-> EdgesClosed(g, a, nodes, edges, h)]
  <2> DEFINE left == (edges \ Ids(at)) \
                       Ids({c \in ToSet(g.connections) : Joining(c) \cap to # {}})
  <2>1. HideNodes(g, hidden, to) = [nodes |-> nodes \ to, edges |-> left]
    BY DEF HideNodes, Ids, Joining
  <2>2. ApplyCollapsed(g, a, hidden, to, at \ by) =
          EnsureConnections(g, a, [nodes |-> nodes \ to, edges |-> left], at \ by)
    BY <2>1 DEF ApplyCollapsed
  <2>3. EdgesClosed(g, a, nodes, edges, h) = left \cup Ids(Among(g, a, nodes \ to, at \ by))
    BY DEF EdgesClosed
  <2> HIDE DEF at, by, to, hidden, left
  <2> QED BY <2>2, <2>3, Ensured
<1>5. Presentation(g, a, before, h) =
        IF ~Collapses(g, h) THEN before
        ELSE IF g.modules[h].expanded THEN ApplyExpanded(g, a, hidden, to, at)
        ELSE ApplyCollapsed(g, a, hidden, to, at \ by)
  BY <1>1 DEF Presentation, Collapses
<1> HIDE DEF at, by, to, hidden
<1> QED BY <1>3, <1>4, <1>5 DEF Presenting, PresentingEdges, to

LEMMA AttachmentIs ==
  ASSUME NEW g, NEW a, SceneGraph(g), NEW h, Collapses(g, h), NEW c \in AttachmentsAt(g, a, h),
         NEW x, x = OtherEnd(c, h)
  PROVE  /\ c \in ToSet(g.connections) /\ c \in ConnectionsAt(g, a, h)
         /\ Attaches(g, c, h, x) /\ x # h /\ Joining(c) = {h, x}
         /\ x \in Belonging(g, a)
<1>1. /\ c \in ToSet(g.connections) /\ ConnectionBelongs(g, a, c) /\ h \in Joining(c)
      /\ Attaches(g, c, h, x)
  BY DEF AttachmentsAt, ConnectionsAt, Joining
<1>2. x # h
  BY <1>1, EditorTypesAssumption DEF Attaches, Collapses
<1>3. Joining(c) = {h, x}
  BY <1>1 DEF OtherEnd, Joining
<1>4. x \in Belonging(g, a)
  <2>1. x \in DOMAIN g.modules
    BY <1>1, <1>3 DEF SceneGraph
  <2>2. Belongs(g, a, x)
    BY <1>1, <1>3 DEF ConnectionBelongs, Joining
  <2> QED BY <2>1, <2>2 DEF Belonging
<1> QED BY <1>1, <1>2, <1>3, <1>4 DEF AttachmentsAt

(* What is attached to a host that collapses is connected with it alone.   *)
Apart(g) ==
  \A c, d \in ToSet(g.connections) : \A h \in Joining(c) :
    LET x == OtherEnd(c, h)
    IN  Collapses(g, h) /\ Attaches(g, c, h, x) /\ x \in Joining(d) => h \in Joining(d)

LEMMA AttachedIs ==
  ASSUME NEW g, NEW a, SceneGraph(g), Apart(g), NEW h, Collapses(g, h),
         NEW x \in AttachedTo(g, a, h)
  PROVE  /\ x # h /\ x \in Belonging(g, a)
         /\ \A d \in ToSet(g.connections) : x \in Joining(d) => h \in Joining(d)
         /\ \E c \in AttachmentsAt(g, a, h) : Joining(c) = {h, x} /\ x = OtherEnd(c, h)
<1>1. PICK c \in AttachmentsAt(g, a, h) : x = OtherEnd(c, h)
  BY DEF AttachedTo
<1>2. /\ c \in ToSet(g.connections) /\ Attaches(g, c, h, x) /\ x # h /\ Joining(c) = {h, x}
      /\ x \in Belonging(g, a)
  BY <1>1, AttachmentIs
<1>3. \A d \in ToSet(g.connections) : x \in Joining(d) => h \in Joining(d)
  BY <1>1, <1>2 DEF Apart
<1> QED BY <1>1, <1>2, <1>3

LEMMA OneHost ==
  ASSUME NEW g, NEW a, SceneGraph(g), Apart(g), NEW h, NEW k, Collapses(g, h), Collapses(g, k),
         AttachedTo(g, a, h) \cap AttachedTo(g, a, k) # {}
  PROVE  h = k
<1>1. PICK x : x \in AttachedTo(g, a, h) /\ x \in AttachedTo(g, a, k)
  OBVIOUS
<1>2. PICK c \in AttachmentsAt(g, a, k) : Joining(c) = {k, x}
  BY <1>1, AttachedIs
<1>3. c \in ToSet(g.connections)
  BY DEF AttachmentsAt, ConnectionsAt
<1>4. h \in Joining(c) /\ h # x
  BY <1>1, <1>2, <1>3, AttachedIs
<1> QED BY <1>2, <1>4

LEMMA AtIs ==
  ASSUME NEW g, NEW a, NEW h, NEW c
  PROVE  c \in ConnectionsAt(g, a, h) <=>
           c \in ToSet(g.connections) /\ ConnectionBelongs(g, a, c) /\ h \in Joining(c)
BY DEF ConnectionsAt, Joining

LEMMA IdIn ==
  ASSUME NEW cs, NEW e
  PROVE  e \in Ids(cs) <=> \E c \in cs : e = c.id
BY DEF Ids

LEMMA OpenEdges ==
  ASSUME NEW g, NEW a, SceneGraph(g), Apart(g), NEW nodes, NEW h, Collapses(g, h)
  PROVE  EdgesOpen(g, a, nodes, Ids(Among(g, a, nodes, ToSet(g.connections))), h) =
           Ids(Among(g, a, nodes \cup AttachedTo(g, a, h), ToSet(g.connections)))
<1> DEFINE cs  == ToSet(g.connections)
           at  == ConnectionsAt(g, a, h)
           all == nodes \cup AttachedTo(g, a, h)
           old == Ids(Among(g, a, nodes, cs))
<1>1. ASSUME NEW c \in Among(g, a, all, cs), c \notin at PROVE c \in Among(g, a, nodes, cs)
  <2>1. c \in cs /\ ConnectionBelongs(g, a, c) /\ Joining(c) \subseteq all /\ h \notin Joining(c)
    BY <1>1, AtIs DEF Among
  <2>2. \A x \in Joining(c) : x \notin AttachedTo(g, a, h)
    BY <2>1, AttachedIs
  <2> QED BY <2>1, <2>2 DEF Among
<1>2. \A c \in cs, d \in cs : c.id = d.id => c = d
  BY DEF SceneGraph
<1>3. \A c \in Among(g, a, all, at) : c \in Among(g, a, all, cs)
  BY AtIs DEF Among
<1>4. \A c \in Among(g, a, all, cs) : c \in at => c \in Among(g, a, all, at)
  BY DEF Among
<1>5. \A c \in Among(g, a, nodes, cs) : c \in Among(g, a, all, cs)
  BY DEF Among
<1>6. \A c \in Among(g, a, all, cs) : c \in cs
  BY DEF Among
<1>7. \A c \in at : c \in cs
  BY AtIs
<1>8. EdgesOpen(g, a, nodes, old, h) = (old \ Ids(at)) \cup Ids(Among(g, a, all, at))
  BY DEF EdgesOpen
<1> HIDE DEF cs, at, all
<1>9. \A e : e \in (old \ Ids(at)) \cup Ids(Among(g, a, all, at)) <=>
             e \in Ids(Among(g, a, all, cs))
  <2>1. ASSUME NEW e, e \in Ids(Among(g, a, all, cs)), e \in Ids(at)
        PROVE  e \in Ids(Among(g, a, all, at))
    BY <1>2, <1>4, <1>6, <1>7, <2>1, IdIn
  <2>2. ASSUME NEW e, e \in Ids(Among(g, a, all, cs)), e \notin Ids(at)
        PROVE  e \in old
    BY <1>1, <2>2, IdIn
  <2>3. ASSUME NEW e, e \in Ids(Among(g, a, all, at)) \/ e \in old
        PROVE  e \in Ids(Among(g, a, all, cs))
    BY <1>3, <1>5, <2>3, IdIn
  <2> HIDE DEF old
  <2> QED BY <2>1, <2>2, <2>3
<1> HIDE DEF old
<1>10. EdgesOpen(g, a, nodes, old, h) = Ids(Among(g, a, all, cs))
  BY <1>8, <1>9
<1> QED BY <1>10 DEF cs, all, old

LEMMA ClosedEdges ==
  ASSUME NEW g, NEW a, SceneGraph(g), Apart(g), NEW nodes, NEW h, Collapses(g, h)
  PROVE  EdgesClosed(g, a, nodes, Ids(Among(g, a, nodes, ToSet(g.connections))), h) =
           Ids(Among(g, a, nodes \ AttachedTo(g, a, h), ToSet(g.connections)))
<1> DEFINE cs  == ToSet(g.connections)
           at  == ConnectionsAt(g, a, h)
           by  == AttachmentsAt(g, a, h)
           to  == AttachedTo(g, a, h)
           cut == {c \in cs : Joining(c) \cap to # {}}
           all == nodes \ to
           old == Ids(Among(g, a, nodes, cs))
<1>1. ASSUME NEW c \in Among(g, a, all, cs) PROVE c \notin by /\ c \notin cut
  <2>1. c \in cs /\ Joining(c) \subseteq all
    BY DEF Among
  <2>2. c \notin cut
    BY <2>1
  <2>3. ASSUME c \in by PROVE FALSE
    <3>1. PICK x : x = OtherEnd(c, h)
      OBVIOUS
    <3>2. Joining(c) = {h, x} /\ x \in to
      BY <2>3, <3>1, AttachmentIs DEF AttachedTo
    <3> QED BY <2>1, <3>2
  <2> QED BY <2>2, <2>3
<1>2. \A c \in cs, d \in cs : c.id = d.id => c = d
  BY DEF SceneGraph
<1>3. \A c \in Among(g, a, all, at \ by) : c \in Among(g, a, all, cs)
  BY AtIs DEF Among
<1>4. \A c \in Among(g, a, all, cs) : c \in at => c \in Among(g, a, all, at \ by)
  BY <1>1 DEF Among
<1>5. \A c \in Among(g, a, nodes, cs) : c \notin cut => c \in Among(g, a, all, cs)
  BY DEF Among
<1>6. \A c \in Among(g, a, all, cs) : c \in cs /\ c \in Among(g, a, nodes, cs)
  BY DEF Among
<1>7. (\A c \in at : c \in cs) /\ (\A c \in cut : c \in cs)
  BY AtIs
<1>8. EdgesClosed(g, a, nodes, old, h) =
        ((old \ Ids(at)) \ Ids(cut)) \cup Ids(Among(g, a, all, at \ by))
  BY DEF EdgesClosed
<1> HIDE DEF cs, at, by, to, all, cut
<1>9. \A e : e \in ((old \ Ids(at)) \ Ids(cut)) \cup Ids(Among(g, a, all, at \ by)) <=>
             e \in Ids(Among(g, a, all, cs))
  <2>1. ASSUME NEW e, e \in Ids(Among(g, a, all, cs)), e \in Ids(at)
        PROVE  e \in Ids(Among(g, a, all, at \ by))
    BY <1>2, <1>4, <1>6, <1>7, <2>1, IdIn
  <2>2. ASSUME NEW e, e \in Ids(Among(g, a, all, cs)) PROVE e \in old /\ e \notin Ids(cut)
    BY <1>1, <1>2, <1>6, <1>7, <2>2, IdIn
  <2>3. ASSUME NEW e, e \in Ids(Among(g, a, all, at \ by)) \/ (e \in old /\ e \notin Ids(cut))
        PROVE  e \in Ids(Among(g, a, all, cs))
    BY <1>3, <1>5, <2>3, IdIn
  <2> HIDE DEF old
  <2> QED BY <2>1, <2>2, <2>3
<1> HIDE DEF old
<1>10. EdgesClosed(g, a, nodes, old, h) = Ids(Among(g, a, all, cs))
  BY <1>8, <1>9
<1> QED BY <1>10 DEF cs, all, old, to

(* A host shown once more: of a scene that has the edges between its nodes *)
(* comes one that has, with what is attached there or not.                 *)
LEMMA Presented ==
  ASSUME NEW g, NEW a, SceneGraph(g), Apart(g), NEW nodes, NEW h
  PROVE  Presentation(g, a, SceneOf(g, a, nodes), h) =
           SceneOf(g, a, Presenting(g, a, nodes, h))
<1> DEFINE old == Ids(Among(g, a, nodes, ToSet(g.connections)))
           new == Presenting(g, a, nodes, h)
<1>1. PresentingEdges(g, a, nodes, old, h) = Ids(Among(g, a, new, ToSet(g.connections)))
  BY OpenEdges, ClosedEdges DEF PresentingEdges, Presenting
<1>2. SceneOf(g, a, nodes) = [nodes |-> nodes, edges |-> old]
  BY DEF SceneOf
<1>3. SceneOf(g, a, new) = [nodes |-> new, edges |-> PresentingEdges(g, a, nodes, old, h)]
  BY <1>1 DEF SceneOf
<1>4. Presentation(g, a, [nodes |-> nodes, edges |-> old], h) =
        [nodes |-> new, edges |-> PresentingEdges(g, a, nodes, old, h)]
  <2> HIDE DEF old
  <2> QED BY PresentedAs
<1> HIDE DEF old, new
<1>5. Presentation(g, a, SceneOf(g, a, nodes), h) = SceneOf(g, a, new)
  BY <1>2, <1>3, <1>4
<1> QED BY <1>5 DEF new

(* Whatever edges were shown, none without its nodes comes of it.          *)
LEMMA PresentedWithin ==
  ASSUME NEW g, NEW a, SceneGraph(g), NEW nodes, NEW h, NEW edges,
         edges \subseteq Ids(Among(g, a, nodes, ToSet(g.connections)))
  PROVE  PresentingEdges(g, a, nodes, edges, h) \subseteq
           Ids(Among(g, a, Presenting(g, a, nodes, h), ToSet(g.connections)))
<1> DEFINE cs  == ToSet(g.connections)
           at  == ConnectionsAt(g, a, h)
           by  == AttachmentsAt(g, a, h)
           to  == AttachedTo(g, a, h)
           cut == {c \in cs : Joining(c) \cap to # {}}
<1>1. Ids(Among(g, a, nodes \cup to, at)) \subseteq Ids(Among(g, a, nodes \cup to, cs))
  BY AtIs DEF Ids, Among
<1>2. edges \subseteq Ids(Among(g, a, nodes \cup to, cs))
  <2>1. Among(g, a, nodes, cs) \subseteq Among(g, a, nodes \cup to, cs)
    BY DEF Among
  <2> QED BY <2>1 DEF Ids
<1>3. Ids(Among(g, a, nodes \ to, at \ by)) \subseteq Ids(Among(g, a, nodes \ to, cs))
  BY AtIs DEF Ids, Among
<1>4. edges \ Ids(cut) \subseteq Ids(Among(g, a, nodes \ to, cs))
  <2> SUFFICES ASSUME NEW e \in edges, e \notin Ids(cut)
               PROVE  e \in Ids(Among(g, a, nodes \ to, cs))
    OBVIOUS
  <2>1. PICK c \in Among(g, a, nodes, cs) : e = c.id
    BY IdIn
  <2>2. c \notin cut
    BY <2>1, IdIn
  <2>3. c \in Among(g, a, nodes \ to, cs)
    BY <2>2 DEF Among
  <2> HIDE DEF cut, to, cs
  <2> QED BY <2>1, <2>3, IdIn
<1>5. EdgesOpen(g, a, nodes, edges, h) \subseteq Ids(Among(g, a, nodes \cup to, cs))
  <2>1. EdgesOpen(g, a, nodes, edges, h) = (edges \ Ids(at)) \cup Ids(Among(g, a, nodes \cup to, at))
    BY DEF EdgesOpen
  <2> HIDE DEF cs, at, to
  <2> QED BY <1>1, <1>2, <2>1
<1>6. EdgesClosed(g, a, nodes, edges, h) \subseteq Ids(Among(g, a, nodes \ to, cs))
  <2>1. EdgesClosed(g, a, nodes, edges, h) =
          ((edges \ Ids(at)) \ Ids(cut)) \cup Ids(Among(g, a, nodes \ to, at \ by))
    BY DEF EdgesClosed
  <2> HIDE DEF cs, at, by, to, cut
  <2> QED BY <1>3, <1>4, <2>1
<1> QED BY <1>5, <1>6 DEF PresentingEdges, Presenting

-----------------------------------------------------------------------------
(* Signals, one by one.                                                    *)
FollowedBy(f, a, start, signals, n) ==
  f = [i \in 0 .. n |-> IF i = 0 THEN start ELSE Follow(a, f[i - 1], signals[i])]

LEMMA FollowingExists ==
  ASSUME NEW a, NEW start, NEW signals, NEW m \in Nat
  PROVE  \E f : FollowedBy(f, a, start, signals, m)
<1> DEFINE S == {n \in Nat : \E f : FollowedBy(f, a, start, signals, n)}
<1>1. 0 \in S
  <2> DEFINE f == [i \in 0 .. 0 |-> start]
  <2>1. \A i \in 0 .. 0 : i = 0
    OBVIOUS
  <2>2. FollowedBy(f, a, start, signals, 0)
    BY <2>1 DEF FollowedBy
  <2> QED BY <2>2
<1>2. ASSUME NEW n \in Nat, n \in S PROVE n + 1 \in S
  <2>1. PICK f : FollowedBy(f, a, start, signals, n)
    BY <1>2
  <2> DEFINE last == Follow(a, f[n], signals[n + 1])
             e == [i \in 0 .. n + 1 |-> IF i = n + 1 THEN last ELSE f[i]]
  <2>2. (\A i \in 0 .. n : e[i] = f[i]) /\ e[n + 1] = last
    <3> HIDE DEF last
    <3> QED OBVIOUS
  <2>3. ASSUME NEW i \in 0 .. n + 1
        PROVE  e[i] = IF i = 0 THEN start ELSE Follow(a, e[i - 1], signals[i])
    <3> HIDE DEF e
    <3>1. CASE i = n + 1
      <4>1. i # 0 /\ i - 1 = n /\ n \in 0 .. n /\ e[n] = f[n]
        BY <2>2, <3>1
      <4> QED BY <2>2, <3>1, <4>1
    <3>2. CASE i \in 0 .. n
      <4>1. e[i] = f[i] /\ (i # 0 => i - 1 \in 0 .. n /\ e[i - 1] = f[i - 1])
        BY <2>2, <3>2
      <4>2. f[i] = IF i = 0 THEN start ELSE Follow(a, f[i - 1], signals[i])
        BY <2>1, <3>2 DEF FollowedBy
      <4> HIDE DEF last
      <4> QED BY <4>1, <4>2
    <3> QED BY <3>1, <3>2
  <2>4. FollowedBy(e, a, start, signals, n + 1)
    BY <2>3 DEF FollowedBy
  <2> QED BY <2>4
<1>3. Nat \subseteq S
  <2> HIDE DEF S
  <2> QED BY <1>1, <1>2, OneByOne
<1> QED BY <1>3

(* A set of scenes for each number of signals: who is in the first, and    *)
(* with each signal comes to the next, is in the last.                     *)
LEMMA FollowedThrough ==
  ASSUME NEW a, NEW start, NEW signals, NEW m \in Nat, m = Len(signals),
         NEW S, start \in S[0],
         \A n \in 1 .. m : \A v \in S[n - 1] : Follow(a, v, signals[n]) \in S[n]
  PROVE  Followed(a, start, signals) \in S[m]
<1> DEFINE seen == CHOOSE f : FollowedBy(f, a, start, signals, m)
           T == {n \in Nat : n <= m => seen[n] \in S[n]}
<1>1. FollowedBy(seen, a, start, signals, m)
  BY FollowingExists
<1>2. Followed(a, start, signals) = seen[m]
  BY DEF Followed, FollowedBy
<1> HIDE DEF seen
<1>3. 0 \in T
  <2>1. 0 \in 0 .. m
    OBVIOUS
  <2>2. seen[0] = start
    BY <1>1, <2>1 DEF FollowedBy
  <2> QED BY <2>2
<1>4. ASSUME NEW n \in Nat, n \in T PROVE n + 1 \in T
  <2> SUFFICES ASSUME n + 1 <= m PROVE seen[n + 1] \in S[n + 1]
    OBVIOUS
  <2>1. seen[n] \in S[n]
    BY <1>4
  <2>2. PICK k \in 1 .. m : k = n + 1 /\ k - 1 = n /\ k # 0 /\ k \in 0 .. m
    <3>1. n + 1 \in 1 .. m /\ n + 1 # 0 /\ n + 1 - 1 = n /\ n + 1 \in 0 .. m
      OBVIOUS
    <3> QED BY <3>1
  <2>3. seen[k] = Follow(a, seen[n], signals[k])
    BY <1>1, <2>2 DEF FollowedBy
  <2> QED BY <2>1, <2>2, <2>3
<1>5. Nat \subseteq T
  <2> HIDE DEF T
  <2> QED BY <1>3, <1>4, OneByOne
<1>6. m \in T
  BY <1>5
<1> QED BY <1>2, <1>6

-----------------------------------------------------------------------------
(* What a scene has to show: what belongs to the active instance, without  *)
(* what is attached to a collapsed host, and the edges between that.       *)
Absorbed(g, a) ==
  {x \in Belonging(g, a) : \E h \in DOMAIN g.modules : Closed(g, h) /\ x \in AttachedTo(g, a, h)}

CanonicalNodes(g, a) == Belonging(g, a) \ Absorbed(g, a)

CanonicalView(g, a) == SceneOf(g, a, CanonicalNodes(g, a))

LEMMA AttachedBelong ==
  ASSUME NEW g, NEW a, SceneGraph(g), NEW h, Collapses(g, h)
  PROVE  AttachedTo(g, a, h) \subseteq Belonging(g, a)
BY AttachmentIs DEF AttachedTo

LEMMA PresentingIs ==
  ASSUME NEW g, NEW a, SceneGraph(g), NEW h \in DOMAIN g.modules,
         NEW nodes \in SUBSET Belonging(g, a)
  PROVE  /\ Presenting(g, a, nodes, h) \in SUBSET Belonging(g, a)
         /\ \A id \in nodes : id \in Presenting(g, a, nodes, h) \/ id \in Absorbed(g, a)
<1>1. CASE ~Collapses(g, h)
  BY <1>1 DEF Presenting
<1>2. CASE Collapses(g, h) /\ g.modules[h].expanded
  BY <1>2, AttachedBelong DEF Presenting
<1>3. CASE Closed(g, h)
  BY <1>3 DEF Presenting, Closed, Absorbed
<1> QED BY <1>1, <1>2, <1>3 DEF Closed

(* The hosts of one set have been shown.                                   *)
HostsShown(g, a, nodes, hosts) ==
  /\ nodes \in SUBSET Belonging(g, a) /\ CanonicalNodes(g, a) \subseteq nodes
  /\ \A k \in hosts : Closed(g, k) => nodes \cap AttachedTo(g, a, k) = {}

LEMMA OneMoreHost ==
  ASSUME NEW g, NEW a, SceneGraph(g), Apart(g), NEW h \in DOMAIN g.modules, NEW hosts,
         NEW nodes, HostsShown(g, a, nodes, hosts)
  PROVE  HostsShown(g, a, Presenting(g, a, nodes, h), hosts \cup {h})
<1>1. PICK new : new = Presenting(g, a, nodes, h)
  OBVIOUS
<1>2. new \in SUBSET Belonging(g, a) /\ CanonicalNodes(g, a) \subseteq new
  BY <1>1, PresentingIs DEF HostsShown, CanonicalNodes
<1>3. ASSUME NEW k \in hosts \cup {h}, Closed(g, k) PROVE new \cap AttachedTo(g, a, k) = {}
  <2>1. CASE ~Collapses(g, h)
    BY <1>1, <1>3, <2>1 DEF Presenting, HostsShown, Closed
  <2>2. CASE Collapses(g, h) /\ g.modules[h].expanded
    <3>1. k # h /\ Collapses(g, k)
      BY <1>3, <2>2 DEF Closed
    <3>2. AttachedTo(g, a, h) \cap AttachedTo(g, a, k) = {}
      BY <2>2, <3>1, OneHost
    <3>3. nodes \cap AttachedTo(g, a, k) = {}
      BY <1>3, <3>1 DEF HostsShown
    <3>4. new = nodes \cup AttachedTo(g, a, h)
      BY <1>1, <2>2 DEF Presenting
    <3> QED BY <3>2, <3>3, <3>4
  <2>3. CASE Closed(g, h)
    <3>1. new = nodes \ AttachedTo(g, a, h)
      BY <1>1, <2>3 DEF Presenting, Closed
    <3>2. k # h => nodes \cap AttachedTo(g, a, k) = {}
      BY <1>3 DEF HostsShown
    <3> QED BY <3>1, <3>2
  <2> QED BY <2>1, <2>2, <2>3 DEF Closed
<1> QED BY <1>1, <1>2, <1>3 DEF HostsShown

LEMMA AllHostsShown ==
  ASSUME NEW g, NEW a, NEW nodes, HostsShown(g, a, nodes, DOMAIN g.modules)
  PROVE  nodes = CanonicalNodes(g, a)
BY DEF HostsShown, CanonicalNodes, Absorbed

LEMMA SignalIs ==
  ASSUME NEW a, NEW v, NEW g, NEW what
  PROVE  /\ Follow(a, v, Signal("module", g, what)) = EnsureModule(g, a, v, what)
         /\ Follow(a, v, Signal("connection", g, what)) = ShowAdded(g, a, v, what)
         /\ Follow(a, v, Signal("host", g, what)) = Presentation(g, a, v, what)
BY DEF Follow, Signal

LEMMA ListIndexes ==
  ASSUME NEW s, IsList(s)
  PROVE  /\ Len(s) \in Nat /\ DOMAIN s = 1 .. Len(s)
         /\ ToSet(s) = {s[k] : k \in 1 .. Len(s)}
BY EntriesOf DEF IsList, ToSet

-----------------------------------------------------------------------------
(* A refresh shows what the scene has to.                                  *)

(* After the first modules: they are shown or attached to a closed host,   *)
(* and no edge is without its nodes.                                       *)
SomeShown(g, a, m) ==
  {v \in [nodes : SUBSET Belonging(g, a), edges : SUBSET Ids(ToSet(g.connections))] :
     /\ v.edges \subseteq Ids(Among(g, a, v.nodes, ToSet(g.connections)))
     /\ \A k \in 1 .. m : g.order[k] \in Belonging(g, a) =>
          g.order[k] \in v.nodes \/ g.order[k] \in Absorbed(g, a)}

LEMMA OneMoreModule ==
  ASSUME NEW g, NEW a, SceneGraph(g), NEW m \in 1 .. Len(g.order),
         NEW v \in SomeShown(g, a, m - 1)
  PROVE  EnsureModule(g, a, v, g.order[m]) \in SomeShown(g, a, m)
<1>1. PICK id, cs, nodes, edges, all :
        /\ id = g.order[m] /\ cs = ToSet(g.connections)
        /\ nodes = v.nodes /\ edges = v.edges /\ all = nodes \cup {id}
  OBVIOUS
<1>2. /\ v = [nodes |-> nodes, edges |-> edges] /\ nodes \in SUBSET Belonging(g, a)
      /\ edges \subseteq Ids(Among(g, a, nodes, cs)) /\ edges \subseteq Ids(cs)
      /\ \A k \in 1 .. m - 1 : g.order[k] \in Belonging(g, a) =>
           g.order[k] \in nodes \/ g.order[k] \in Absorbed(g, a)
  BY <1>1 DEF SomeShown
<1>3. id \in DOMAIN g.modules
  BY <1>1, ListIndexes DEF SceneGraph
<1>4. \A k \in 1 .. m : k \in 1 .. m - 1 \/ k = m
  BY ListIndexes DEF SceneGraph
<1>5. CASE ~Belongs(g, a, id) \/ id \in nodes
  <2>1. EnsureModule(g, a, v, id) = v
    BY <1>2, <1>5 DEF EnsureModule
  <2>2. id \in Belonging(g, a) => id \in nodes
    BY <1>5 DEF Belonging
  <2>3. v \in SomeShown(g, a, m)
    BY <1>1, <1>2, <1>4, <2>2 DEF SomeShown
  <2> QED BY <1>1, <2>1, <2>3
<1>6. CASE Belongs(g, a, id) /\ id \notin nodes
  <2>1. EnsureModule(g, a, v, id) = Presentation(g, a, [nodes |-> all, edges |-> edges], id)
    BY <1>1, <1>2, <1>6, EnsuredNode
  <2>2. PICK n, e : n = Presenting(g, a, all, id) /\ e = PresentingEdges(g, a, all, edges, id)
    OBVIOUS
  <2>3. EnsureModule(g, a, v, id) = [nodes |-> n, edges |-> e]
    BY <2>1, <2>2, PresentedAs
  <2>4. edges \subseteq Ids(Among(g, a, all, cs))
    <3>1. Among(g, a, nodes, cs) \subseteq Among(g, a, all, cs)
      BY <1>1 DEF Among
    <3> QED BY <1>2, <3>1 DEF Ids
  <2>5. e \subseteq Ids(Among(g, a, n, cs))
    BY <1>1, <2>2, <2>4, PresentedWithin
  <2>6. all \in SUBSET Belonging(g, a)
    BY <1>1, <1>2, <1>3, <1>6 DEF Belonging
  <2>7. /\ n \in SUBSET Belonging(g, a)
        /\ \A k \in all : k \in n \/ k \in Absorbed(g, a)
    BY <1>3, <2>2, <2>6, PresentingIs
  <2>8. Ids(Among(g, a, n, cs)) \subseteq Ids(cs)
    BY DEF Ids, Among
  <2>9. \A k \in 1 .. m : g.order[k] \in Belonging(g, a) =>
          g.order[k] \in n \/ g.order[k] \in Absorbed(g, a)
    BY <1>1, <1>2, <1>4, <2>7
  <2>10. [nodes |-> n, edges |-> e] \in SomeShown(g, a, m)
    BY <1>1, <2>5, <2>7, <2>8, <2>9 DEF SomeShown
  <2> QED BY <1>1, <2>3, <2>10
<1> QED BY <1>5, <1>6

LEMMA RefreshIsCanonical ==
  ASSUME NEW g, NEW a, SceneGraph(g), Apart(g)
  PROVE  RefreshedView(g, a) = CanonicalView(g, a)
<1> DEFINE order == g.order
           Each(kind) == [m \in DOMAIN order |-> Signal(kind, g, order[m])]
           modules == Followed(a, EmptyView, Each("module"))
           edges == EnsureConnections(g, a, modules, ToSet(g.connections))
<1>1. PICK all : all = Len(order)
  OBVIOUS
<1>2. all \in Nat /\ DOMAIN order = 1 .. all /\ DOMAIN g.modules = {order[k] : k \in 1 .. all}
  BY <1>1, ListIndexes DEF SceneGraph
<1>3. \A kind : Len(Each(kind)) = all /\ \A m \in 1 .. all : Each(kind)[m] = Signal(kind, g, order[m])
  BY <1>2
<1>4. RefreshedView(g, a) = Followed(a, edges, Each("host"))
  BY DEF RefreshedView
<1>5. modules \in SomeShown(g, a, all)
  <2> DEFINE S == [m \in 0 .. all |-> SomeShown(g, a, m)]
  <2>1. EmptyView \in S[0]
    <3>1. (\A k \in 1 .. 0 : FALSE) /\ 0 \in 0 .. all
      BY <1>2
    <3>2. EmptyView \in SomeShown(g, a, 0)
      BY <3>1 DEF EmptyView, SomeShown
    <3> QED BY <3>1, <3>2
  <2>2. ASSUME NEW m \in 1 .. all, NEW v \in S[m - 1]
        PROVE  Follow(a, v, Each("module")[m]) \in S[m]
    <3>1. m - 1 \in 0 .. all /\ m \in 0 .. all
      BY <1>2
    <3>2. v \in SomeShown(g, a, m - 1)
      BY <2>2, <3>1
    <3>3. EnsureModule(g, a, v, order[m]) \in SomeShown(g, a, m)
      BY <1>1, <3>2, OneMoreModule
    <3>4. Follow(a, v, Each("module")[m]) = EnsureModule(g, a, v, order[m])
      BY <1>3, SignalIs
    <3> HIDE DEF Each
    <3> QED BY <3>1, <3>3, <3>4
  <2>3. Len(Each("module")) = all
    BY <1>3
  <2>4. modules \in S[all]
    <3> HIDE DEF S, Each
    <3> QED BY <1>2, <2>1, <2>2, <2>3, FollowedThrough
  <2> HIDE DEF modules
  <2> QED BY <1>2, <2>4
<1>6. PICK nodes : /\ edges = SceneOf(g, a, nodes)
                   /\ nodes \in SUBSET Belonging(g, a) /\ CanonicalNodes(g, a) \subseteq nodes
  <2> HIDE DEF modules
  <2>1. PICK cs : cs = ToSet(g.connections)
    OBVIOUS
  <2>2. /\ modules = [nodes |-> modules.nodes, edges |-> modules.edges]
        /\ modules.nodes \in SUBSET Belonging(g, a)
        /\ modules.edges \subseteq Ids(Among(g, a, modules.nodes, cs))
        /\ \A k \in 1 .. all : order[k] \in Belonging(g, a) =>
             order[k] \in modules.nodes \/ order[k] \in Absorbed(g, a)
    BY <1>5, <2>1 DEF SomeShown
  <2>3. CanonicalNodes(g, a) \subseteq modules.nodes
    BY <1>2, <2>2 DEF CanonicalNodes, Belonging
  <2>4. edges = SceneOf(g, a, modules.nodes)
    <3>1. PICK n, e : n = modules.nodes /\ e = modules.edges
      OBVIOUS
    <3>2. EnsureConnections(g, a, [nodes |-> n, edges |-> e], cs) =
            [nodes |-> n, edges |-> e \cup Ids(Among(g, a, n, cs))]
      BY Ensured
    <3>3. e \cup Ids(Among(g, a, n, cs)) = Ids(Among(g, a, n, cs))
      BY <2>2, <3>1
    <3> QED BY <2>1, <2>2, <3>1, <3>2, <3>3 DEF SceneOf
  <2> HIDE DEF edges
  <2> QED BY <2>2, <2>3, <2>4
<1> HIDE DEF modules, edges
<1> DEFINE First(m) == {order[k] : k \in 1 .. m}
           Shown(m) == {SceneOf(g, a, s) : s \in {t \in SUBSET Belonging(g, a) :
                                                    HostsShown(g, a, t, First(m))}}
           S == [m \in 0 .. all |-> Shown(m)]
<1>7. edges \in S[0]
  <2>1. First(0) = {} /\ 0 \in 0 .. all
    BY <1>2
  <2>2. HostsShown(g, a, nodes, First(0))
    BY <1>6, <2>1 DEF HostsShown
  <2>3. edges \in Shown(0)
    BY <1>6, <2>2
  <2> HIDE DEF Shown
  <2> QED BY <2>1, <2>3
<1>8. ASSUME NEW m \in 1 .. all, NEW v \in S[m - 1]
      PROVE  Follow(a, v, Each("host")[m]) \in S[m]
  <2>1. m - 1 \in 0 .. all /\ m \in 0 .. all
    BY <1>2
  <2>2. v \in Shown(m - 1)
    BY <1>8, <2>1
  <2>3. PICK s : HostsShown(g, a, s, First(m - 1)) /\ v = SceneOf(g, a, s)
    BY <2>2
  <2>4. First(m) = First(m - 1) \cup {order[m]}
    <3>1. \A k : k \in 1 .. m <=> k \in 1 .. m - 1 \/ k = m
      BY <1>2
    <3> QED BY <3>1
  <2>5. order[m] \in DOMAIN g.modules
    BY <1>2
  <2> HIDE DEF First
  <2>6. HostsShown(g, a, Presenting(g, a, s, order[m]), First(m))
    BY <2>3, <2>4, <2>5, OneMoreHost
  <2>7. Follow(a, v, Each("host")[m]) = Presentation(g, a, v, order[m])
    BY <1>3, SignalIs
  <2>8. Presentation(g, a, v, order[m]) = SceneOf(g, a, Presenting(g, a, s, order[m]))
    BY <2>3, Presented
  <2>9. Presentation(g, a, v, order[m]) \in Shown(m)
    BY <2>6, <2>8 DEF HostsShown
  <2> HIDE DEF Shown, Each
  <2> QED BY <2>1, <2>7, <2>9
<1>9. Followed(a, edges, Each("host")) \in S[all]
  <2>1. Len(Each("host")) = all
    BY <1>3
  <2> HIDE DEF S, Each
  <2> QED BY <1>2, <1>7, <1>8, <2>1, FollowedThrough
<1>10. Followed(a, edges, Each("host")) \in Shown(all)
  <2>1. all \in 0 .. all
    BY <1>2
  <2> HIDE DEF Shown, Each
  <2> QED BY <1>9, <2>1
<1>11. PICK s : HostsShown(g, a, s, First(all)) /\ RefreshedView(g, a) = SceneOf(g, a, s)
  <2> HIDE DEF Each, First
  <2> QED BY <1>4, <1>10
<1>12. s = CanonicalNodes(g, a)
  BY <1>2, <1>11, AllHostsShown
<1> QED BY <1>11, <1>12 DEF CanonicalView

-----------------------------------------------------------------------------
(* So does a load, signal by signal.                                       *)

LEMMA FirstOf ==
  ASSUME NEW s, IsList(s), NEW n \in 0 .. Len(s)
  PROVE  ToSet(SubSeq(s, 1, n)) = {s[k] : k \in 1 .. n}
<1>1. s \in Seq(ToSet(s)) /\ Len(s) \in Nat
  BY ListIndexes DEF IsList
<1>2. Len(SubSeq(s, 1, n)) = n /\ \A k \in 1 .. n : SubSeq(s, 1, n)[k] = s[k]
  BY <1>1
<1>3. DOMAIN SubSeq(s, 1, n) = 1 .. n
  BY <1>1, <1>2
<1> QED BY <1>2, <1>3 DEF ToSet

LEMMA UptoIs ==
  ASSUME NEW g, GraphSound(g), SceneGraph(g), NEW n \in 0 .. Len(g.connections),
         NEW u, u = Upto(g, Len(g.order), n)
  PROVE  /\ u.modules = g.modules
         /\ ToSet(u.connections) = {g.connections[k] : k \in 1 .. n}
         /\ SceneGraph(u)
<1>1. IsList(g.order) /\ IsList(g.connections)
  BY DEF GraphSound, SceneGraph
<1>2. PICK all : all = Len(g.order) /\ all \in 0 .. all
  <2>1. Len(g.order) \in Nat
    BY <1>1, ListIndexes
  <2> QED BY <2>1
<1>3. ToSet(SubSeq(g.order, 1, all)) = ToSet(g.order)
  BY <1>1, <1>2, FirstOf, ListIndexes
<1>4. u.modules = g.modules
  BY <1>2, <1>3 DEF Upto, GraphSound, SceneGraph
<1>5. ToSet(u.connections) = {g.connections[k] : k \in 1 .. n}
  BY <1>1, FirstOf DEF Upto
<1>6. ToSet(u.connections) \subseteq ToSet(g.connections)
  BY <1>1, <1>5, ListIndexes
<1>7. IsList(u.order) /\ ToSet(u.order) = ToSet(g.order)
  <2>1. u.order = SubSeq(g.order, 1, all)
    BY <1>2 DEF Upto
  <2>2. u.order \in Seq(ToSet(g.order))
    BY <1>1, <1>2, <2>1 DEF IsList
  <2> QED BY <1>3, <2>1, <2>2, ListIs DEF IsList
<1> QED BY <1>4, <1>5, <1>6, <1>7 DEF SceneGraph

(* Graphs with the same modules; the second has all connections of the     *)
(* first.                                                                  *)
LEMMA SameAttachments ==
  ASSUME NEW g, NEW u, u.modules = g.modules, NEW a
  PROVE  /\ Belonging(u, a) = Belonging(g, a)
         /\ \A c : ConnectionBelongs(u, a, c) <=> ConnectionBelongs(g, a, c)
         /\ \A h : Collapses(u, h) <=> Collapses(g, h)
         /\ \A h : Closed(u, h) <=> Closed(g, h)
         /\ \A c, h, x : Attaches(u, c, h, x) <=> Attaches(g, c, h, x)
BY DEF Belonging, Belongs, ConnectionBelongs, Collapses, Closed, Attaches, TypeWith

LEMMA SameCanonical ==
  ASSUME NEW g, NEW u, u.modules = g.modules, NEW a,
         \A h \in DOMAIN g.modules :
           Collapses(g, h) => AttachedTo(u, a, h) = AttachedTo(g, a, h)
  PROVE  CanonicalNodes(u, a) = CanonicalNodes(g, a)
<1>1. \A x : x \in Absorbed(u, a) <=> x \in Absorbed(g, a)
  BY SameAttachments DEF Absorbed, Closed
<1> QED BY <1>1, SameAttachments DEF CanonicalNodes

LEMMA FewerIsApart ==
  ASSUME NEW g, NEW u, u.modules = g.modules, Apart(g),
         ToSet(u.connections) \subseteq ToSet(g.connections)
  PROVE  Apart(u)
BY DEF Apart, Collapses, Attaches, TypeWith

LEMMA AttachedWith ==
  ASSUME NEW g, NEW u, u.modules = g.modules, NEW a, NEW c, NEW h,
         ToSet(g.connections) = ToSet(u.connections) \cup {c}
  PROVE  /\ AttachedTo(u, a, h) \subseteq AttachedTo(g, a, h)
         /\ ~(h \in Joining(c) /\ Attaches(g, c, h, OtherEnd(c, h))) =>
              AttachedTo(u, a, h) = AttachedTo(g, a, h)
<1>1. \A d : d \in AttachmentsAt(u, a, h) => d \in AttachmentsAt(g, a, h)
  BY SameAttachments DEF AttachmentsAt, ConnectionsAt
<1>2. \A d : d \in AttachmentsAt(g, a, h) /\ d # c => d \in AttachmentsAt(u, a, h)
  BY SameAttachments DEF AttachmentsAt, ConnectionsAt
<1>3. c \in AttachmentsAt(g, a, h) => h \in Joining(c) /\ Attaches(g, c, h, OtherEnd(c, h))
  BY DEF AttachmentsAt, ConnectionsAt, Joining
<1>4. AttachedTo(u, a, h) \subseteq AttachedTo(g, a, h)
  BY <1>1 DEF AttachedTo
<1>5. ~(h \in Joining(c) /\ Attaches(g, c, h, OtherEnd(c, h))) =>
        AttachmentsAt(u, a, h) = AttachmentsAt(g, a, h)
  BY <1>1, <1>2, <1>3
<1> QED BY <1>4, <1>5 DEF AttachedTo

LEMMA OneMoreConnection ==
  ASSUME NEW g, NEW u, u.modules = g.modules, NEW a, NEW c,
         ToSet(g.connections) = ToSet(u.connections) \cup {c},
         SceneGraph(g), SceneGraph(u), Apart(g)
  PROVE  ShowAdded(g, a, CanonicalView(u, a), c) = CanonicalView(g, a)
<1> DEFINE hosts == {h \in Joining(c) : Attaches(g, c, h, OtherEnd(c, h))}
           h == CHOOSE k \in hosts : TRUE
<1>1. PICK old, shown : /\ old = CanonicalNodes(u, a)
                        /\ shown = EnsureConnections(g, a, CanonicalView(u, a), {c})
  OBVIOUS
<1>2. shown = SceneOf(g, a, old)
  <2>1. PICK us, gs : us = ToSet(u.connections) /\ gs = ToSet(g.connections)
    OBVIOUS
  <2>2. Ids(Among(u, a, old, us)) \cup Ids(Among(g, a, old, {c})) = Ids(Among(g, a, old, gs))
    <3>1. \A d : d \in Among(g, a, old, gs) <=>
                 d \in Among(u, a, old, us) \/ d \in Among(g, a, old, {c})
      BY <2>1, SameAttachments DEF Among
    <3> QED BY <3>1 DEF Ids
  <2>3. PICK e : e = Ids(Among(u, a, old, us))
    OBVIOUS
  <2>4. CanonicalView(u, a) = [nodes |-> old, edges |-> e]
    BY <1>1, <2>1, <2>3 DEF CanonicalView, SceneOf
  <2>5. shown = [nodes |-> old, edges |-> e \cup Ids(Among(g, a, old, {c}))]
    BY <1>1, <2>4, Ensured
  <2> QED BY <2>1, <2>2, <2>3, <2>5 DEF SceneOf
<1>3. ShowAdded(g, a, CanonicalView(u, a), c) =
        IF hosts = {} THEN shown ELSE Presentation(g, a, shown, h)
  BY <1>1 DEF ShowAdded, Joining
<1>4. \A k : k \notin hosts => AttachedTo(u, a, k) = AttachedTo(g, a, k)
  BY AttachedWith
<1>5. CASE hosts = {}
  <2>1. CanonicalNodes(g, a) = old
    BY <1>1, <1>4, <1>5, SameCanonical
  <2> QED BY <1>2, <1>3, <1>5, <2>1 DEF CanonicalView
<1>6. CASE hosts # {}
  <2>1. h \in hosts
    BY <1>6
  <2> HIDE DEF h
  <2>2. h \in Joining(c) /\ Attaches(g, c, h, OtherEnd(c, h)) /\ h \in DOMAIN g.modules
    BY <2>1 DEF SceneGraph
  <2>3. ASSUME NEW k, Collapses(g, k), k # h PROVE AttachedTo(u, a, k) = AttachedTo(g, a, k)
    <3>1. SUFFICES ASSUME k \in hosts PROVE FALSE
      BY <1>4
    <3>2. k = OtherEnd(c, h)
      BY <2>2, <2>3, <3>1 DEF Joining, OtherEnd
    <3>3. TypeWith(g, k) \in AttachedTypes
      BY <2>2, <3>2 DEF Attaches
    <3> QED BY <2>3, <3>3, EditorTypesAssumption DEF Collapses
  <2>4. Presentation(g, a, shown, h) = SceneOf(g, a, Presenting(g, a, old, h))
    BY <1>2, Presented
  <2>5. CASE ~Collapses(g, h)
    <3>1. CanonicalNodes(g, a) = old
      BY <1>1, <2>3, <2>5, SameCanonical
    <3> QED BY <1>3, <1>6, <2>4, <2>5, <3>1 DEF CanonicalView, Presenting
  <2>6. CASE Collapses(g, h)
    <3>1. \A k : AttachedTo(u, a, k) \subseteq AttachedTo(g, a, k)
      <4> SUFFICES ASSUME NEW k PROVE AttachedTo(u, a, k) \subseteq AttachedTo(g, a, k)
        OBVIOUS
      <4> QED BY AttachedWith, ZenonT(60)
    <3>2. Absorbed(u, a) \subseteq Absorbed(g, a)
      BY <3>1, SameAttachments DEF Absorbed
    <3>3. old \in SUBSET Belonging(g, a) /\ CanonicalNodes(g, a) \subseteq old
      BY <1>1, <3>2, SameAttachments DEF CanonicalNodes
    <3>4. ASSUME NEW k \in DOMAIN g.modules \ {h}, Closed(g, k)
          PROVE  old \cap AttachedTo(g, a, k) = {}
      <4>1. AttachedTo(u, a, k) = AttachedTo(g, a, k)
        BY <2>3, <3>4 DEF Closed
      <4>2. Closed(u, k) /\ k \in DOMAIN u.modules
        BY <3>4, SameAttachments
      <4> QED BY <1>1, <4>1, <4>2 DEF CanonicalNodes, Absorbed
    <3>5. HostsShown(g, a, old, DOMAIN g.modules \ {h})
      BY <3>3, <3>4 DEF HostsShown
    <3>6. (DOMAIN g.modules \ {h}) \cup {h} = DOMAIN g.modules
      BY <2>2
    <3>7. HostsShown(g, a, Presenting(g, a, old, h), DOMAIN g.modules)
      BY <2>2, <3>5, <3>6, OneMoreHost
    <3>8. Presenting(g, a, old, h) = CanonicalNodes(g, a)
      BY <3>7, AllHostsShown
    <3> QED BY <1>3, <1>6, <2>4, <3>8 DEF CanonicalView
  <2> QED BY <2>5, <2>6
<1> QED BY <1>5, <1>6

(* Modules come before any connection: all that belong are shown.          *)
FirstShown(g, a, m) ==
  [nodes |-> {g.order[k] : k \in 1 .. m} \cap Belonging(g, a), edges |-> {}]

LEMMA OneMoreSignalled ==
  ASSUME NEW g, NEW a, SceneGraph(g), NEW m \in 1 .. Len(g.order)
  PROVE  EnsureModule(Upto(g, m, 0), a, FirstShown(g, a, m - 1), g.order[m]) =
           FirstShown(g, a, m)
<1>1. PICK u, id, nodes : /\ u = Upto(g, m, 0) /\ id = g.order[m]
                          /\ nodes = {g.order[k] : k \in 1 .. m - 1} \cap Belonging(g, a)
  OBVIOUS
<1>2. /\ Len(g.order) \in Nat /\ ToSet(g.order) = {g.order[k] : k \in 1 .. Len(g.order)}
      /\ ToSet(SubSeq(g.order, 1, m)) = {g.order[k] : k \in 1 .. m}
      /\ m \in 1 .. m
  BY ListIndexes, FirstOf DEF SceneGraph
<1>3. id \in DOMAIN g.modules
  BY <1>1, <1>2 DEF SceneGraph
<1>4. u.modules[id] = g.modules[id] /\ u.connections = SubSeq(g.connections, 1, 0)
  BY <1>1, <1>2 DEF Upto
<1>5. ToSet(u.connections) = {}
  <2>1. SubSeq(g.connections, 1, 0) = << >>
    OBVIOUS
  <2> QED BY <1>4, <2>1 DEF ToSet
<1>6. Belongs(u, a, id) <=> id \in Belonging(g, a)
  BY <1>3, <1>4 DEF Belongs, Belonging
<1>7. {g.order[k] : k \in 1 .. m} = {g.order[k] : k \in 1 .. m - 1} \cup {id}
  <2>1. \A k : k \in 1 .. m <=> k \in 1 .. m - 1 \/ k = m
    BY <1>2
  <2> QED BY <1>1, <2>1
<1>8. FirstShown(g, a, m - 1) = [nodes |-> nodes, edges |-> {}]
  BY <1>1 DEF FirstShown
<1>9. CASE id \notin Belonging(g, a) \/ id \in nodes
  <2>1. FirstShown(g, a, m) = [nodes |-> nodes, edges |-> {}]
    BY <1>1, <1>7, <1>9 DEF FirstShown
  <2>2. EnsureModule(u, a, [nodes |-> nodes, edges |-> {}], id) = [nodes |-> nodes, edges |-> {}]
    BY <1>6, <1>9 DEF EnsureModule
  <2> QED BY <1>1, <1>8, <2>1, <2>2
<1>10. CASE id \in Belonging(g, a) /\ id \notin nodes
  <2>1. FirstShown(g, a, m) = [nodes |-> nodes \cup {id}, edges |-> {}]
    BY <1>1, <1>7, <1>10 DEF FirstShown
  <2>2. EnsureModule(u, a, [nodes |-> nodes, edges |-> {}], id) =
          Presentation(u, a, [nodes |-> nodes \cup {id}, edges |-> {}], id)
    BY <1>6, <1>10, EnsuredNode
  <2>3. ConnectionsAt(u, a, id) = {} /\ AttachmentsAt(u, a, id) = {} /\ AttachedTo(u, a, id) = {}
    BY <1>5 DEF ConnectionsAt, AttachmentsAt, AttachedTo
  <2>4. Presenting(u, a, nodes \cup {id}, id) = nodes \cup {id}
    BY <2>3 DEF Presenting
  <2>5. PresentingEdges(u, a, nodes \cup {id}, {}, id) = {}
    <3>1. \A ns : Among(u, a, ns, {}) = {}
      BY DEF Among
    <3>2. Ids({}) = {}
      BY DEF Ids
    <3> QED BY <1>5, <2>3, <3>1, <3>2 DEF PresentingEdges, EdgesOpen, EdgesClosed
  <2>6. Presentation(u, a, [nodes |-> nodes \cup {id}, edges |-> {}], id) =
          [nodes |-> Presenting(u, a, nodes \cup {id}, id),
           edges |-> PresentingEdges(u, a, nodes \cup {id}, {}, id)]
    BY PresentedAs
  <2> QED BY <1>1, <1>8, <2>1, <2>2, <2>4, <2>5, <2>6
<1> QED BY <1>9, <1>10

LEMMA LoadIsCanonical ==
  ASSUME NEW g, NEW a, GraphSound(g), SceneGraph(g), Apart(g)
  PROVE  LoadedView(g, a) = CanonicalView(g, a)
<1> DEFINE order == g.order
           conns == g.connections
           all   == Len(order)
           last  == Len(conns)
           modules == [m \in DOMAIN order |-> Signal("module", Upto(g, m, 0), order[m])]
           connections == [n \in DOMAIN conns |-> Signal("connection", Upto(g, all, n), conns[n])]
           start == Followed(a, EmptyView, modules)
           U(n) == Upto(g, all, n)
<1>1. LoadedView(g, a) = Followed(a, start, connections)
  BY DEF LoadedView
<1>2. /\ all \in Nat /\ DOMAIN order = 1 .. all /\ ToSet(order) = {order[k] : k \in 1 .. all}
      /\ last \in Nat /\ DOMAIN conns = 1 .. last /\ ToSet(conns) = {conns[k] : k \in 1 .. last}
  BY ListIndexes DEF SceneGraph, GraphSound
<1>3. /\ Len(modules) = all
      /\ \A m \in 1 .. all : modules[m] = Signal("module", Upto(g, m, 0), order[m])
  BY <1>2
<1>4. /\ Len(connections) = last
      /\ \A n \in 1 .. last : connections[n] = Signal("connection", U(n), conns[n])
  BY <1>2
<1>5. start = FirstShown(g, a, all)
  <2> DEFINE S == [m \in 0 .. all |-> {FirstShown(g, a, m)}]
  <2>1. EmptyView \in S[0]
    <3>1. 0 \in 0 .. all /\ {order[k] : k \in 1 .. 0} = {}
      BY <1>2
    <3>2. EmptyView = FirstShown(g, a, 0)
      BY <3>1 DEF EmptyView, FirstShown
    <3> QED BY <3>1, <3>2
  <2>2. ASSUME NEW m \in 1 .. all, NEW v \in S[m - 1]
        PROVE  Follow(a, v, modules[m]) \in S[m]
    <3>1. m - 1 \in 0 .. all /\ m \in 0 .. all
      BY <1>2
    <3>2. v = FirstShown(g, a, m - 1)
      BY <2>2, <3>1
    <3>3. Follow(a, v, modules[m]) = EnsureModule(Upto(g, m, 0), a, v, order[m])
      BY <1>3, SignalIs
    <3>4. EnsureModule(Upto(g, m, 0), a, v, order[m]) = FirstShown(g, a, m)
      BY <3>2, OneMoreSignalled
    <3> HIDE DEF modules
    <3> QED BY <3>1, <3>3, <3>4
  <2>3. start \in S[all]
    <3> HIDE DEF S, modules, all
    <3> QED BY <1>2, <1>3, <2>1, <2>2, FollowedThrough
  <2>4. all \in 0 .. all
    BY <1>2
  <2> HIDE DEF start, all
  <2> QED BY <2>3, <2>4
<1> HIDE DEF modules, start, connections
<1>6. ASSUME NEW n \in 0 .. last
      PROVE  /\ U(n).modules = g.modules /\ ToSet(U(n).connections) = {conns[k] : k \in 1 .. n}
             /\ SceneGraph(U(n)) /\ Apart(U(n))
  <2>1. /\ U(n).modules = g.modules /\ ToSet(U(n).connections) = {conns[k] : k \in 1 .. n}
        /\ SceneGraph(U(n))
    BY UptoIs
  <2>2. ToSet(U(n).connections) \subseteq ToSet(conns)
    BY <1>2, <2>1
  <2> HIDE DEF U
  <2> QED BY <2>1, <2>2, FewerIsApart
<1>7. start = CanonicalView(U(0), a)
  <2>1. 0 \in 0 .. last
    BY <1>2
  <2>2. PICK u : u = U(0)
    OBVIOUS
  <2>3. u.modules = g.modules /\ ToSet(u.connections) = {}
    BY <1>6, <2>1, <2>2
  <2>4. \A h : AttachedTo(u, a, h) = {}
    BY <2>3 DEF AttachedTo, AttachmentsAt, ConnectionsAt
  <2>5. CanonicalNodes(u, a) = Belonging(g, a)
    BY <2>3, <2>4, SameAttachments DEF CanonicalNodes, Absorbed
  <2>6. Among(u, a, Belonging(g, a), ToSet(u.connections)) = {} /\ Ids({}) = {}
    BY <2>3 DEF Among, Ids
  <2>7. {order[k] : k \in 1 .. all} \cap Belonging(g, a) = Belonging(g, a)
    BY <1>2 DEF SceneGraph, Belonging
  <2> QED BY <1>5, <2>2, <2>5, <2>6, <2>7 DEF CanonicalView, SceneOf, FirstShown
<1> DEFINE S == [n \in 0 .. last |-> {CanonicalView(U(n), a)}]
<1>8. start \in S[0]
  BY <1>2, <1>7
<1>9. ASSUME NEW n \in 1 .. last, NEW v \in S[n - 1]
      PROVE  Follow(a, v, connections[n]) \in S[n]
  <2>1. n - 1 \in 0 .. last /\ n \in 0 .. last
    BY <1>2
  <2>2. v = CanonicalView(U(n - 1), a)
    BY <1>9, <2>1
  <2>3. ToSet(U(n).connections) = ToSet(U(n - 1).connections) \cup {conns[n]}
    <3>1. \A k : k \in 1 .. n <=> k \in 1 .. n - 1 \/ k = n
      BY <1>2
    <3>2. {conns[k] : k \in 1 .. n} = {conns[k] : k \in 1 .. n - 1} \cup {conns[n]}
      BY <3>1
    <3> HIDE DEF U
    <3> QED BY <1>6, <2>1, <3>2
  <2>4. PICK g2, u : g2 = U(n) /\ u = U(n - 1)
    OBVIOUS
  <2>5. /\ u.modules = g2.modules /\ SceneGraph(g2) /\ SceneGraph(u) /\ Apart(g2)
        /\ ToSet(g2.connections) = ToSet(u.connections) \cup {conns[n]}
    BY <1>6, <2>1, <2>3, <2>4
  <2>6. ShowAdded(g2, a, CanonicalView(u, a), conns[n]) = CanonicalView(g2, a)
    BY <2>5, OneMoreConnection
  <2>7. Follow(a, v, connections[n]) = ShowAdded(g2, a, v, conns[n])
    BY <1>4, <2>4, SignalIs
  <2> HIDE DEF U
  <2> QED BY <2>1, <2>2, <2>4, <2>6, <2>7
<1>10. Followed(a, start, connections) \in S[last]
  <2> HIDE DEF S, last
  <2> QED BY <1>2, <1>4, <1>8, <1>9, FollowedThrough
<1>11. PICK u : u = U(last)
  OBVIOUS
<1>12. last \in 0 .. last
  BY <1>2
<1>13. u.modules = g.modules /\ ToSet(u.connections) = ToSet(conns)
  BY <1>2, <1>6, <1>11, <1>12
<1>14. CanonicalView(u, a) = CanonicalView(g, a)
  <2>1. \A h : AttachedTo(u, a, h) = AttachedTo(g, a, h)
    BY <1>13, SameAttachments DEF AttachedTo, AttachmentsAt, ConnectionsAt
  <2>2. CanonicalNodes(u, a) = CanonicalNodes(g, a)
    BY <1>13, <2>1, SameCanonical
  <2>3. \A ns, cs : Among(u, a, ns, cs) = Among(g, a, ns, cs)
    BY <1>13, SameAttachments DEF Among
  <2> QED BY <1>13, <2>2, <2>3 DEF CanonicalView, SceneOf
<1>15. Followed(a, start, connections) = CanonicalView(U(last), a)
  <2> HIDE DEF U, last
  <2> QED BY <1>10, <1>12
<1> QED BY <1>1, <1>11, <1>14, <1>15

-----------------------------------------------------------------------------
(* A host is toggled: the graph with it has the same connections.          *)
LEMMA ToggleIsCanonical ==
  ASSUME NEW g, NEW a, SceneGraph(g), Apart(g), NEW id \in DOMAIN g.modules, Collapses(g, id),
         NEW h, h.order = g.order, h.connections = g.connections,
         DOMAIN h.modules = DOMAIN g.modules,
         \A k \in DOMAIN g.modules :
           /\ h.modules[k].type = g.modules[k].type
           /\ h.modules[k].instance = g.modules[k].instance
           /\ k # id => h.modules[k].expanded = g.modules[k].expanded
  PROVE  /\ SceneGraph(h) /\ Apart(h)
         /\ Presentation(h, a, CanonicalView(g, a), id) = CanonicalView(h, a)
<1>1. SceneGraph(h)
  BY DEF SceneGraph
<1>2. ASSUME NEW c \in ToSet(g.connections)
      PROVE  /\ ConnectionBelongs(h, a, c) <=> ConnectionBelongs(g, a, c)
             /\ \A k \in Joining(c) : Attaches(h, c, k, OtherEnd(c, k)) <=>
                                      Attaches(g, c, k, OtherEnd(c, k))
  <2>1. c.source[1] \in DOMAIN g.modules /\ c.target[1] \in DOMAIN g.modules
    BY DEF SceneGraph, Joining
  <2>2. ConnectionBelongs(h, a, c) <=> ConnectionBelongs(g, a, c)
    BY <2>1 DEF ConnectionBelongs, Belongs
  <2>3. ASSUME NEW k \in Joining(c)
        PROVE  Attaches(h, c, k, OtherEnd(c, k)) <=> Attaches(g, c, k, OtherEnd(c, k))
    <3>1. PICK x : x = OtherEnd(c, k) /\ x \in DOMAIN g.modules /\ k \in DOMAIN g.modules
      BY <2>1 DEF OtherEnd, Joining
    <3>2. \A m \in DOMAIN g.modules : TypeWith(h, m) = TypeWith(g, m)
      BY DEF TypeWith
    <3>3. \A end \in {c.source, c.target} : TypeWith(h, end[1]) = TypeWith(g, end[1])
      BY <2>1, <3>2
    <3> QED BY <3>1, <3>2, <3>3 DEF Attaches
  <2> QED BY <2>2, <2>3
<1>3. \A k \in DOMAIN g.modules : Collapses(h, k) <=> Collapses(g, k)
  BY DEF Collapses, TypeWith
<1>4. \A k \in DOMAIN g.modules : k # id => (Closed(h, k) <=> Closed(g, k))
  BY <1>3 DEF Closed
<1>5. Apart(h)
  <2>1. \A c \in ToSet(g.connections) : Joining(c) \subseteq DOMAIN g.modules
    BY DEF SceneGraph
  <2> QED BY <1>2, <1>3, <2>1 DEF Apart
<1>6. \A k : AttachedTo(h, a, k) = AttachedTo(g, a, k)
  <2> SUFFICES ASSUME NEW k PROVE AttachedTo(h, a, k) = AttachedTo(g, a, k)
    OBVIOUS
  <2>1. \A c : c \in ConnectionsAt(h, a, k) <=> c \in ConnectionsAt(g, a, k)
    BY <1>2, AtIs
  <2>2. \A c : c \in AttachmentsAt(h, a, k) <=> c \in AttachmentsAt(g, a, k)
    BY <1>2, <2>1, AtIs DEF AttachmentsAt
  <2> QED BY <2>2 DEF AttachedTo
<1>7. Belonging(h, a) = Belonging(g, a)
  BY DEF Belonging, Belongs
<1>8. PICK old : old = CanonicalNodes(g, a)
  OBVIOUS
<1>9. CanonicalView(g, a) = SceneOf(h, a, old)
  <2>1. Among(g, a, old, ToSet(g.connections)) = Among(h, a, old, ToSet(g.connections))
    BY <1>2 DEF Among
  <2> QED BY <1>8, <2>1 DEF CanonicalView, SceneOf
<1>10. PICK new : new = Presenting(h, a, old, id)
  OBVIOUS
<1>11. Presentation(h, a, CanonicalView(g, a), id) = SceneOf(h, a, new)
  BY <1>1, <1>5, <1>9, <1>10, Presented
<1>12. old \in SUBSET Belonging(h, a) /\ new \in SUBSET Belonging(h, a)
  <2>1. old \in SUBSET Belonging(h, a)
    BY <1>7, <1>8 DEF CanonicalNodes
  <2> QED BY <1>1, <1>10, <2>1, PresentingIs
<1>13. Collapses(h, id) /\ AttachedTo(h, a, id) = AttachedTo(g, a, id)
  BY <1>3, <1>6
<1>14. CanonicalNodes(h, a) \subseteq new
  <2> SUFFICES ASSUME NEW x \in Belonging(h, a), x \notin Absorbed(h, a) PROVE x \in new
    BY DEF CanonicalNodes
  <2>1. CASE x \in AttachedTo(h, a, id)
    <3>1. ~Closed(h, id)
      BY <2>1 DEF Absorbed
    <3> QED BY <1>10, <1>13, <2>1, <3>1 DEF Presenting, Closed
  <2>2. CASE x \notin AttachedTo(h, a, id)
    <3>1. x \notin Absorbed(g, a)
      BY <1>4, <1>6, <2>2 DEF Absorbed
    <3>2. x \in old
      BY <1>7, <1>8, <3>1 DEF CanonicalNodes
    <3> QED BY <1>10, <2>2, <3>2 DEF Presenting
  <2> QED BY <2>1, <2>2
<1>15. ASSUME NEW k \in DOMAIN h.modules, Closed(h, k) PROVE new \cap AttachedTo(h, a, k) = {}
  <2>1. CASE k = id
    BY <1>10, <1>15, <2>1 DEF Presenting, Closed
  <2>2. CASE k # id
    <3>1. Closed(g, k)
      BY <1>4, <1>15, <2>2
    <3>2. old \cap AttachedTo(h, a, k) = {}
      BY <1>6, <1>8, <3>1 DEF CanonicalNodes, Absorbed
    <3>3. AttachedTo(h, a, id) \cap AttachedTo(h, a, k) = {}
      BY <1>1, <1>5, <1>13, <1>15, <2>2, OneHost DEF Closed
    <3> QED BY <1>10, <3>2, <3>3 DEF Presenting
  <2> QED BY <2>1, <2>2
<1>16. new = CanonicalNodes(h, a)
  BY <1>12, <1>14, <1>15, AllHostsShown DEF HostsShown
<1> QED BY <1>1, <1>5, <1>11, <1>16 DEF CanonicalView

-----------------------------------------------------------------------------
(* What each step makes of the scene.                                      *)

AttachedApart == Apart(graph)

(* A rebuild, followed by signals or by a refresh.                         *)
LEMMA SignalledIsCanonical ==
  ASSUME EditorInv', AttachedApart', ViewIsCanonical,
         NEW next, Rebuild(next), view' = SignalledView
  PROVE  ViewIsCanonical'
<1>1. CASE stale'
  BY <1>1 DEF Rebuild, SignalledView, ViewIsCanonical
<1>2. CASE ~stale' /\ active' # active
  BY <1>2 DEF SignalledView, ViewIsCanonical
<1>3. CASE ~stale' /\ active' = active
  <2>1. PICK g, a : g = graph' /\ a = active'
    OBVIOUS
  <2>2. GraphSound(g) /\ SceneGraph(g) /\ Apart(g)
    BY <2>1 DEF EditorInv, AttachedApart
  <2>3. LoadedView(g, a) = RefreshedView(g, a)
    BY <2>2, LoadIsCanonical, RefreshIsCanonical
  <2>4. view' = LoadedView(graph', active)
    BY <1>3 DEF SignalledView
  <2> QED BY <1>3, <2>1, <2>3, <2>4 DEF ViewIsCanonical
<1> QED BY <1>1, <1>2, <1>3

LEMMA OnlyRefreshShows ==
  ASSUME OnlyRefresh
  PROVE  ViewIsCanonical'
BY DEF OnlyRefresh, ViewIsCanonical

LEMMA CommitShows ==
  ASSUME EditorInv', AttachedApart', ViewIsCanonical, NEW next, Commit(next)
  PROVE  ViewIsCanonical'
<1>1. CASE OnlyViewsChanged(design, next)
  BY <1>1 DEF Commit, ViewIsCanonical
<1>2. CASE ~OnlyViewsChanged(design, next)
  <2>1. Rebuild(next) /\ view' = SignalledView
    BY <1>2 DEF Commit
  <2> QED BY <2>1, SignalledIsCanonical
<1> QED BY <1>1, <1>2

LEMMA AddConnectionShows ==
  ASSUME NEW option, ExecuteAddConnection(option)
  PROVE  ViewIsCanonical'
BY OnlyRefreshShows DEF ExecuteAddConnection, CommitAndRefresh, ViewIsCanonical

(* A toggled host presents itself in the scene there is.                   *)
LEMMA ToggledShows ==
  ASSUME EditorInv, AttachedApart, ViewIsCanonical, NEW id, ToggleCollapsed(id)
  PROVE  ViewIsCanonical'
<1>1. CASE stale
  BY <1>1, OnlyRefreshShows DEF ToggleCollapsed
<1>2. CASE ~stale
  <2>1. PICK g, a : g = graph /\ a = active
    OBVIOUS
  <2>2. GraphSound(g) /\ SceneGraph(g) /\ Apart(g)
    BY <2>1 DEF EditorInv, AttachedApart
  <2>3. view = CanonicalView(g, a)
    BY <2>1, <2>2, RefreshIsCanonical DEF ViewIsCanonical
  <2>4. id \in DOMAIN g.modules /\ Collapses(g, id)
    <3>1. view.nodes = CanonicalNodes(g, a)
      BY <2>3 DEF CanonicalView, SceneOf
    <3>2. id \in view.nodes /\ Collapses(g, id)
      BY <2>1 DEF ToggleCollapsed, Collapses
    <3> QED BY <3>1, <3>2 DEF CanonicalNodes, Belonging
  <2>5. PICK expanded, ms, h : /\ expanded = ~graph.modules[id].expanded
                               /\ ms = [g.modules EXCEPT ![id].expanded = expanded]
                               /\ h = [g EXCEPT !.modules = ms]
    OBVIOUS
  <2>6. graph' = h /\ active' = a /\ view' = Presentation(h, a, view, id)
    <3>1. SetCollapsed(id, ~graph.modules[id].expanded)
      BY <1>2 DEF ToggleCollapsed
    <3>2. graph' = SetExpanded(id, expanded) /\ view' = Presentation(graph', active, view, id)
          /\ active' = active
      BY <2>5, <3>1, Zenon DEF SetCollapsed
    <3>3. SetExpanded(id, expanded) = h
      BY <2>1, <2>5 DEF SetExpanded
    <3> QED BY <2>1, <3>2, <3>3
  <2>7. h.order = g.order /\ h.connections = g.connections /\ h.modules = ms
    BY <2>2, <2>5 DEF GraphSound
  <2>8. /\ DOMAIN h.modules = DOMAIN g.modules
        /\ \A k \in DOMAIN g.modules :
             /\ h.modules[k].type = g.modules[k].type
             /\ h.modules[k].instance = g.modules[k].instance
             /\ k # id => h.modules[k].expanded = g.modules[k].expanded
    BY <2>5, <2>7
  <2>9. /\ SceneGraph(h) /\ Apart(h)
        /\ Presentation(h, a, CanonicalView(g, a), id) = CanonicalView(h, a)
    BY <2>2, <2>4, <2>7, <2>8, ToggleIsCanonical
  <2>10. RefreshedView(h, a) = CanonicalView(h, a)
    BY <2>9, RefreshIsCanonical
  <2> QED BY <2>3, <2>6, <2>9, <2>10 DEF ViewIsCanonical
<1> QED BY <1>1, <1>2

LEMMA ViewKeeps ==
  EditorInv /\ EditorInv' /\ AttachedApart /\ AttachedApart' /\ ViewIsCanonical /\ [Next]_vars
    => ViewIsCanonical'
<1> SUFFICES ASSUME EditorInv, EditorInv', AttachedApart, AttachedApart', ViewIsCanonical,
                    [Next]_vars
             PROVE  ViewIsCanonical'
  OBVIOUS
<1>1. ASSUME NEW s, NEW t, ConnectionCreated(s, t) PROVE ViewIsCanonical'
  BY <1>1, AddConnectionShows DEF ConnectionCreated
<1>2. ASSUME NEW s, NEW side, NEW id, CompleteDraft(s, side, id) PROVE ViewIsCanonical'
  BY <1>2, AddConnectionShows DEF CompleteDraft
<1>3. ASSUME NEW id, ConnectionDeleted(id) PROVE ViewIsCanonical'
  BY <1>3, OnlyRefreshShows DEF ConnectionDeleted, CommitAndRefresh, ViewIsCanonical
<1>4. ASSUME NEW id, NEW whole, NodeMoved(id, whole) PROVE ViewIsCanonical'
  <2>1. PICK next : next = Placed(id, whole)
    OBVIOUS
  <2>2. OnlyRefresh \/ Commit(next)
    BY <1>4, <2>1, Zenon DEF NodeMoved
  <2> QED BY <2>2, OnlyRefreshShows, CommitShows
<1>5. ASSUME NEW id, ToggleCollapsed(id) PROVE ViewIsCanonical'
  BY <1>5, ToggledShows
<1>6. ASSUME NEW id, NEW type, NEW whole, CreateModule(id, type, whole) PROVE ViewIsCanonical'
  BY <1>6 DEF CreateModule, CommitAndRefresh, ViewIsCanonical
<1>7. ASSUME ApplyTopologyPreset PROVE ViewIsCanonical'
  <2>1. PICK next : Commit(next)
    BY <1>7, Zenon DEF ApplyTopologyPreset
  <2> QED BY <2>1, CommitShows
<1>8. ASSUME NEW i, SelectInstance(i) PROVE ViewIsCanonical'
  BY <1>8 DEF SelectInstance, ViewIsCanonical
<1>9. ASSUME NEW i, AddInstance(i) PROVE ViewIsCanonical'
  BY <1>9 DEF AddInstance, ViewIsCanonical
<1>10. ASSUME UNCHANGED <<graph, active, view>> PROVE ViewIsCanonical'
  BY <1>10 DEF ViewIsCanonical
<1>11. CASE Gesture
  BY <1>1, <1>2, <1>3, <1>4, <1>5, <1>6, <1>7, <1>11 DEF Gesture
<1>12. CASE EditRecord \/ OpenFails \/ UNCHANGED vars
  BY <1>10, <1>12 DEF EditRecord, OpenFails, vars
<1> QED BY <1>8, <1>9, <1>11, <1>12 DEF Next

(* Packages whose attached types have one interface, for one connection.   *)
AttachedAreSingle ==
  \A type \in AttachedTypes : \A p, q \in Ports(type) :
    p = q /\ Port(type, p).cardinality = "one" /\ ~Port(type, p).multi

(* The connection loaded later would take an interface that is taken.      *)
LEMMA EndIsFree ==
  ASSUME NEW g, GraphSound(g), GraphValid(g), NEW m \in DOMAIN g.connections,
         NEW n \in DOMAIN g.connections, m < n,
         NEW end, end \in {g.connections[m].source, g.connections[m].target},
         end \in {g.connections[n].source, g.connections[n].target},
         Semantics(g, end).cardinality = "one", ~Semantics(g, end).multi
  PROVE  FALSE
<1>1. PICK c, d : c = g.connections[m] /\ d = g.connections[n]
  OBVIOUS
<1>2. ~Blocks(g, c, d.source, d.target)
  BY <1>1 DEF GraphSound
<1>3. c.status # "invalid"
  BY <1>1 DEF GraphValid, ToSet
<1>4. Takes(g, c, d.source, d.target, end)
  BY <1>3 DEF Takes
<1> QED BY <1>1, <1>2, <1>4 DEF Blocks

LEMMA LeavesApart ==
  ASSUME AttachedAreSingle, NEW g, GraphSound(g), SceneGraph(g), GraphValid(g)
  PROVE  Apart(g)
<1> SUFFICES ASSUME NEW c \in ToSet(g.connections), NEW d \in ToSet(g.connections),
                    NEW h \in Joining(c), Attaches(g, c, h, OtherEnd(c, h)),
                    OtherEnd(c, h) \in Joining(d)
             PROVE  h \in Joining(d)
  BY DEF Apart
<1>1. PICK x : x = OtherEnd(c, h) /\ x \in Joining(c) /\ x \in Joining(d)
  BY DEF OtherEnd, Joining
<1>2. TypeWith(g, x) \in AttachedTypes
  BY <1>1 DEF Attaches
<1>3. ASSUME NEW k \in ToSet(g.connections), x \in Joining(k)
      PROVE  \E end \in {k.source, k.target} :
               end[1] = x /\ end = <<x, end[2]>> /\ end[2] \in Ports(TypeWith(g, x))
  <2>1. PICK end \in {k.source, k.target} : end[1] = x
    BY <1>3 DEF Joining
  <2>2. end = <<end[1], end[2]>>
    BY DEF SceneGraph
  <2>3. HasPort(g, k.source) /\ HasPort(g, k.target)
    BY DEF GraphSound, Compatible, ToSet
  <2> QED BY <2>1, <2>2, <2>3 DEF HasPort, TypeWith
<1>4. PICK end \in {c.source, c.target} :
        end[1] = x /\ end = <<x, end[2]>> /\ end[2] \in Ports(TypeWith(g, x))
  BY <1>1, <1>3
<1>5. PICK other \in {d.source, d.target} :
        other[1] = x /\ other = <<x, other[2]>> /\ other[2] \in Ports(TypeWith(g, x))
  BY <1>1, <1>3
<1>6. end[2] = other[2]
  BY <1>2, <1>4, <1>5 DEF AttachedAreSingle
<1>7. other = end
  BY <1>4, <1>5, <1>6
<1>8. Semantics(g, end).cardinality = "one" /\ ~Semantics(g, end).multi
  BY <1>2, <1>4 DEF AttachedAreSingle, Semantics, TypeWith
<1>9. PICK m, n : /\ m \in DOMAIN g.connections /\ c = g.connections[m]
                  /\ n \in DOMAIN g.connections /\ d = g.connections[n]
  BY DEF ToSet
<1>10. m \in Nat /\ n \in Nat
  BY <1>9, ListIndexes DEF GraphSound
<1>11. m = n
  <2>1. ~(m < n)
    BY <1>4, <1>5, <1>7, <1>8, <1>9, EndIsFree
  <2>2. ~(n < m)
    BY <1>4, <1>5, <1>7, <1>8, <1>9, EndIsFree
  <2> QED BY <1>10, <2>1, <2>2
<1> QED BY <1>9, <1>11

-----------------------------------------------------------------------------
(* The theorems.                                                           *)

LEMMA EditorStarts ==
  Init => EditorInv
<1> SUFFICES ASSUME Init PROVE EditorInv
  OBVIOUS
<1>1. IsDesign(InitialDesign) /\ Loaded(InitialDesign).ok
  BY NodeEditorAssumption
<1>2. GraphSound(graph) /\ SceneGraph(graph)
  BY <1>1, LoadedGraph DEF Init
<1>3. active \in ToSet(design.components)
  BY <1>1, DesignParts, HeadIs DEF Init
<1> QED BY <1>1, <1>2, <1>3 DEF Init, EditorInv

LEMMA StepKeeps ==
  EditorInv /\ [Next]_vars => Keeps
<1> SUFFICES ASSUME EditorInv, [Next]_vars PROVE Keeps
  OBVIOUS
<1>1. CASE \E s, t \in VisibleEnds : ConnectionCreated(s, t)
  <2>1. PICK s, t : s \in VisibleEnds /\ t \in VisibleEnds /\ ConnectionCreated(s, t)
    BY <1>1
  <2> QED BY <2>1, DrawnIsOption, AddConnectionKeeps
<1>2. CASE \E s \in VisibleEnds, side \in {"output", "input"}, id \in view.nodes :
             CompleteDraft(s, side, id)
  <2>1. PICK s, side, id : s \in VisibleEnds /\ CompleteDraft(s, side, id)
    BY <1>2
  <2> QED BY <2>1, DroppedIsOption, AddConnectionKeeps
<1>3. CASE \E id \in view.edges : ConnectionDeleted(id)
  BY <1>3, DeletedKeeps
<1>4. CASE \E id \in view.nodes, whole \in BOOLEAN : NodeMoved(id, whole)
  BY <1>4, MovedKeeps
<1>5. CASE \E id \in view.nodes : ToggleCollapsed(id)
  BY <1>5, ToggledKeeps
<1>6. CASE \E id \in FreshIds, type \in Creatable(active), whole \in BOOLEAN :
             CreateModule(id, type, whole)
  BY <1>6, CreatedKeeps
<1>7. CASE ApplyTopologyPreset
  BY <1>7, PresetKeeps
<1>8. CASE \E i \in Instances : SelectInstance(i)
  BY <1>8, StillKeeps DEF SelectInstance
<1>9. CASE EditRecord
  BY <1>9, RecordKeeps
<1>10. CASE \E i \in Instances : AddInstance(i)
  BY <1>10, AddedKeeps
<1>11. CASE OpenFails
  BY <1>11, StillKeeps DEF OpenFails, EditorInv
<1>12. CASE UNCHANGED vars
  BY <1>12, StillKeeps DEF vars, EditorInv
<1> QED
  BY <1>1, <1>2, <1>3, <1>4, <1>5, <1>6, <1>7, <1>8, <1>9, <1>10, <1>11, <1>12
     DEF Next, Gesture

(* Every connection of the graph is one the rules take with all the others *)
(* there, whatever was loaded, drawn, deleted and toggled, in whatever     *)
(* order: ConnectionRuleService asked before each edit and once more for   *)
(* each connection a rebuild loads.                                        *)
THEOREM GraphAlwaysLegal ==
  Spec => []GraphIsLegal
<1>1. Init => EditorInv
  BY EditorStarts
<1>2. EditorInv /\ [Next]_vars => EditorInv'
  BY StepKeeps DEF Keeps
<1>3. EditorInv => GraphIsLegal
  BY SoundIsLegal DEF EditorInv
<1> QED BY <1>1, <1>2, <1>3, PTL DEF Spec

(* An edit that is not refused leaves a graph that shows the design, if it *)
(* did before: a rebuild takes every record and every connection, and what *)
(* is patched on both sides is patched alike.                              *)
THEOREM EditsAlwaysShown ==
  Spec => EditsAreShown
<1>1. Init => EditorInv
  BY EditorStarts
<1>2. EditorInv /\ [Next]_vars => EditorInv'
  BY StepKeeps DEF Keeps
<1>3. EditorInv /\ [Next]_vars =>
        [design' # design /\ ~stale' /\ InStep => InStep']_vars
  BY StepKeeps DEF Keeps
<1> QED BY <1>1, <1>2, <1>3, PTL DEF Spec, EditsAreShown

(* A design that cannot be loaded, and a project that cannot be opened,    *)
(* leave the graph as it was: the candidate is loaded beside it.           *)
THEOREM FailureAlwaysKeepsGraph ==
  Spec => FailureKeepsGraph
<1>1. ASSUME NEW next, stale', Rebuild(next) PROVE graph' = graph
  BY <1>1 DEF Rebuild
<1>2. ASSUME NEW next, stale', Commit(next) PROVE graph' = graph
  BY <1>1, <1>2 DEF Commit
<1>3. ASSUME NEW option, stale', ExecuteAddConnection(option) PROVE graph' = graph
  BY <1>3 DEF ExecuteAddConnection, CommitAndRefresh, OnlyRefresh, Rebuild
<1>4. ASSUME Gesture, stale' PROVE graph' = graph
  <2>1. ASSUME NEW s, NEW t, ConnectionCreated(s, t) PROVE graph' = graph
    BY <1>3, <1>4, <2>1 DEF ConnectionCreated
  <2>2. ASSUME NEW s, NEW side, NEW id, CompleteDraft(s, side, id) PROVE graph' = graph
    BY <1>3, <1>4, <2>2 DEF CompleteDraft
  <2>3. ASSUME NEW id, ConnectionDeleted(id) PROVE graph' = graph
    BY <1>4, <2>3 DEF ConnectionDeleted, CommitAndRefresh, OnlyRefresh, Rebuild
  <2>4. ASSUME NEW id, NEW whole, NodeMoved(id, whole) PROVE graph' = graph
    <3>1. PICK next : next = Placed(id, whole)
      OBVIOUS
    <3>2. stale \/ Commit(next)
      BY <2>4, <3>1 DEF NodeMoved, Commit, Rebuild
    <3> QED BY <1>2, <1>4, <2>4, <3>2 DEF NodeMoved, OnlyRefresh
  <2>5. ASSUME NEW id, ToggleCollapsed(id) PROVE graph' = graph
    BY <1>4, <2>5 DEF ToggleCollapsed, SetCollapsed, OnlyRefresh
  <2>6. ASSUME NEW id, NEW type, NEW whole, CreateModule(id, type, whole) PROVE graph' = graph
    BY <1>4, <2>6 DEF CreateModule, CommitAndRefresh, Rebuild
  <2>7. ASSUME ApplyTopologyPreset PROVE graph' = graph
    BY <1>4, <2>7 DEF ApplyTopologyPreset, Commit, Rebuild
  <2> QED BY <1>4, <2>1, <2>2, <2>3, <2>4, <2>5, <2>6, <2>7 DEF Gesture
<1>5. [Next]_vars => [stale' => graph' = graph]_vars
  BY <1>4 DEF Next, SelectInstance, EditRecord, AddInstance, OpenFails, vars
<1> QED BY <1>5, PTL DEF Spec, FailureKeepsGraph

(* Whatever events made the scene (a load, a selection, a toggled host, a  *)
(* refresh), it is what a full refresh would show, as long as what is      *)
(* attached to a host that collapses is connected with that host alone.    *)
THEOREM ViewStaysCanonical ==
  Spec /\ []AttachedApart => []ViewIsCanonical
<1>1. Init => EditorInv
  BY EditorStarts
<1>2. EditorInv /\ [Next]_vars => EditorInv'
  BY StepKeeps DEF Keeps
<1>3. Init => ViewIsCanonical
  BY DEF Init, ViewIsCanonical
<1>4. EditorInv /\ EditorInv' /\ AttachedApart /\ AttachedApart' /\ ViewIsCanonical /\ [Next]_vars
        => ViewIsCanonical'
  BY ViewKeeps
<1> QED BY <1>1, <1>2, <1>3, <1>4, PTL DEF Spec

(* With packages whose attached types have one interface for one           *)
(* connection, and a project in which no connection is said to be invalid, *)
(* the scene is always what a full refresh would show.                     *)
THEOREM ViewAlwaysCanonical ==
  ASSUME AttachedAreSingle, NoneInvalid(InitialDesign)
  PROVE  Spec => []ViewIsCanonical
<1>1. Init => EditorInv /\ AllValid
  <2> SUFFICES ASSUME Init PROVE AllValid
    BY EditorStarts
  <2>1. IsDesign(InitialDesign) /\ Loaded(InitialDesign).ok
    BY NodeEditorAssumption
  <2>2. GraphValid(graph)
    BY <2>1, LoadedGraph, ShownIsValid DEF Init
  <2> QED BY <2>2 DEF AllValid, Init
<1>2. EditorInv /\ AllValid /\ [Next]_vars => EditorInv' /\ AllValid'
  BY StepKeeps DEF Keeps
<1>3. EditorInv /\ AllValid => AttachedApart
  BY LeavesApart DEF EditorInv, AllValid, AttachedApart
<1> QED BY <1>1, <1>2, <1>3, ViewStaysCanonical, PTL DEF Spec

=============================================================================
