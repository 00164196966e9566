-------------------------- MODULE ProjectInstances --------------------------
(***************************************************************************)
(* The list of IP-instance records a project owns, and the selected one:   *)
(* ProjectStateService (the records) and ProjectIpService (creation,       *)
(* limits, names, selection), as operators on one value                    *)
(*     [records: Seq(Record), selected: InstanceRef \cup {NoInstance}].    *)
(* A record keeps what the services tell apart: the IP core it belongs to, *)
(* its instance id and one configurable parameter.  An instance id         *)
(* "<token>_<n>" is the pair <<token, n>>, so that the suffix scan that    *)
(* picks the next id is modelled by what it does.                          *)
(***************************************************************************)
EXTENDS Integers, Sequences, FiniteSets, SequencesExt

CONSTANTS
  Cores,          \* ids of the IP cores in the catalog
  TokenOf,        \* TokenOf[c]: instanceIdToken(c), which two cores may share
  CoreLimit,      \* CoreLimit[c]: maxInstances of c, or Unlimited
  ScopeLimits,    \* ScopeLimits[c]: function from the scopes c limits to the limit
  KindScope,      \* KindScope[c]: the scope "kind:<kind of c>"
  Values,         \* values of the configurable parameter
  DefaultValue,   \* the value a new instance starts with
  Unlimited, NoInstance

ASSUME ProjectInstancesAssumption ==
  /\ \A c \in Cores : CoreLimit[c] = Unlimited \/ CoreLimit[c] \in Int
  /\ \A c \in Cores : \A s \in DOMAIN ScopeLimits[c] : ScopeLimits[c][s] \in Int
  /\ DefaultValue \in Values

Tokens == {TokenOf[c] : c \in Cores}

InstanceRefs(n) == [core: Cores, inst: Tokens \X (0 .. n)]

Ref(r) == [core |-> r.core, inst |-> r.inst]

(* The position of a record, or 0.  The C++ returns -1 and counts from 0.  *)
IndexOfRecord(records, ref) ==
  SelectInSeq(records, LAMBDA r : Ref(r) = ref)

HasRecord(records, ref) == IndexOfRecord(records, ref) # 0

(* insertIpInstanceRecord refuses a duplicate and clamps the position.     *)
CanInsert(records, r) == ~HasRecord(records, Ref(r))

InsertRecord(records, position, r) ==
  LET at == IF position < 1 THEN 1
            ELSE IF position > Len(records) + 1 THEN Len(records) + 1
            ELSE position
  IN  InsertAt(records, at, r)

TakeRecord(records, ref) == RemoveAt(records, IndexOfRecord(records, ref))

ParameterOf(records, ref) == records[IndexOfRecord(records, ref)].value

SetParameter(records, ref, v) ==
  [records EXCEPT ![IndexOfRecord(records, ref)].value = v]

-----------------------------------------------------------------------------
(* Creation: every limit of the catalog entry is checked against the whole *)
(* record list, then the id is one past the largest suffix in use for the  *)
(* token, whichever core the record with that suffix belongs to.           *)
CountFor(records, Matches(_)) ==
  Cardinality({i \in DOMAIN records : Matches(records[i])})

(* An entry's limit of 0 or less is ignored.                               *)
LimitsScope(c, s) == s \in DOMAIN ScopeLimits[c] /\ ScopeLimits[c][s] > 0

(* A record counts for the scopes its own entry limits, and for its kind.  *)
MatchesScope(r, s) == LimitsScope(r.core, s) \/ s = KindScope[r.core]

(* Mutant: one instance too many.                                          *)
WithinLimitsOrAt(records, c) ==
  CoreLimit[c] = Unlimited \/ CountFor(records, LAMBDA r : r.core = c) <= CoreLimit[c]

WithinLimits(records, c) ==
  /\ \/ CoreLimit[c] = Unlimited
     \/ /\ CoreLimit[c] > 0
        /\ CountFor(records, LAMBDA r : r.core = c) < CoreLimit[c]
  /\ \A s \in DOMAIN ScopeLimits[c] :
       LimitsScope(c, s) =>
         CountFor(records, LAMBDA r : MatchesScope(r, s)) < ScopeLimits[c][s]

SuffixesInUse(records, token) ==
  {records[i].inst[2] : i \in {j \in DOMAIN records : records[j].inst[1] = token}}

(* Mutant: the suffix counts the instances of the IP core.                 *)
NextByCount(records, c) ==
  <<TokenOf[c], CountFor(records, LAMBDA r : r.core = c)>>

NextInstanceId(records, c) ==
  LET used == SuffixesInUse(records, TokenOf[c])
  IN  <<TokenOf[c], IF used = {} THEN 0 ELSE 1 + CHOOSE n \in used : \A m \in used : m <= n>>

DefaultRecord(c, inst) == [core |-> c, inst |-> inst, value |-> DefaultValue]

CanCreate(doc, c) ==
  /\ WithinLimits(doc.records, c)
  /\ CanInsert(doc.records, DefaultRecord(c, NextInstanceId(doc.records, c)))

CreateInstance(doc, c) ==
  LET r == DefaultRecord(c, NextInstanceId(doc.records, c))
  IN  [records  |-> InsertRecord(doc.records, Len(doc.records) + 1, r),
       selected |-> Ref(r)]

-----------------------------------------------------------------------------
(* handleIpInstanceRecordsMutated with the ExactOrClear policy, the one    *)
(* the commands use: the preferred instance if it exists, else none.       *)
ReselectExactOrClear(records, preferred) ==
  IF preferred # NoInstance /\ HasRecord(records, preferred) THEN preferred ELSE NoInstance

(* loadFromDocument and clear select the first record, if there is one.    *)
SelectFirst(records) ==
  IF records = <<>> THEN NoInstance ELSE Ref(records[1])

OpenedOn(records) == [records |-> records, selected |-> SelectFirst(records)]

(* selectInstance: only an existing record can be selected.                *)
Selectable(doc) == {Ref(doc.records[i]) : i \in DOMAIN doc.records}
=============================================================================
